----------------------------- MODULE ProxiesMC -----------------------------
(* Each behaviour runs one of the two proxies, chosen by part; the other's *)
(* own variables keep their initial values.                                *)
EXTENDS EpollProxy, TlsProxy

VARIABLE part
vars == <<part, loopVars, epollVars, tlsVars>>

Init == part \in {"epoll", "tls"} /\ EpollInit /\ TlsInit

RunsEpoll == part = "epoll" /\ EpollNext /\ UNCHANGED <<part, tlsVars>>
RunsTls == part = "tls" /\ TlsNext /\ UNCHANGED <<part, epollVars>>
Next == RunsEpoll \/ RunsTls

Spec == Init /\ [][Next]_vars

(* Tables, sockets and the objects behind them agree in both proxies, also *)
(* when an event collected for a closed socket meets its reused number.    *)
TablesMatchSockets == IF part = "epoll" THEN EpollTables ELSE TlsTables

(* No edge is lost: what can be read, or accepted, has an event on its way *)
(* to the loop, except after the failures of accept() and the early        *)
(* returns of TlsProxy that acceptBroke and missed record.                 *)
NothingStranded ==
  alive /\ pc \notin {"start", "returned"} =>
    /\ IF part = "epoll" THEN EpollAnnounced ELSE TlsAnnounced
    /\ backlog # {} => ListenAnnounced \/ acceptBroke

(* Both proxies implement the abstract relay, through resets, time-outs,   *)
(* failed handshakes and stale events: connections open once and close for *)
(* good, and what is delivered is the other side's next chunk, in TlsProxy *)
(* as long as no chunk has overtaken another.                              *)
AbstractRelay ==
  INSTANCE Relay WITH state <- IF part = "epoll" THEN EpollState ELSE TlsState,
                      out <- IF part = "epoll" THEN out ELSE TlsDelivered
ProxiesImplementRelay == AbstractRelay!Spec

(* TlsProxy keeps each direction in order (see TlsInOrder).                *)
TlsKeepsOrder == part = "tls" => TlsInOrder
=============================================================================
