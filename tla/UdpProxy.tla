------------------------------- MODULE UdpProxy -------------------------------
(***************************************************************************)
(* UdpProxy (src/src/udp_proxy.cpp): one thread that runs an edge-triggered*)
(* epoll loop over the listening socket and one connected socket per       *)
(* client, the two session tables, idle expiry, stop() from another thread *)
(* and the destructor.                                                     *)
(*                                                                         *)
(* What recv can return is its kind: "data", or "bad" for a zero-length    *)
(* datagram or a pending socket error, which the code treats alike; from a *)
(* client it also carries an address.  Addresses and the "ip:port" keys made from them   *)
(* by addr_to_key correspond one to one and are members of Clients.  Of    *)
(* time only "idle for session_timeout_" is kept; the cleanup interval may *)
(* or may not be over when the loop looks.  The handlers take one action per datagram, so that traffic       *)
(* arrives while they drain a socket.  Behaviours start inside run().      *)
(***************************************************************************)
EXTENDS Naturals, Sequences, FiniteSets

CONSTANTS
  Clients,   \* client addresses
  Fds,       \* descriptor numbers of target sockets
  Listen,    \* listen_fd_
  MaxEvents, \* max_events_
  MaxQueue,  \* bound: datagrams waiting in the listening socket
  MaxReplies,\* bound: datagrams waiting in a target socket
  None

ASSUME ListenAssumption == Listen \notin Fds
ASSUME FdsAssumption == IsFiniteSet(Fds)
ASSUME NoneAssumption == None \notin Clients /\ None \notin Fds \cup {Listen}
ASSUME MaxAssumption == MaxEvents \in Nat \ {0} /\ MaxQueue \in Nat /\ MaxReplies \in Nat

Kinds == {"data", "bad"}
Datagrams == [from : Clients, kind : Kinds]

VARIABLES
  running,  \* running_
  pc,       \* "wait", "batch", "client", "target", "returned" or "destroyed"
  batch,    \* events not handled yet, each with the socket it was raised for
  cur,      \* handle_target_data: target_fd ...
  dest,     \* ... and client_addr
  byClient, \* sessions_by_client_ : address -> Session::target_fd
  byTarget, \* sessions_by_target_ : descriptor -> address
  idle,     \* sessions whose last_activity is session_timeout_ old
  fdTab,    \* kernel: target socket number -> client it was made for, or None
  lq, tq,   \* kernel: what waits in the listening and the target sockets
  ready     \* kernel: descriptors with an edge that epoll has not reported

tables == <<byClient, byTarget, idle>>
kernel == <<fdTab, lq, tq, ready>>
vars == <<running, pc, batch, cur, dest, tables, kernel>>

Init ==
  /\ running = TRUE /\ pc = "wait" /\ batch = {} /\ cur = None /\ dest = None
  /\ byClient = [c \in Clients |-> None] /\ byTarget = [f \in Fds |-> None]
  /\ idle = {}
  /\ fdTab = [f \in Fds |-> None] /\ ready = {}
  /\ lq = <<>> /\ tq = [f \in Fds |-> <<>>]

SockOf(f) == IF f = Listen THEN Listen ELSE fdTab[f]
LoopTestIgnoresStop == "wait"   \* faulty variant
LoopTest == IF running THEN "wait" ELSE "returned"

(* Faulty variant: the session is forgotten, its socket is not closed.     *)
CloseSessionsNoClose(F) ==
  /\ byTarget' = [f \in Fds |-> IF f \in F THEN None ELSE byTarget[f]]
  /\ byClient' = [c \in Clients |-> IF \E f \in F : byTarget[f] = c THEN None ELSE byClient[c]]
  /\ idle' = {c \in idle : ~ \E f \in F : byTarget[f] = c}
  /\ ready' = ready \ F
  /\ UNCHANGED <<fdTab, tq>>

(* close_session for each of the descriptors F; one without a session is   *)
(* ignored.  Closing drops the socket's buffer and its pending edge.       *)
CloseSessions(F) ==
  LET G == {f \in F : byTarget[f] # None} IN
  /\ byTarget' = [f \in Fds |-> IF f \in G THEN None ELSE byTarget[f]]
  /\ byClient' = [c \in Clients |-> IF \E f \in G : byTarget[f] = c THEN None ELSE byClient[c]]
  /\ idle' = {c \in idle : ~ \E f \in G : byTarget[f] = c}
  /\ fdTab' = [f \in Fds |-> IF f \in G THEN None ELSE fdTab[f]]
  /\ tq' = [f \in Fds |-> IF f \in G THEN <<>> ELSE tq[f]]
  /\ ready' = ready \ G

----------------------------------------------------------------------------
(* run()                                                                   *)

(* Faulty variant: more events are asked for than the vector holds.        *)
EpollWaitTooMany(E) ==
  /\ pc = "wait" /\ E \subseteq ready
  /\ E # {} \/ ready = {}
  /\ batch' = {<<f, SockOf(f)>> : f \in E} /\ ready' = ready \ E
  /\ pc' = "batch"
  /\ UNCHANGED <<running, cur, dest, tables, fdTab, lq, tq>>

(* epoll_wait returns up to max_events_ edges, or none after 100 ms.       *)
EpollWait(E) ==
  /\ pc = "wait" /\ E \subseteq ready /\ Cardinality(E) <= MaxEvents
  /\ E # {} \/ ready = {}
  /\ batch' = {<<f, SockOf(f)>> : f \in E} /\ ready' = ready \ E
  /\ pc' = "batch"
  /\ UNCHANGED <<running, cur, dest, tables, fdTab, lq, tq>>

(* EINTR after stop(), or another error: the loop ends without a cleanup.  *)
EpollFails ==
  /\ pc = "wait" /\ pc' = "returned"
  /\ UNCHANGED <<running, batch, cur, dest, tables, kernel>>

DispatchClient ==
  /\ pc = "batch" /\ <<Listen, Listen>> \in batch
  /\ batch' = batch \ {<<Listen, Listen>>} /\ pc' = "client"
  /\ UNCHANGED <<running, cur, dest, tables, kernel>>

(* handle_target_data: both tables are consulted; a descriptor that either *)
(* of them does not know is closed.                                        *)
DispatchTarget(e) ==
  LET f == e[1] IN
  /\ pc = "batch" /\ e \in batch /\ f # Listen
  /\ batch' = batch \ {e}
  /\ IF byTarget[f] # None /\ byClient[byTarget[f]] # None
       THEN /\ cur' = f /\ dest' = byTarget[f] /\ pc' = "target"
            /\ UNCHANGED <<tables, fdTab, tq, ready>>
       ELSE CloseSessions({f}) /\ UNCHANGED <<pc, cur, dest>>
  /\ UNCHANGED <<running, lq>>

(* Faulty variant: expired sessions are closed before the batch is handled.*)
CleanupEarly ==
  /\ pc = "batch"
  /\ CloseSessions({f \in Fds : byTarget[f] \in idle})
  /\ pc' = IF batch = {} THEN LoopTest ELSE "batch"
  /\ UNCHANGED <<running, batch, cur, dest, lq>>

(* Faulty variant: expired sessions are not closed.                        *)
CleanupNothing ==
  /\ pc = "batch" /\ batch = {}
  /\ pc' = LoopTest
  /\ UNCHANGED <<running, batch, cur, dest, tables, kernel>>

(* After the batch: cleanup_expired_sessions if cleanup_interval_ is over. *)
Cleanup ==
  /\ pc = "batch" /\ batch = {}
  /\ CloseSessions({f \in Fds : \/ byTarget[f] \in idle
                                \/ byTarget[f] # None /\ byClient[byTarget[f]] = None})
  /\ pc' = LoopTest
  /\ UNCHANGED <<running, batch, cur, dest, lq>>

NoCleanup ==
  /\ pc = "batch" /\ batch = {}
  /\ pc' = LoopTest
  /\ UNCHANGED <<running, batch, cur, dest, tables, kernel>>

----------------------------------------------------------------------------
(* handle_client_data: recvfrom(listen_fd_) until the buffer is empty, an  *)
(* error is returned or a datagram has length 0.                           *)

Arrived(kinds) == pc = "client" /\ lq # <<>> /\ Head(lq).kind \in kinds

ClientDrained ==
  /\ pc = "client" /\ lq = <<>> /\ pc' = "batch"
  /\ UNCHANGED <<running, batch, cur, dest, tables, kernel>>

ClientBreaks ==
  /\ Arrived({"bad"})
  /\ lq' = Tail(lq) /\ pc' = "batch"
  /\ UNCHANGED <<running, batch, cur, dest, tables, fdTab, tq, ready>>

(* The client has a session: send() on its target socket; success counts   *)
(* as activity.                                                            *)
ForwardKnown(ok) ==
  /\ Arrived({"data"}) /\ byClient[Head(lq).from] # None
  /\ lq' = Tail(lq)
  /\ idle' = IF ok THEN idle \ {Head(lq).from} ELSE idle
  /\ UNCHANGED <<running, pc, batch, cur, dest, byClient, byTarget, fdTab, tq, ready>>

(* get_or_create_session: a socket connected to the target, registered     *)
(* with epoll and in both tables; then the datagram is sent.               *)
NewSession(f) ==
  LET c == Head(lq).from IN
  /\ Arrived({"data"}) /\ byClient[c] = None /\ fdTab[f] = None
  /\ lq' = Tail(lq)
  /\ fdTab' = [fdTab EXCEPT ![f] = c]
  /\ byClient' = [byClient EXCEPT ![c] = f]
  /\ byTarget' = [byTarget EXCEPT ![f] = c]
  /\ UNCHANGED <<running, pc, batch, cur, dest, idle, tq, ready>>

(* socket, connect, fcntl or epoll_ctl fails: nothing is kept, the         *)
(* datagram is dropped and the loop goes on.                               *)
NewSessionFails ==
  /\ Arrived({"data"}) /\ byClient[Head(lq).from] = None
  /\ lq' = Tail(lq)
  /\ UNCHANGED <<running, pc, batch, cur, dest, tables, fdTab, tq, ready>>

----------------------------------------------------------------------------
(* handle_target_data: recv(target_fd) until the buffer is empty; each     *)
(* datagram goes to client_addr.  An error or a datagram of length 0       *)
(* closes the session.                                                     *)

Answered(kinds) == pc = "target" /\ tq[cur] # <<>> /\ Head(tq[cur]) \in kinds

TargetDrained ==
  /\ pc = "target" /\ tq[cur] = <<>>
  /\ pc' = "batch" /\ cur' = None /\ dest' = None
  /\ UNCHANGED <<running, batch, tables, kernel>>

(* Faulty variant: one datagram per event, as if epoll were level-         *)
(* triggered.                                                              *)
TargetDataOnce(ok) ==
  /\ Answered({"data"})
  /\ tq' = [tq EXCEPT ![cur] = Tail(@)]
  /\ idle' = IF ok THEN idle \ {dest} ELSE idle
  /\ pc' = "batch" /\ cur' = None /\ dest' = None
  /\ UNCHANGED <<running, batch, byClient, byTarget, fdTab, lq, ready>>

TargetData(ok) ==
  /\ Answered({"data"})
  /\ tq' = [tq EXCEPT ![cur] = Tail(@)]
  /\ idle' = IF ok THEN idle \ {dest} ELSE idle
  /\ UNCHANGED <<running, pc, batch, cur, dest, byClient, byTarget, fdTab, lq, ready>>

(* Faulty variant: the handler goes on after closing the session.          *)
TargetEndsNoReturn ==
  /\ Answered({"bad"})
  /\ CloseSessions({cur})
  /\ UNCHANGED <<running, pc, cur, dest, batch, lq>>

TargetEnds ==
  /\ Answered({"bad"})
  /\ CloseSessions({cur})
  /\ pc' = "batch" /\ cur' = None /\ dest' = None
  /\ UNCHANGED <<running, batch, lq>>

----------------------------------------------------------------------------
(* stop(), and the destructor once run() has returned.                     *)
Stop ==
  /\ running /\ running' = FALSE
  /\ UNCHANGED <<pc, batch, cur, dest, tables, kernel>>

Destroy ==
  /\ pc = "returned" /\ pc' = "destroyed"
  /\ CloseSessions(Fds)
  /\ UNCHANGED <<running, batch, cur, dest, lq>>

(* Environment: datagrams arrive and raise an edge; time passes.  Nothing  *)
(* reads what arrives once run() has returned, so it is left out.          *)
InRun == pc \notin {"returned", "destroyed"}

ClientSends(c, k) ==
  /\ InRun /\ Len(lq) < MaxQueue
  /\ lq' = Append(lq, [from |-> c, kind |-> k]) /\ ready' = ready \cup {Listen}
  /\ UNCHANGED <<running, pc, batch, cur, dest, tables, fdTab, tq>>

TargetSends(f, k) ==
  /\ InRun /\ fdTab[f] # None /\ Len(tq[f]) < MaxReplies
  /\ tq' = [tq EXCEPT ![f] = Append(@, k)] /\ ready' = ready \cup {f}
  /\ UNCHANGED <<running, pc, batch, cur, dest, tables, fdTab, lq>>

GoesIdle(c) ==
  /\ InRun /\ byClient[c] # None /\ c \notin idle /\ idle' = idle \cup {c}
  /\ UNCHANGED <<running, pc, batch, cur, dest, byClient, byTarget, kernel>>

----------------------------------------------------------------------------
LoopStep ==
  \/ \E E \in SUBSET ready : EpollWait(E)
  \/ DispatchClient \/ (\E e \in batch : DispatchTarget(e))
  \/ Cleanup \/ NoCleanup
  \/ ClientDrained \/ ClientBreaks \/ NewSessionFails
  \/ (\E ok \in BOOLEAN : ForwardKnown(ok) \/ TargetData(ok))
  \/ (\E f \in Fds : NewSession(f))
  \/ TargetDrained \/ TargetEnds

Next ==
  \/ LoopStep \/ EpollFails \/ Stop \/ Destroy
  \/ \E c \in Clients, k \in Kinds : ClientSends(c, k)
  \/ \E f \in Fds, k \in Kinds : TargetSends(f, k)
  \/ \E c \in Clients : GoesIdle(c)

Spec == Init /\ [][Next]_vars

(* Fairness: the loop thread is scheduled, and as time passes the cleanup  *)
(* interval is over again and again when the loop looks.                   *)
FairSpec == Spec /\ WF_vars(LoopStep) /\ SF_vars(Cleanup)

----------------------------------------------------------------------------
(* Properties                                                              *)

TypeOK ==
  /\ running \in BOOLEAN
  /\ pc \in {"wait", "batch", "client", "target", "returned", "destroyed"}
  /\ batch \subseteq (Fds \X (Clients \cup {None})) \cup {<<Listen, Listen>>}
  /\ Cardinality(batch) <= MaxEvents
  /\ cur \in Fds \cup {None} /\ dest \in Clients \cup {None}
  /\ byClient \in [Clients -> Fds \cup {None}]
  /\ byTarget \in [Fds -> Clients \cup {None}]
  /\ idle \subseteq Clients
  /\ fdTab \in [Fds -> Clients \cup {None}]
  /\ lq \in Seq(Datagrams)
  /\ tq \in [Fds -> Seq(Kinds)]
  /\ ready \subseteq Fds \cup {Listen}

(* The two session tables are inverse to each other and to the kernel's    *)
(* table: every open target socket belongs to exactly one session, that of *)
(* the client it was made for, and every session has an open socket.       *)
TablesMatchSockets ==
  \A f \in Fds, c \in Clients :
    /\ byTarget[f] = c <=> fdTab[f] = c
    /\ byClient[c] = f <=> fdTab[f] = c

(* A reply goes to the client whose datagram the target answered: while    *)
(* handle_target_data drains a socket, client_addr is the address that     *)
(* socket was made for.                                                    *)
ReplyToOwner == pc = "target" => dest # None /\ fdTab[cur] = dest

(* An event is handled for the socket that raised it: no step between      *)
(* epoll_wait and the handler closes the socket or reuses its number.      *)
EventIsOwn == \A e \in batch : SockOf(e[1]) = e[2] /\ e[2] # None

(* No reply is stranded: when the loop sleeps, every target socket with a  *)
(* datagram waiting has an edge to report, although edges are reported     *)
(* once and datagrams arrive while the handler drains the socket.          *)
NoStrandedReply ==
  pc = "wait" => \A f \in Fds : tq[f] # <<>> => f \in ready

(* A session that stays idle is closed, unless run() ends or a handler is  *)
(* kept busy for ever by traffic that arrives as fast as it is read.       *)
IdleSessionExpires ==
  []<>(pc \notin {"client", "target"}) =>
     \A c \in Clients : c \in idle ~> (c \notin idle \/ pc \in {"returned", "destroyed"})

(* stop() ends run(), under the same condition.                            *)
StopEndsLoop ==
  []<>(pc \notin {"client", "target"}) =>
     (~running ~> pc \in {"returned", "destroyed"})
=============================================================================
