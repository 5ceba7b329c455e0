-------------------------------- MODULE Relay --------------------------------
(***************************************************************************)
(* What a TCP proxy promises: connections opened once and closed for good, *)
(* and while one is open the chunks of either side delivered to the other  *)
(* in order, none invented, doubled, skipped or from another connection.   *)
(***************************************************************************)
EXTENDS Naturals, Sequences

CONSTANTS Conns
VARIABLES state, sent, out

vars == <<state, sent, out>>
Socks == Conns \X {"client", "target"}
Other(s) == IF s[2] = "client" THEN <<s[1], "target">> ELSE <<s[1], "client">>

Init ==
  /\ state = [c \in Conns |-> "new"]
  /\ sent = [s \in Socks |-> 0] /\ out = [s \in Socks |-> <<>>]

Open(c) ==
  state[c] = "new" /\ state' = [state EXCEPT ![c] = "open"] /\ UNCHANGED <<sent, out>>
Close(c) ==
  state[c] # "closed" /\ state' = [state EXCEPT ![c] = "closed"] /\ UNCHANGED <<sent, out>>
Send(s) ==
  sent' = [sent EXCEPT ![s] = @ + 1] /\ UNCHANGED <<state, out>>
Deliver(s) ==
  /\ state[s[1]] = "open" /\ Len(out[s]) < sent[Other(s)]
  /\ out' = [out EXCEPT ![s] = Append(@, <<Other(s), Len(@) + 1>>)]
  /\ UNCHANGED <<state, sent>>

Next == \/ \E c \in Conns : Open(c) \/ Close(c)
        \/ \E s \in Socks : Send(s) \/ Deliver(s)

Spec == Init /\ [][Next]_vars
=============================================================================
