---------------------------- MODULE UdpProxyProofs ----------------------------
(***************************************************************************)
(* The session tables of UdpProxy and its edge-triggered draining, proved  *)
(* for any clients, any finite set of descriptors and any batch size.      *)
(*                                                                         *)
(* EventIsOwn needs that a socket is only closed from its own event        *)
(* (CurIsTaken: the event being handled has left the batch) or when no     *)
(* event is left (AtRest), and that only open sockets raise edges          *)
(* (ReadyIsOpen).  NoStrandedReply is about the sleeping loop; EdgeKept    *)
(* follows the edge of a waiting datagram from the kernel through the      *)
(* batch to the handler.                                                   *)
(***************************************************************************)
EXTENDS UdpProxy, FiniteSetTheorems, TLAPS

(* The events of a batch are handled before the loop goes on.              *)
AtRest == IsFiniteSet(batch) /\ (pc \in {"wait", "returned", "destroyed"} => batch = {})

(* The event whose socket is being drained is no longer in the batch.      *)
CurIsTaken == pc = "target" => cur \in Fds /\ \A e \in batch : e[1] # cur

(* Edges come from open sockets.                                           *)
ReadyIsOpen == \A f \in Fds : f \in ready => fdTab[f] # None

(* A waiting reply has its edge in the kernel, in the batch, or its socket *)
(* is being drained.                                                       *)
EdgeKept ==
  \A f \in Fds : tq[f] # <<>> =>
    \/ f \in ready
    \/ \E e \in batch : e[1] = f
    \/ pc = "target" /\ cur = f

(* The inductive invariant.                                                *)
IInv == /\ TypeOK /\ TablesMatchSockets /\ ReplyToOwner /\ EventIsOwn
        /\ AtRest /\ CurIsTaken /\ ReadyIsOpen /\ EdgeKept

USE ListenAssumption, FdsAssumption, NoneAssumption, MaxAssumption

(* Nothing is open and nothing waits initially.                            *)
LEMMA InitIInv == Init => IInv
<1> SUFFICES ASSUME Init PROVE IInv
  OBVIOUS
<1>1. IsFiniteSet({}) /\ Cardinality({}) = 0
  BY FS_EmptySet
<1>2. TypeOK
  BY <1>1 DEF Init, TypeOK
<1>3. TablesMatchSockets
  BY DEF Init, TablesMatchSockets
<1>4. ReplyToOwner /\ EventIsOwn /\ AtRest /\ CurIsTaken /\ ReadyIsOpen /\ EdgeKept
  BY <1>1 DEF Init, ReplyToOwner, EventIsOwn, AtRest, CurIsTaken, ReadyIsOpen, EdgeKept
<1> QED BY <1>2, <1>3, <1>4 DEF IInv

(* close_session keeps the tables inverse, frees nothing but what it is    *)
(* given and leaves no datagram in a closed socket.                        *)
LEMMA CloseSessionsSafe ==
  ASSUME TypeOK, TablesMatchSockets, ReadyIsOpen, NEW F \in SUBSET Fds, CloseSessions(F)
  PROVE  /\ byClient' \in [Clients -> Fds \cup {None}]
         /\ byTarget' \in [Fds -> Clients \cup {None}]
         /\ fdTab' \in [Fds -> Clients \cup {None}]
         /\ idle' \subseteq Clients /\ ready' \subseteq Fds \cup {Listen}
         /\ tq' \in [Fds -> Seq(Kinds)]
         /\ TablesMatchSockets' /\ ReadyIsOpen'
         /\ \A f \in Fds \ F : fdTab'[f] = fdTab[f]
         /\ \A f \in Fds : tq'[f] # <<>> => tq[f] # <<>> /\ (f \in ready => f \in ready')
         /\ \A f \in F : fdTab[f] # None => tq'[f] = <<>>
<1> DEFINE G == {f \in F : byTarget[f] # None}
<1>1. /\ byTarget' = [f \in Fds |-> IF f \in G THEN None ELSE byTarget[f]]
      /\ byClient' = [c \in Clients |-> IF \E f \in G : byTarget[f] = c THEN None ELSE byClient[c]]
      /\ idle' = {c \in idle : ~ \E f \in G : byTarget[f] = c}
      /\ fdTab' = [f \in Fds |-> IF f \in G THEN None ELSE fdTab[f]]
      /\ tq' = [f \in Fds |-> IF f \in G THEN <<>> ELSE tq[f]]
      /\ ready' = ready \ G
  BY DEF CloseSessions
<1>2. /\ byClient \in [Clients -> Fds \cup {None}] /\ byTarget \in [Fds -> Clients \cup {None}]
      /\ fdTab \in [Fds -> Clients \cup {None}] /\ tq \in [Fds -> Seq(Kinds)]
      /\ idle \subseteq Clients /\ ready \subseteq Fds \cup {Listen}
  BY DEF TypeOK
<1>3. \A f \in Fds : byTarget[f] # None <=> fdTab[f] # None
  BY <1>2 DEF TablesMatchSockets
<1>4. TablesMatchSockets'
  BY <1>1, <1>2 DEF TablesMatchSockets
<1>5. tq' \in [Fds -> Seq(Kinds)]
  BY <1>1, <1>2
<1>6. ReadyIsOpen'
  BY <1>1, <1>2 DEF ReadyIsOpen
<1>7. /\ \A f \in Fds \ F : fdTab'[f] = fdTab[f]
      /\ \A f \in Fds : tq'[f] # <<>> => tq[f] # <<>> /\ (f \in ready => f \in ready')
      /\ \A f \in F : fdTab[f] # None => tq'[f] = <<>>
  BY <1>1, <1>2, <1>3
<1> HIDE DEF G
<1> QED BY <1>1, <1>2, <1>4, <1>5, <1>6, <1>7

(* Taking an event out of the batch keeps it finite and small enough.      *)
LEMMA TakeEvent ==
  ASSUME TypeOK, AtRest, NEW e \in batch, batch' = batch \ {e}
  PROVE  /\ batch' \subseteq (Fds \X (Clients \cup {None})) \cup {<<Listen, Listen>>}
         /\ IsFiniteSet(batch') /\ Cardinality(batch') <= MaxEvents
<1>1. IsFiniteSet(batch) /\ Cardinality(batch) <= MaxEvents
  BY DEF TypeOK, AtRest
<1>2. Cardinality(batch) \in Nat
  BY <1>1, FS_CardinalityType
<1>3. IsFiniteSet(batch \ {e}) /\ Cardinality(batch \ {e}) = Cardinality(batch) - 1
  BY <1>1, FS_RemoveElement
<1> QED BY <1>1, <1>2, <1>3 DEF TypeOK

(* The batch epoll_wait fills: one event per reported descriptor.          *)
LEMMA NewBatch ==
  ASSUME TypeOK, NEW E \in SUBSET ready, Cardinality(E) <= MaxEvents,
         batch' = {<<f, SockOf(f)>> : f \in E}
  PROVE  /\ batch' \subseteq (Fds \X (Clients \cup {None})) \cup {<<Listen, Listen>>}
         /\ IsFiniteSet(batch') /\ Cardinality(batch') <= MaxEvents
<1>1. IsFiniteSet(Fds \cup {Listen}) /\ E \in SUBSET (Fds \cup {Listen})
  BY FS_AddElement DEF TypeOK
<1>2. IsFiniteSet(E)
  BY <1>1, FS_Subset
<1> DEFINE g == [f \in E |-> <<f, SockOf(f)>>]
<1>3. g \in Surjection(E, batch')
  BY DEF Surjection
<1>4. IsFiniteSet(batch') /\ Cardinality(batch') <= Cardinality(E)
  <2> HIDE DEF g
  <2> QED BY <1>2, <1>3, FS_Surjection
<1>5. Cardinality(batch') \in Nat /\ Cardinality(E) \in Nat
  BY <1>2, <1>4, FS_CardinalityType
<1>6. \A f \in E : f = Listen \/ (f \in Fds /\ fdTab[f] \in Clients \cup {None})
  BY DEF TypeOK
<1>7. batch' \subseteq (Fds \X (Clients \cup {None})) \cup {<<Listen, Listen>>}
  BY <1>6 DEF SockOf
<1> QED BY <1>4, <1>5, <1>7

(* An event is determined by its descriptor.                               *)
LEMMA OneEventPerFd ==
  ASSUME TypeOK, EventIsOwn, NEW e \in batch, NEW d \in batch, e[1] = d[1]
  PROVE  e = d
<1>1. e[2] = d[2]
  BY DEF EventIsOwn
<1>2. e = <<e[1], e[2]>> /\ d = <<d[1], d[2]>>
  BY DEF TypeOK
<1> QED BY <1>1, <1>2

(* The first datagram of the listening socket names a client.              *)
LEMMA HeadIsDatagram ==
  ASSUME TypeOK, lq # <<>>
  PROVE  Head(lq).from \in Clients /\ Tail(lq) \in Seq(Datagrams)
<1>1. lq \in Seq(Datagrams)
  BY DEF TypeOK
<1>2. Head(lq) \in Datagrams /\ Tail(lq) \in Seq(Datagrams)
  BY <1>1
<1> QED BY <1>2 DEF Datagrams

----------------------------------------------------------------------------
(* The steps of run() keep the invariant.                                  *)
LEMMA LoopKeepsIInv ==
  ASSUME IInv,
         \/ \E E \in SUBSET ready : EpollWait(E)
         \/ EpollFails \/ DispatchClient
         \/ \E e \in batch : DispatchTarget(e)
         \/ Cleanup \/ NoCleanup \/ Destroy
  PROVE  IInv'
<1> USE DEF IInv
<1>1. ASSUME NEW E \in SUBSET ready, EpollWait(E) PROVE IInv'
  <2> USE <1>1
  <2>1. /\ batch' = {<<f, SockOf(f)>> : f \in E} /\ ready' = ready \ E /\ pc' = "batch"
        /\ pc = "wait" /\ batch = {} /\ Cardinality(E) <= MaxEvents
        /\ UNCHANGED <<running, cur, dest, byClient, byTarget, idle, fdTab, lq, tq>>
    BY DEF EpollWait, AtRest, tables
  <2>2. /\ batch' \subseteq (Fds \X (Clients \cup {None})) \cup {<<Listen, Listen>>}
        /\ IsFiniteSet(batch') /\ Cardinality(batch') <= MaxEvents
    BY <2>1, NewBatch
  <2>3. TypeOK'
    BY <2>1, <2>2 DEF TypeOK
  <2>4. TablesMatchSockets' /\ ReadyIsOpen'
    BY <2>1 DEF TablesMatchSockets, ReadyIsOpen
  <2>5. \A f \in E : SockOf(f) # None /\ SockOf(f)' = SockOf(f)
    BY <2>1 DEF SockOf, ReadyIsOpen, TypeOK
  <2>6. EventIsOwn'
    BY <2>1, <2>5 DEF EventIsOwn
  <2>7. AtRest' /\ CurIsTaken' /\ ReplyToOwner'
    BY <2>1, <2>2 DEF AtRest, CurIsTaken, ReplyToOwner
  <2>8. \A f \in E : \E e \in batch' : e[1] = f
    <3> TAKE f \in E
    <3> <<f, SockOf(f)>> \in batch'
      BY <2>1
    <3> WITNESS <<f, SockOf(f)>> \in batch'
    <3> QED OBVIOUS
  <2>9. EdgeKept'
    BY <2>1, <2>8 DEF EdgeKept
  <2> QED BY <2>3, <2>4, <2>6, <2>7, <2>9
<1>2. ASSUME EpollFails PROVE IInv'
  <2>1. /\ pc = "wait" /\ pc' = "returned" /\ batch = {}
        /\ UNCHANGED <<running, batch, cur, dest, byClient, byTarget, idle, fdTab, lq, tq, ready>>
    BY <1>2 DEF EpollFails, AtRest, tables, kernel
  <2>2. TypeOK' /\ TablesMatchSockets' /\ ReadyIsOpen'
    BY <2>1 DEF TypeOK, TablesMatchSockets, ReadyIsOpen
  <2>3. ReplyToOwner' /\ EventIsOwn' /\ AtRest' /\ CurIsTaken' /\ EdgeKept'
    BY <2>1 DEF ReplyToOwner, EventIsOwn, AtRest, CurIsTaken, EdgeKept
  <2> QED BY <2>2, <2>3
<1>3. ASSUME DispatchClient PROVE IInv'
  <2>1. /\ pc = "batch" /\ pc' = "client" /\ <<Listen, Listen>> \in batch
        /\ batch' = batch \ {<<Listen, Listen>>}
        /\ UNCHANGED <<running, cur, dest, byClient, byTarget, idle, fdTab, lq, tq, ready>>
    BY <1>3 DEF DispatchClient, tables, kernel
  <2>2. /\ batch' \subseteq (Fds \X (Clients \cup {None})) \cup {<<Listen, Listen>>}
        /\ IsFiniteSet(batch') /\ Cardinality(batch') <= MaxEvents
    BY <2>1, TakeEvent
  <2>3. TypeOK' /\ TablesMatchSockets' /\ ReadyIsOpen'
    BY <2>1, <2>2 DEF TypeOK, TablesMatchSockets, ReadyIsOpen
  <2>4. ReplyToOwner' /\ AtRest' /\ CurIsTaken'
    BY <2>1, <2>2 DEF ReplyToOwner, AtRest, CurIsTaken
  <2>5. EventIsOwn'
    BY <2>1 DEF EventIsOwn, SockOf
  <2>6. \A e \in batch : e[1] \in Fds => e \in batch'
    BY <2>1
  <2>7. EdgeKept'
    BY <2>1, <2>6 DEF EdgeKept
  <2> QED BY <2>3, <2>4, <2>5, <2>7
<1>4. ASSUME NEW e \in batch, DispatchTarget(e) PROVE IInv'
  <2> DEFINE f == e[1]
  <2>1. f \in Fds /\ fdTab[f] # None /\ pc = "batch" /\ batch' = batch \ {e}
    BY <1>4 DEF DispatchTarget, EventIsOwn, SockOf, TypeOK
  <2>2. byTarget[f] = fdTab[f] /\ byTarget[f] \in Clients /\ byClient[byTarget[f]] = f
    BY <2>1 DEF TypeOK, TablesMatchSockets
  <2>3. /\ cur' = f /\ dest' = byTarget[f] /\ pc' = "target"
        /\ UNCHANGED <<running, byClient, byTarget, idle, fdTab, lq, tq, ready>>
    BY <1>4, <2>1, <2>2 DEF DispatchTarget, tables
  <2>4. /\ batch' \subseteq (Fds \X (Clients \cup {None})) \cup {<<Listen, Listen>>}
        /\ IsFiniteSet(batch') /\ Cardinality(batch') <= MaxEvents
    BY <1>4, <2>1, TakeEvent
  <2>5. \A d \in batch' : d \in batch /\ d[1] # f
    BY <1>4, <2>1, OneEventPerFd
  <2> HIDE DEF f
  <2>6. TypeOK'
    BY <2>1, <2>2, <2>3, <2>4 DEF TypeOK
  <2>7. TablesMatchSockets' /\ ReadyIsOpen' /\ ReplyToOwner'
    BY <2>1, <2>2, <2>3 DEF TablesMatchSockets, ReadyIsOpen, ReplyToOwner
  <2>8. AtRest' /\ CurIsTaken'
    BY <2>1, <2>3, <2>4, <2>5 DEF AtRest, CurIsTaken
  <2>9. EventIsOwn'
    BY <2>3, <2>5 DEF EventIsOwn, SockOf
  <2>10. \A d \in batch : d[1] = f \/ d \in batch'
    BY <2>1 DEF f
  <2>11. EdgeKept'
    BY <2>1, <2>3, <2>10 DEF EdgeKept
  <2> QED BY <2>6, <2>7, <2>8, <2>9, <2>11
<1>5. ASSUME NEW F \in SUBSET Fds, CloseSessions(F), batch = {}, batch' = {},
             pc \in {"batch", "returned"}, pc' \in {"wait", "returned", "destroyed"},
             UNCHANGED <<running, cur, dest, lq>>
      PROVE IInv'
  <2>1. /\ byClient' \in [Clients -> Fds \cup {None}] /\ byTarget' \in [Fds -> Clients \cup {None}]
        /\ fdTab' \in [Fds -> Clients \cup {None}] /\ tq' \in [Fds -> Seq(Kinds)]
        /\ idle' \subseteq Clients /\ ready' \subseteq Fds \cup {Listen}
        /\ TablesMatchSockets' /\ ReadyIsOpen'
        /\ \A f \in Fds : tq'[f] # <<>> => tq[f] # <<>> /\ (f \in ready => f \in ready')
    BY <1>5, CloseSessionsSafe
  <2>2. TypeOK'
    BY <1>5, <2>1 DEF TypeOK
  <2>3. ReplyToOwner' /\ EventIsOwn' /\ AtRest' /\ CurIsTaken'
    BY <1>5 DEF ReplyToOwner, EventIsOwn, AtRest, CurIsTaken
  <2>4. EdgeKept'
    BY <1>5, <2>1 DEF EdgeKept
  <2> QED BY <2>1, <2>2, <2>3, <2>4
<1>6. ASSUME Cleanup PROVE IInv'
  BY <1>5, <1>6 DEF Cleanup, LoopTest
<1>7. ASSUME NoCleanup PROVE IInv'
  <2>1. /\ pc = "batch" /\ pc' \in {"wait", "returned"} /\ batch = {}
        /\ UNCHANGED <<running, batch, cur, dest, byClient, byTarget, idle, fdTab, lq, tq, ready>>
    BY <1>7 DEF NoCleanup, LoopTest, tables, kernel
  <2>2. TypeOK' /\ TablesMatchSockets' /\ ReadyIsOpen'
    BY <2>1 DEF TypeOK, TablesMatchSockets, ReadyIsOpen
  <2>3. ReplyToOwner' /\ EventIsOwn' /\ AtRest' /\ CurIsTaken' /\ EdgeKept'
    BY <2>1 DEF ReplyToOwner, EventIsOwn, AtRest, CurIsTaken, EdgeKept
  <2> QED BY <2>2, <2>3
<1>8. ASSUME Destroy PROVE IInv'
  BY <1>5, <1>8 DEF Destroy, AtRest
<1> QED BY <1>1, <1>2, <1>3, <1>4, <1>6, <1>7, <1>8

(* The steps of the two handlers keep the invariant.                       *)
LEMMA HandlersKeepIInv ==
  ASSUME IInv,
         \/ ClientDrained \/ ClientBreaks \/ NewSessionFails
         \/ \E ok \in BOOLEAN : ForwardKnown(ok) \/ TargetData(ok)
         \/ \E f \in Fds : NewSession(f)
         \/ TargetDrained \/ TargetEnds
  PROVE  IInv'
<1> USE DEF IInv
<1>1. ASSUME pc = "client", pc' \in {"client", "batch"},
             lq' = lq \/ (lq # <<>> /\ lq' = Tail(lq)), idle' \subseteq idle,
             UNCHANGED <<running, batch, cur, dest, byClient, byTarget, fdTab, tq, ready>>
      PROVE IInv'
  <2>1. lq' \in Seq(Datagrams)
    BY <1>1, HeadIsDatagram DEF TypeOK
  <2>2. TypeOK' /\ TablesMatchSockets' /\ ReadyIsOpen'
    BY <1>1, <2>1 DEF TypeOK, TablesMatchSockets, ReadyIsOpen
  <2>3. ReplyToOwner' /\ AtRest' /\ CurIsTaken' /\ EdgeKept'
    BY <1>1 DEF ReplyToOwner, AtRest, CurIsTaken, EdgeKept
  <2>4. EventIsOwn'
    BY <1>1 DEF EventIsOwn, SockOf
  <2> QED BY <2>2, <2>3, <2>4
<1>2. ASSUME ClientDrained \/ ClientBreaks \/ NewSessionFails PROVE IInv'
  BY <1>1, <1>2 DEF ClientDrained, ClientBreaks, NewSessionFails, Arrived, tables, kernel
<1>3. ASSUME NEW ok \in BOOLEAN, ForwardKnown(ok) PROVE IInv'
  BY <1>1, <1>3 DEF ForwardKnown, Arrived
<1>4. ASSUME NEW f \in Fds, NewSession(f) PROVE IInv'
  <2> DEFINE c == Head(lq).from
  <2>1. /\ c \in Clients /\ lq' \in Seq(Datagrams)
        /\ pc = "client" /\ byClient[c] = None /\ fdTab[f] = None
        /\ fdTab' = [fdTab EXCEPT ![f] = c]
        /\ byClient' = [byClient EXCEPT ![c] = f]
        /\ byTarget' = [byTarget EXCEPT ![f] = c]
        /\ UNCHANGED <<running, pc, batch, cur, dest, idle, tq, ready>>
    BY <1>4, HeadIsDatagram DEF NewSession, Arrived
  <2> HIDE DEF c
  <2>2. TypeOK'
    BY <2>1 DEF TypeOK
  <2>3. TablesMatchSockets'
    BY <2>1 DEF TablesMatchSockets, TypeOK
  <2>4. ReplyToOwner' /\ AtRest' /\ CurIsTaken' /\ EdgeKept'
    BY <2>1 DEF ReplyToOwner, AtRest, CurIsTaken, EdgeKept
  <2>5. ReadyIsOpen'
    BY <2>1 DEF ReadyIsOpen, TypeOK
  <2>6. \A e \in batch : e[1] = Listen \/ (e[1] \in Fds /\ e[1] # f)
    BY <2>1 DEF EventIsOwn, SockOf, TypeOK
  <2>7. EventIsOwn'
    BY <2>1, <2>6 DEF EventIsOwn, SockOf, TypeOK
  <2> QED BY <2>2, <2>3, <2>4, <2>5, <2>7
<1>5. ASSUME TargetDrained PROVE IInv'
  <2>1. /\ pc = "target" /\ pc' = "batch" /\ tq[cur] = <<>> /\ cur' = None /\ dest' = None
        /\ UNCHANGED <<running, batch, byClient, byTarget, idle, fdTab, lq, tq, ready>>
    BY <1>5 DEF TargetDrained, tables, kernel
  <2>2. TypeOK' /\ TablesMatchSockets' /\ ReadyIsOpen'
    BY <2>1 DEF TypeOK, TablesMatchSockets, ReadyIsOpen
  <2>3. ReplyToOwner' /\ AtRest' /\ CurIsTaken' /\ EdgeKept'
    BY <2>1 DEF ReplyToOwner, AtRest, CurIsTaken, EdgeKept
  <2>4. EventIsOwn'
    BY <2>1 DEF EventIsOwn, SockOf
  <2> QED BY <2>2, <2>3, <2>4
<1>6. ASSUME NEW ok \in BOOLEAN, TargetData(ok) PROVE IInv'
  <2>1. /\ pc = "target" /\ cur \in Fds /\ tq[cur] # <<>> /\ idle' \subseteq idle
        /\ tq' = [tq EXCEPT ![cur] = Tail(tq[cur])]
        /\ UNCHANGED <<running, pc, batch, cur, dest, byClient, byTarget, fdTab, lq, ready>>
    BY <1>6 DEF TargetData, Answered, CurIsTaken
  <2>2. tq[cur] \in Seq(Kinds) /\ tq \in [Fds -> Seq(Kinds)]
    BY <2>1 DEF TypeOK
  <2>3. Tail(tq[cur]) \in Seq(Kinds)
    BY <2>1, <2>2
  <2>4. tq' \in [Fds -> Seq(Kinds)] /\ \A f \in Fds \ {cur} : tq'[f] = tq[f]
    BY <2>1, <2>2, <2>3
  <2>5. TypeOK' /\ TablesMatchSockets' /\ ReadyIsOpen'
    BY <2>1, <2>4 DEF TypeOK, TablesMatchSockets, ReadyIsOpen
  <2>6. ReplyToOwner' /\ AtRest' /\ CurIsTaken' /\ EdgeKept'
    BY <2>1, <2>4 DEF ReplyToOwner, AtRest, CurIsTaken, EdgeKept
  <2>7. EventIsOwn'
    BY <2>1 DEF EventIsOwn, SockOf
  <2> QED BY <2>5, <2>6, <2>7
<1>7. ASSUME TargetEnds PROVE IInv'
  <2>1. /\ pc = "target" /\ cur \in Fds /\ CloseSessions({cur}) /\ pc' = "batch"
        /\ fdTab[cur] # None /\ (\A e \in batch : e[1] # cur)
        /\ cur' = None /\ dest' = None /\ UNCHANGED <<running, batch, lq>>
    BY <1>7 DEF TargetEnds, Answered, CurIsTaken, ReplyToOwner
  <2>2. /\ byClient' \in [Clients -> Fds \cup {None}] /\ byTarget' \in [Fds -> Clients \cup {None}]
        /\ fdTab' \in [Fds -> Clients \cup {None}] /\ tq' \in [Fds -> Seq(Kinds)]
        /\ idle' \subseteq Clients /\ ready' \subseteq Fds \cup {Listen}
        /\ TablesMatchSockets' /\ ReadyIsOpen'
        /\ \A f \in Fds \ {cur} : fdTab'[f] = fdTab[f]
        /\ \A f \in Fds : tq'[f] # <<>> => tq[f] # <<>> /\ (f \in ready => f \in ready')
        /\ tq'[cur] = <<>>
    BY <2>1, CloseSessionsSafe
  <2>3. TypeOK'
    BY <2>1, <2>2 DEF TypeOK
  <2>4. ReplyToOwner' /\ AtRest' /\ CurIsTaken'
    BY <2>1 DEF ReplyToOwner, AtRest, CurIsTaken
  <2>5. EdgeKept'
    BY <2>1, <2>2 DEF EdgeKept
  <2>6. \A e \in batch : SockOf(e[1])' = SockOf(e[1])
    BY <2>1, <2>2 DEF SockOf, TypeOK
  <2>7. EventIsOwn'
    BY <2>1, <2>6 DEF EventIsOwn
  <2> QED BY <2>2, <2>3, <2>4, <2>5, <2>7
<1> QED BY <1>2, <1>3, <1>4, <1>5, <1>6, <1>7

(* Traffic, time and stop() keep the invariant.                            *)
LEMMA EnvironmentKeepsIInv ==
  ASSUME IInv,
         \/ Stop \/ UNCHANGED vars
         \/ \E c \in Clients, k \in Kinds : ClientSends(c, k)
         \/ \E f \in Fds, k \in Kinds : TargetSends(f, k)
         \/ \E c \in Clients : GoesIdle(c)
  PROVE  IInv'
<1> USE DEF IInv
<1>1. ASSUME UNCHANGED <<pc, batch, cur, dest, byClient, byTarget, fdTab, tq>>,
             running' \in BOOLEAN, lq' \in Seq(Datagrams), idle' \subseteq Clients,
             ready' = ready \/ ready' = ready \cup {Listen}
      PROVE IInv'
  <2>1. TypeOK' /\ TablesMatchSockets' /\ ReadyIsOpen'
    BY <1>1 DEF TypeOK, TablesMatchSockets, ReadyIsOpen
  <2>2. ReplyToOwner' /\ AtRest' /\ CurIsTaken' /\ EdgeKept'
    BY <1>1 DEF ReplyToOwner, AtRest, CurIsTaken, EdgeKept
  <2>3. EventIsOwn'
    BY <1>1 DEF EventIsOwn, SockOf
  <2> QED BY <2>1, <2>2, <2>3
<1>2. ASSUME Stop \/ UNCHANGED vars PROVE IInv'
  BY <1>1, <1>2 DEF Stop, vars, tables, kernel, TypeOK
<1>3. ASSUME NEW c \in Clients, NEW k \in Kinds, ClientSends(c, k) PROVE IInv'
  <2>1. [from |-> c, kind |-> k] \in Datagrams
    BY <1>3 DEF Datagrams
  <2>2. lq \in Seq(Datagrams)
    BY DEF TypeOK
  <2>3. Append(lq, [from |-> c, kind |-> k]) \in Seq(Datagrams)
    BY <2>1, <2>2
  <2> QED BY <1>1, <1>3, <2>3 DEF ClientSends, tables, TypeOK
<1>4. ASSUME NEW f \in Fds, NEW k \in Kinds, TargetSends(f, k) PROVE IInv'
  <2>1. /\ fdTab[f] # None /\ ready' = ready \cup {f}
        /\ tq' = [tq EXCEPT ![f] = Append(tq[f], k)]
        /\ UNCHANGED <<running, pc, batch, cur, dest, byClient, byTarget, idle, fdTab, lq>>
    BY <1>4 DEF TargetSends, tables
  <2>2. tq \in [Fds -> Seq(Kinds)] /\ Append(tq[f], k) \in Seq(Kinds)
    BY <1>4 DEF TypeOK
  <2>3. tq' \in [Fds -> Seq(Kinds)] /\ \A g \in Fds \ {f} : tq'[g] = tq[g]
    BY <2>1, <2>2
  <2>4. TypeOK' /\ TablesMatchSockets' /\ ReadyIsOpen'
    BY <2>1, <2>3 DEF TypeOK, TablesMatchSockets, ReadyIsOpen
  <2>5. ReplyToOwner' /\ AtRest' /\ CurIsTaken'
    BY <2>1 DEF ReplyToOwner, AtRest, CurIsTaken
  <2>6. EdgeKept'
    BY <2>1, <2>3 DEF EdgeKept
  <2>7. EventIsOwn'
    BY <2>1 DEF EventIsOwn, SockOf
  <2> QED BY <2>4, <2>5, <2>6, <2>7
<1>5. ASSUME NEW c \in Clients, GoesIdle(c) PROVE IInv'
  BY <1>1, <1>5 DEF GoesIdle, kernel, TypeOK
<1> QED BY <1>2, <1>3, <1>4, <1>5

----------------------------------------------------------------------------
(* The invariant holds throughout.                                         *)
THEOREM UdpInvariant == Spec => []IInv
<1>1. IInv /\ [Next]_vars => IInv'
  BY LoopKeepsIInv, HandlersKeepIInv, EnvironmentKeepsIInv DEF Next, LoopStep
<1> QED BY InitIInv, <1>1, PTL DEF Spec

(* Type correctness; in particular the events of a batch fit the vector    *)
(* that run() passes to epoll_wait.                                        *)
THEOREM UdpTypeOK == Spec => []TypeOK
<1>1. IInv => TypeOK
  BY DEF IInv
<1> QED BY <1>1, UdpInvariant, PTL

(* sessions_by_client_, sessions_by_target_ and the open target sockets    *)
(* correspond one to one: no leak, no session without a socket.            *)
THEOREM UdpTablesMatch == Spec => []TablesMatchSockets
<1>1. IInv => TablesMatchSockets
  BY DEF IInv
<1> QED BY <1>1, UdpInvariant, PTL

(* handle_target_data sends every reply to the client it was meant for.    *)
THEOREM UdpRepliesToOwner == Spec => []ReplyToOwner
<1>1. IInv => ReplyToOwner
  BY DEF IInv
<1> QED BY <1>1, UdpInvariant, PTL

(* run() never handles an event of a socket that has been closed, or whose *)
(* number has been reused, since epoll_wait reported it.                   *)
THEOREM UdpEventsAreOwn == Spec => []EventIsOwn
<1>1. IInv => EventIsOwn
  BY DEF IInv
<1> QED BY <1>1, UdpInvariant, PTL

(* The loop never sleeps on a reply whose edge has been consumed.          *)
THEOREM UdpNoStrandedReply == Spec => []NoStrandedReply
<1>1. IInv => NoStrandedReply
  BY DEF IInv, NoStrandedReply, EdgeKept, AtRest
<1> QED BY <1>1, UdpInvariant, PTL
=============================================================================
