------------------------------ MODULE EdgesProofs ------------------------------
(***************************************************************************)
(* No edge of epoll is lost by EpollProxy or TlsProxy but at the points    *)
(* the models record, proved for any number of connections.                *)
(*                                                                         *)
(* The same invariant serves both: a socket that can be read is one epoll  *)
(* has an edge for, one with an event still to be handled that makes the   *)
(* loop read, or the one that is being read from (Heard); and an open      *)
(* socket is registered for EPOLLIN (Watched), so that what comes next     *)
(* raises an edge.                                                         *)
(***************************************************************************)
EXTENDS TlsProxyProofs

USE NumConnsIsNatural, MaxEventsIsPositive

EventKinds == {"in", "out", "hup"}
Events == [fd : Fds \cup {ListenFd}, ev : SUBSET EventKinds]

(* An event that the loop has still to handle.                             *)
Due(e) == \E i \in DOMAIN batch : batch[i] = e
Told(s) ==
  s \in signal \/ \E e \in Events : Due(e) /\ e.fd = fdOf[s] /\ ("in" \in e.ev \/ "hup" \in e.ev)

(* The loop reads from s, or will when it has flushed.                     *)
Busy(s) ==
  cur.fd = fdOf[s] /\ (pc \in Forwarding \cup {"forward"} \/ (pc = "flush" /\ "in" \in cur.ev))

(* TlsProxy has used up an edge of s, or registered it for EPOLLOUT only.  *)
Excused(s) == s[1] \in missed \/ (fdOf[s] \in pending /\ mask[s] = {"out"})

Watched(s) == "in" \in mask[s] \/ Excused(s)
Heard(s) == Told(s) \/ Busy(s) \/ Excused(s)
Hears(s) ==
  /\ IsOpen(s) => Watched(s) /\ (Readable(s) => Heard(s))
  /\ ~IsOpen(s) => mask[s] = {} /\ s \notin signal
EverySockHeard == \A s \in Socks : Hears(s)

BatchTypes ==
  /\ batch \in Seq(Events)
  /\ \A e \in Events : Due(e) /\ e.fd = ListenFd => e.ev = {"in"}
  /\ pc \in Serving => cur.ev \subseteq {"in", "out"}

(* Clients wait in the listening socket only with an event on its way.     *)
BacklogHeard == backlog # {} => ListenAnnounced \/ acceptBroke

KernelTypes ==
  mask \in [Socks -> SUBSET {"in", "out"}] /\ ended \in [Socks -> {"no", "fin", "reset"}]

EdgesInv == BatchTypes /\ KernelTypes /\ EverySockHeard /\ BacklogHeard
----------------------------------------------------------------------------
(* The events still due after one is taken or appended.                    *)
LEMMA DueAfterTail ==
  ASSUME BatchTypes, batch # <<>>, batch' = Tail(batch)
  PROVE  /\ batch' \in Seq(Events) /\ Head(batch) \in Events /\ Due(Head(batch))
         /\ \A e \in Events : Due(e) => e = Head(batch) \/ Due(e)'
         /\ \A e \in Events : Due(e)' => Due(e)
<1>1. /\ batch \in Seq(Events) /\ Len(batch) \in Nat \ {0} /\ Head(batch) = batch[1]
      /\ batch' \in Seq(Events) /\ Len(batch') = Len(batch) - 1
      /\ DOMAIN batch = 1 .. Len(batch) /\ DOMAIN batch' = 1 .. Len(batch')
      /\ \A i \in 1 .. Len(batch') : batch'[i] = batch[i + 1]
  BY DEF BatchTypes
<1>2. 1 \in DOMAIN batch /\ batch[1] \in Events
  BY <1>1
<1>3. ASSUME NEW i \in DOMAIN batch, i # 1 PROVE i - 1 \in DOMAIN batch' /\ batch'[i - 1] = batch[i]
  <2>1. i - 1 \in 1 .. Len(batch') /\ (i - 1) + 1 = i
    BY <1>1, <1>3
  <2> QED BY <1>1, <2>1
<1>4. \A i \in DOMAIN batch' : i + 1 \in DOMAIN batch /\ batch[i + 1] = batch'[i]
  BY <1>1
<1>5. Due(Head(batch)) /\ Head(batch) \in Events
  BY <1>1, <1>2 DEF Due
<1>6. ASSUME NEW e \in Events, Due(e) PROVE e = Head(batch) \/ Due(e)'
  <2>1. PICK i \in DOMAIN batch : batch[i] = e
    BY <1>6 DEF Due
  <2>2. CASE i = 1
    BY <1>1, <2>1, <2>2
  <2>3. CASE i # 1
    BY <1>3, <2>1, <2>3 DEF Due
  <2> QED BY <2>2, <2>3
<1>7. \A e \in Events : Due(e)' => Due(e)
  BY <1>4 DEF Due
<1> QED BY <1>1, <1>5, <1>6, <1>7

(* The same when one is appended.                                          *)
LEMMA DueAfterAppend ==
  ASSUME BatchTypes, NEW x \in Events, batch' = Append(batch, x)
  PROVE  batch' \in Seq(Events) /\ \A e \in Events : Due(e)' <=> Due(e) \/ e = x
<1>1. /\ batch \in Seq(Events) /\ Len(batch) \in Nat
      /\ batch' \in Seq(Events) /\ Len(batch') = Len(batch) + 1
      /\ DOMAIN batch = 1 .. Len(batch) /\ DOMAIN batch' = 1 .. Len(batch) + 1
      /\ \A i \in 1 .. Len(batch) : batch'[i] = batch[i]
      /\ batch'[Len(batch) + 1] = x
  BY DEF BatchTypes
<1>2. \A i \in DOMAIN batch' : i \in DOMAIN batch \/ i = Len(batch) + 1
  BY <1>1
<1>3. \A i \in DOMAIN batch : i \in DOMAIN batch'
  BY <1>1
<1>4. Len(batch) + 1 \in DOMAIN batch'
  BY <1>1
<1> QED BY <1>1, <1>2, <1>3, <1>4 DEF Due

(* An event on the listening socket.                                       *)
LEMMA ListenIsDue ==
  ASSUME BatchTypes
  PROVE  (\E i \in DOMAIN batch : batch[i].fd = ListenFd)
           <=> \E e \in Events : Due(e) /\ e.fd = ListenFd
BY DEF BatchTypes, Due

(* The event that is taken does not tell the loop to read from s.          *)
NotTaken(s) ==
  \/ batch' = batch
  \/ /\ batch # <<>> /\ batch' = Tail(batch)
     /\ Head(batch).fd = fdOf[s] => "in" \notin Head(batch).ev /\ "hup" \notin Head(batch).ev

(* A socket remains told of while the event taken is not its own.          *)
LEMMA StillTold ==
  ASSUME BatchTypes, NEW s \in Socks, Told(s), fdOf'[s] = fdOf[s], s \in signal => s \in signal',
         NotTaken(s)
  PROVE  Told(s)'
<1>1. CASE s \in signal
  BY <1>1 DEF Told
<1>2. ASSUME NEW e \in Events, Due(e), e.fd = fdOf[s], "in" \in e.ev \/ "hup" \in e.ev
      PROVE  Told(s)'
  <2>1. Due(e)'
    <3>1. CASE batch' = batch
      BY <1>2, <3>1 DEF Due
    <3>2. CASE batch # <<>> /\ batch' = Tail(batch) /\ e # Head(batch)
      BY <3>2, <1>2, DueAfterTail
    <3> QED BY <1>2, <3>1, <3>2 DEF NotTaken
  <2> QED BY <1>2, <2>1 DEF Told
<1> QED BY <1>1, <1>2 DEF Told

(* Clients keep their event while nothing is taken but events of others.   *)
LEMMA BacklogStillHeard ==
  ASSUME BatchTypes, BacklogHeard, backlog' \subseteq backlog, listenSignal' = listenSignal,
         acceptBroke' = acceptBroke, pc = "accept" => pc' = "accept",
         \/ batch' = batch
         \/ batch # <<>> /\ batch' = Tail(batch) /\ Head(batch).fd # ListenFd
  PROVE  BacklogHeard'
<1> SUFFICES ASSUME backlog' # {}, ~acceptBroke PROVE ListenAnnounced'
  BY DEF BacklogHeard
<1>1. listenSignal \/ pc = "accept" \/ \E i \in DOMAIN batch : batch[i].fd = ListenFd
  BY DEF BacklogHeard, ListenAnnounced
<1>2. CASE batch' = batch
  BY <1>1, <1>2 DEF ListenAnnounced
<1>3. CASE batch # <<>> /\ batch' = Tail(batch) /\ Head(batch).fd # ListenFd
  <2>1. ASSUME NEW i \in DOMAIN batch, batch[i].fd = ListenFd
        PROVE  \E j \in DOMAIN batch' : batch'[j].fd = ListenFd
    <3>1. PICK e \in Events : Due(e) /\ e.fd = ListenFd
      BY <2>1, ListenIsDue
    <3>2. Due(e)'
      BY <1>3, <3>1, DueAfterTail
    <3> QED BY <3>1, <3>2 DEF Due
  <2> QED BY <1>1, <2>1 DEF ListenAnnounced
<1> QED BY <1>2, <1>3

(* Nothing new can be read from any socket.                                *)
NothingArrives ==
  /\ UNCHANGED <<sent, ended>> /\ hello' \subseteq hello
  /\ taken' = taken \/ \E s \in Socks : taken' = [taken EXCEPT ![s] = @ + 1]

(* Then a socket that can be read could be read before.                    *)
LEMMA ReadableBefore ==
  ASSUME LoopTypes, NothingArrives, NEW s \in Socks, Readable(s)'
  PROVE  Readable(s)
<1>1. taken[s] \in Nat /\ sent[s] \in Nat /\ taken'[s] \in {taken[s], taken[s] + 1}
  BY DEF LoopTypes, NothingArrives
<1>2. Unread(s)' => Unread(s)
  BY <1>1 DEF Unread, NothingArrives
<1> QED BY <1>2 DEF Readable, NothingArrives

(* A socket that a step does not serve is heard as before.                 *)
LEMMA SockKept ==
  ASSUME EdgesInv, LoopTypes, NothingArrives, NEW s \in Socks,
         fdOf'[s] = fdOf[s], mask'[s] = mask[s], s \in signal' <=> s \in signal,
         missed \subseteq missed',
         IsOpen(s) => /\ NotTaken(s) /\ (Busy(s) => Busy(s)')
                      /\ (fdOf[s] \in pending => fdOf[s] \in pending')
  PROVE  Hears(s)'
<1>1. CASE ~IsOpen(s)
  BY <1>1 DEF EdgesInv, EverySockHeard, Hears, IsOpen
<1>2. CASE IsOpen(s)
  <2>1. Watched(s) /\ (Readable(s) => Heard(s)) /\ IsOpen(s)'
    BY <1>2 DEF EdgesInv, EverySockHeard, Hears, IsOpen
  <2>2. Excused(s) => Excused(s)'
    BY <1>2 DEF Excused
  <2>3. Told(s) => Told(s)'
    BY <1>2, StillTold DEF EdgesInv
  <2>4. Readable(s)' => Readable(s)
    BY ReadableBefore
  <2> QED BY <1>2, <2>1, <2>2, <2>3, <2>4 DEF Hears, Watched, Heard
<1> QED BY <1>1, <1>2

(* The sockets that are left when some are closed.                         *)
LEMMA ClosingKept ==
  ASSUME EdgesInv, LoopTypes, NothingArrives, NEW S \in SUBSET Socks, CloseSocks(S),
         missed \subseteq missed',
         \A s \in Socks \ S : IsOpen(s) => /\ NotTaken(s) /\ (Busy(s) => Busy(s)')
                                          /\ (fdOf[s] \in pending => fdOf[s] \in pending')
  PROVE  (\A s \in Socks : Hears(s)') /\ KernelTypes'
<1>1. ASSUME NEW s \in S PROVE Hears(s)'
  <2>1. s \in Socks /\ fdOf'[s] = ListenFd /\ mask'[s] = {} /\ s \notin signal'
    BY <1>1 DEF CloseSocks
  <2> QED BY <2>1 DEF Hears, IsOpen
<1>2. ASSUME NEW s \in Socks \ S PROVE Hears(s)'
  <2>1. fdOf'[s] = fdOf[s] /\ mask'[s] = mask[s] /\ (s \in signal' <=> s \in signal)
    BY <1>2 DEF CloseSocks
  <2> QED BY <1>2, <2>1, SockKept
<1>3. KernelTypes'
  BY DEF CloseSocks, EdgesInv, KernelTypes, NothingArrives
<1> QED BY <1>1, <1>2, <1>3

(* A socket that is registered for EPOLLIN is told of at once.             *)
LEMMA RegisteredHears ==
  ASSUME NEW S \in SUBSET Socks, Register(S, {"in"}), NEW s \in S, NothingArrives, LoopTypes,
         fdOf'[s] # ListenFd
  PROVE  Hears(s)'
<1>1. s \in Socks /\ mask'[s] = {"in"} /\ (EventsOf(s, {"in"}) # {} => s \in signal')
  BY DEF Register
<1>2. Readable(s) => EventsOf(s, {"in"}) # {}
  <2>1. Readable(s) => "in" \in EventsOf(s, {"in"})
    BY DEF EventsOf
  <2> QED BY <2>1
<1>3. Readable(s)' => Readable(s)
  BY <1>1, ReadableBefore
<1> QED BY <1>1, <1>2, <1>3 DEF Hears, IsOpen, Watched, Heard, Told

(* What is left to show of a step that has nothing to do with clients that *)
(* wait, but for accepting one.                                            *)
LEMMA StepKeepsEdges ==
  ASSUME EdgesInv, UNCHANGED <<listenSignal, acceptBroke>>, backlog' \subseteq backlog,
         \/ batch' = batch
         \/ batch # <<>> /\ batch' = Tail(batch) /\ Head(batch).fd # ListenFd,
         pc = "accept" => pc' = "accept", pc' \in Serving => cur'.ev \subseteq {"in", "out"},
         KernelTypes', \A s \in Socks : Hears(s)'
  PROVE  EdgesInv'
<1>1. BatchTypes'
  <2>1. CASE batch' = batch
    BY <2>1 DEF BatchTypes, Due, EdgesInv
  <2>2. CASE batch # <<>> /\ batch' = Tail(batch)
    BY <2>2, DueAfterTail DEF BatchTypes, EdgesInv
  <2> QED BY <2>1, <2>2
<1>2. BacklogHeard'
  BY BacklogStillHeard DEF EdgesInv
<1> QED BY <1>1, <1>2 DEF EdgesInv, EverySockHeard
----------------------------------------------------------------------------
(* What the world does, and the parts of run() that both proxies share.    *)

(* Events come and sockets become readable: what is watched is told.       *)
LEMMA RemoteKeepsEdges ==
  ASSUME EdgesInv, LoopTypes, Remote, UNCHANGED <<pending, missed>>
  PROVE  EdgesInv'
<1> USE DEF EdgesInv
<1>1. UNCHANGED <<fdOf, mask, hello, taken, pc, batch, cur, acceptBroke>>
  <2>1. \A c \in Conns : ClientConnects(c) =>
           UNCHANGED <<fdOf, mask, hello, taken, pc, batch, cur, acceptBroke>>
    BY DEF ClientConnects, epoll, bytes
  <2>2. \A s \in Socks : RemoteSends(s) \/ RemoteReads(s) =>
           UNCHANGED <<fdOf, mask, hello, taken, pc, batch, cur, acceptBroke>>
    BY DEF RemoteSends, RemoteReads, listener, bytes
  <2>3. \A s \in Socks, how \in {"fin", "reset"} : RemoteEnds(s, how) =>
           UNCHANGED <<fdOf, mask, hello, taken, pc, batch, cur, acceptBroke>>
    BY DEF RemoteEnds, listener, bytes
  <2> QED BY <2>1, <2>2, <2>3 DEF Remote
<1>2. BatchTypes' /\ KernelTypes'
  <2>1. \/ ended' = ended
        \/ \E s \in Socks, how \in {"fin", "reset"} : ended' = [ended EXCEPT ![s] = how]
    BY DEF Remote, ClientConnects, RemoteSends, RemoteReads, RemoteEnds, remotes
  <2> QED BY <1>1, <2>1 DEF BatchTypes, Due, KernelTypes
<1>3. BacklogHeard'
  <2>1. listenSignal' \/ UNCHANGED <<backlog, listenSignal>>
    BY DEF Remote, ClientConnects, RemoteSends, RemoteReads, RemoteEnds, listener
  <2> QED BY <1>1, <2>1 DEF BacklogHeard, ListenAnnounced
<1>4. \A t \in Socks : /\ IsOpen(t)' = IsOpen(t) /\ Watched(t)' = Watched(t)
                       /\ Busy(t)' = Busy(t) /\ Excused(t)' = Excused(t)
  BY <1>1 DEF IsOpen, Watched, Busy, Excused
<1>5. signal \subseteq signal'
  BY DEF Remote, ClientConnects, RemoteSends, RemoteReads, RemoteEnds, Edge, epoll
<1>6. \A t \in Socks : Told(t) => Told(t)'
  BY <1>1, <1>5 DEF Told, Due
<1>7. ASSUME NEW t \in Socks, Readable(t)', ~Readable(t), "in" \in mask[t] PROVE t \in signal'
  <2>1. \/ UNCHANGED <<sent, ended>>
        \/ \E s \in Socks : RemoteSends(s) \/ \E how \in {"fin", "reset"} : RemoteEnds(s, how)
    BY DEF Remote, ClientConnects, RemoteReads, remotes
  <2>2. ~(sent' = sent /\ ended' = ended)
    BY <1>1, <1>7 DEF Readable, Unread
  <2>3. ASSUME NEW s \in Socks, RemoteSends(s) PROVE t \in signal'
    <3>1. ended' = ended /\ \A u \in Socks : u # s => sent'[u] = sent[u]
      BY <2>3 DEF RemoteSends, LoopTypes
    <3>2. s = t
      BY <1>1, <1>7, <3>1 DEF Readable, Unread
    <3> QED BY <1>7, <2>3, <3>2 DEF RemoteSends, Edge
  <2>4. ASSUME NEW s \in Socks, NEW how \in {"fin", "reset"}, RemoteEnds(s, how) PROVE t \in signal'
    <3>1. sent' = sent /\ \A u \in Socks : u # s => ended'[u] = ended[u]
      BY <2>4 DEF RemoteEnds, KernelTypes
    <3>2. s = t
      BY <1>1, <1>7, <3>1 DEF Readable, Unread
    <3> QED BY <1>7, <2>4, <3>2 DEF RemoteEnds, Edge
  <2> QED BY <2>1, <2>2, <2>3, <2>4
<1>8. \A t \in Socks : mask[t] = {} => (t \in signal' <=> t \in signal)
  BY DEF Remote, ClientConnects, RemoteSends, RemoteReads, RemoteEnds, Edge, epoll
<1>9. ASSUME NEW t \in Socks PROVE Hears(t)'
  <2>1. Hears(t)
    BY DEF EverySockHeard
  <2>2. CASE ~IsOpen(t)
    BY <1>1, <1>4, <1>8, <2>1, <2>2 DEF Hears
  <2>3. CASE IsOpen(t)
    BY <1>4, <1>6, <1>7, <2>1, <2>3 DEF Hears, Heard, Watched, Told
  <2> QED BY <2>2, <2>3
<1> QED BY <1>2, <1>3, <1>9 DEF EverySockHeard

(* epoll_wait turns edges into events.                                     *)
LEMMA WaitKeepsEdges ==
  ASSUME EdgesInv, LoopTypes, Wait, UNCHANGED <<pending, missed>>
  PROVE  EdgesInv'
<1> USE DEF EdgesInv
<1>1. /\ UNCHANGED <<fdOf, mask, hello, taken, sent, ended, backlog, acceptBroke, cur>>
      /\ pc = "wait" /\ pc' \in {"wait", "dispatch"}
  BY DEF Wait, WaitListen, WaitSock, WaitReturns, epoll, bytes, remotes, listener
<1>2. NothingArrives /\ \A t \in Socks : ~Busy(t)
  BY <1>1 DEF NothingArrives, Busy, Forwarding
<1>3. CASE WaitReturns
  <2>1. UNCHANGED <<batch, signal, listenSignal>>
    BY <1>3 DEF WaitReturns, epoll, listener
  <2>2. \A t \in Socks : Hears(t)'
    BY <1>1, <1>2, <2>1, SockKept DEF NotTaken
  <2>3. KernelTypes'
    BY <1>1 DEF KernelTypes
  <2> QED BY <1>1, <2>1, <2>2, <2>3, StepKeepsEdges DEF Serving
<1>4. CASE WaitListen
  <2> DEFINE x == [fd |-> ListenFd, ev |-> {"in"}]
  <2>1. x \in Events
    BY DEF Events, EventKinds
  <2>2. batch' = Append(batch, x) /\ UNCHANGED signal /\ pc' = pc
    BY <1>4 DEF WaitListen, epoll
  <2> HIDE DEF x
  <2>3. batch' \in Seq(Events) /\ \A e \in Events : Due(e)' <=> Due(e) \/ e = x
    BY <2>1, <2>2, DueAfterAppend
  <2>4. BatchTypes'
    BY <1>1, <2>2, <2>3 DEF BatchTypes, x, Serving
  <2>5. BacklogHeard'
    <3>1. \E e \in Events : Due(e)' /\ e.fd = ListenFd
      BY <2>1, <2>3 DEF x
    <3>2. \E i \in DOMAIN batch' : batch'[i].fd = ListenFd
      BY <3>1 DEF Due
    <3> QED BY <3>2 DEF BacklogHeard, ListenAnnounced
  <2>6. \A t \in Socks : Told(t) => Told(t)'
    BY <1>1, <2>2, <2>3 DEF Told
  <2>7. ASSUME NEW t \in Socks PROVE Hears(t)'
    <3>1. Hears(t) /\ (Readable(t)' <=> Readable(t)) /\ (Excused(t)' <=> Excused(t))
      BY <1>1 DEF EverySockHeard, Readable, Unread, Excused
    <3> QED BY <1>1, <1>2, <2>2, <2>6, <3>1 DEF Hears, Heard, Watched, IsOpen
  <2> QED BY <1>1, <2>4, <2>5, <2>7 DEF EverySockHeard, KernelTypes
<1>5. ASSUME NEW s \in Socks, WaitSock(s) PROVE EdgesInv'
  <2>0. PICK x : x = [fd |-> fdOf[s], ev |-> EventsOf(s, mask[s])]
    OBVIOUS
  <2>1. /\ IsOpen(s) /\ s \in signal /\ signal' = signal \ {s} /\ UNCHANGED listenSignal
        /\ pc' = pc /\ batch' = IF EventsOf(s, mask[s]) = {} THEN batch ELSE Append(batch, x)
    BY <1>5, <2>0 DEF WaitSock, EverySockHeard, Hears, listener
  <2>2. x \in Events /\ x.fd = fdOf[s] /\ x.fd # ListenFd
    <3>1. EventsOf(s, mask[s]) \in SUBSET EventKinds
      BY DEF EventsOf, EventKinds
    <3>2. fdOf[s] \in Fds \cup {ListenFd}
      BY DEF LoopTypes
    <3> QED BY <2>0, <2>1, <3>1, <3>2 DEF Events, IsOpen
  <2>3. /\ \A e \in Events : Due(e) => Due(e)'
        /\ EventsOf(s, mask[s]) # {} => Due(x)'
        /\ batch' \in Seq(Events)
        /\ \A e \in Events : Due(e)' /\ e.fd = ListenFd => Due(e)
    <3>1. CASE EventsOf(s, mask[s]) = {}
      BY <2>1, <3>1 DEF Due, BatchTypes
    <3>2. CASE EventsOf(s, mask[s]) # {}
      <4>1. batch' = Append(batch, x)
        BY <2>1, <3>2
      <4>2. batch' \in Seq(Events) /\ \A e \in Events : Due(e)' <=> Due(e) \/ e = x
        BY <2>2, <4>1, DueAfterAppend
      <4> QED BY <2>2, <4>2
    <3> QED BY <3>1, <3>2
  <2>4. BatchTypes'
    BY <1>1, <2>3, <2>1 DEF BatchTypes, Serving
  <2>5. BacklogHeard'
    <3> SUFFICES ASSUME backlog # {}, ~acceptBroke PROVE ListenAnnounced'
      BY <1>1 DEF BacklogHeard
    <3>1. CASE listenSignal
      BY <2>1, <3>1 DEF ListenAnnounced
    <3>2. ASSUME NEW i \in DOMAIN batch, batch[i].fd = ListenFd PROVE ListenAnnounced'
      <4>1. PICK e \in Events : Due(e) /\ e.fd = ListenFd
        BY <3>2, ListenIsDue
      <4>2. Due(e)'
        BY <2>3, <4>1
      <4> QED BY <4>1, <4>2 DEF Due, ListenAnnounced
    <3> QED BY <1>1, <3>1, <3>2 DEF BacklogHeard, ListenAnnounced
  <2>6. ASSUME NEW t \in Socks PROVE Hears(t)'
    <3>1. Hears(t) /\ (Readable(t)' <=> Readable(t)) /\ (Excused(t)' <=> Excused(t))
      BY <1>1 DEF EverySockHeard, Readable, Unread, Excused
    <3>2. CASE t # s
      <4>1. Told(t) => Told(t)'
        BY <1>1, <2>1, <2>3, <3>2 DEF Told
      <4> QED BY <1>1, <1>2, <2>1, <3>1, <3>2, <4>1 DEF Hears, Heard, Watched, IsOpen
    <3>3. CASE t = s
      <4>1. ASSUME Readable(s), "in" \in mask[s] PROVE Told(s)'
        <5>1. "in" \in EventsOf(s, mask[s])
          BY <4>1 DEF EventsOf
        <5>2. Due(x)' /\ "in" \in x.ev
          BY <2>0, <2>3, <5>1
        <5> QED BY <1>1, <2>2, <5>2 DEF Told
      <4> QED BY <1>1, <2>1, <3>1, <3>3, <4>1 DEF Hears, Heard, Watched, IsOpen
    <3> QED BY <3>2, <3>3
  <2> QED BY <1>1, <2>4, <2>5, <2>6 DEF EverySockHeard, KernelTypes
<1> QED BY <1>3, <1>4, <1>5 DEF Wait

(* run() starts, ends a batch, goes to the listening socket and back; or   *)
(* is stopped.                                                             *)
LEMMA LoopKeepsEdges ==
  ASSUME EdgesInv, LoopTypes, Run \/ BatchEnds \/ DispatchListen \/ AcceptEnds \/ Stop,
         UNCHANGED <<pending, missed>>
  PROVE  EdgesInv'
<1> USE DEF EdgesInv
<1>1. /\ UNCHANGED <<fdOf, mask, signal, hello, taken, sent, ended, backlog, cur>>
      /\ pc \in {"start", "wait", "dispatch", "accept"}
      /\ pc' \in {"start", "wait", "dispatch", "accept", "returned"}
  BY DEF Run, BatchEnds, DispatchListen, AcceptEnds, Stop, Takes, epoll, bytes, remotes, listener
<1>2. NothingArrives /\ \A t \in Socks : ~Busy(t)
  BY <1>1 DEF NothingArrives, Busy, Forwarding
<1>3. \/ batch' = batch
      \/ /\ DispatchListen /\ Head(batch).fd = ListenFd
         /\ batch # <<>> /\ batch' = Tail(batch)
  BY DEF Run, BatchEnds, DispatchListen, AcceptEnds, Stop, Takes
<1>4. \A t \in Socks : Hears(t)'
  BY <1>1, <1>2, <1>3, SockKept DEF NotTaken, IsOpen
<1>5. CASE Run \/ BatchEnds
  <2>1. UNCHANGED <<batch, listenSignal, acceptBroke>> /\ pc # "accept"
    BY <1>5 DEF Run, BatchEnds, listener
  <2>2. KernelTypes'
    BY <1>1 DEF KernelTypes
  <2> QED BY <1>1, <1>4, <2>1, <2>2, StepKeepsEdges DEF Serving
<1>6. CASE DispatchListen \/ AcceptEnds \/ Stop
  <2>1. BacklogHeard'
    BY <1>1, <1>6 DEF DispatchListen, AcceptEnds, Stop, Takes, BacklogHeard, ListenAnnounced
  <2>2. BatchTypes'
    <3>1. CASE batch' = batch
      BY <1>1, <3>1 DEF BatchTypes, Due, Serving
    <3>2. CASE batch # <<>> /\ batch' = Tail(batch)
      BY <1>1, <3>2, DueAfterTail DEF BatchTypes, Serving
    <3> QED BY <1>3, <3>1, <3>2
  <2> QED BY <1>1, <1>4, <2>1, <2>2 DEF EverySockHeard, KernelTypes
<1> QED BY <1>5, <1>6
----------------------------------------------------------------------------
(* EpollProxy.                                                             *)

(* Both sockets of a new connection are told of what is there already.     *)
LEMMA EpollAcceptKeepsEdges ==
  ASSUME EdgesInv, EpollInv, NEW c \in Conns, EpollAccept(c) \/ EpollAcceptFails(c),
         UNCHANGED <<pending, missed>>
  PROVE  EdgesInv'
<1> USE DEF EdgesInv
<1>1. /\ UNCHANGED <<sent, ended, hello, taken, listenSignal, acceptBroke, batch, pc, cur>>
      /\ backlog' \subseteq backlog /\ pc = "accept" /\ c \in backlog
  BY DEF EpollAccept, EpollAcceptFails, remotes, bytes, listener
<1>2. NothingArrives /\ LoopTypes /\ \A t \in Socks : ~Busy(t) /\ NotTaken(t)
  BY <1>1 DEF NothingArrives, Busy, Forwarding, NotTaken, EpollInv
<1>3. (\A t \in Socks : Hears(t)') /\ KernelTypes'
  <2>1. CASE EpollAcceptFails(c)
    <3>1. UNCHANGED <<fdOf, mask, signal>>
      BY <2>1 DEF EpollAcceptFails, epoll
    <3>2. KernelTypes'
      BY <1>2, <3>1 DEF KernelTypes, NothingArrives
    <3> QED BY <1>2, <3>1, <3>2, SockKept
  <2>2. CASE EpollAccept(c)
    <3> DEFINE used == {fdOf[s] : s \in Socks}
               cfd == Lowest(used)
               tfd == Lowest(used \cup {cfd})
               S == {Client(c), Target(c)}
    <3>1. S \in SUBSET Socks /\ Client(c) # Target(c)
      BY SocksArePairs
    <3>2. cfd \in Fds /\ tfd \in Fds
      <4>1. ~IsOpen(Client(c)) /\ ~IsOpen(Target(c))
        BY <1>1, SocksArePairs DEF EpollInv, Arrivals
      <4> QED BY <1>2, <4>1, LowestIsFree DEF LoopTypes
    <3>3. fdOf' = [fdOf EXCEPT ![Client(c)] = cfd, ![Target(c)] = tfd] /\ Register(S, {"in"})
      BY <2>2 DEF EpollAccept
    <3> HIDE DEF cfd, tfd
    <3>4. /\ \A s \in S : fdOf'[s] # ListenFd
          /\ \A s \in Socks \ S : fdOf'[s] = fdOf[s]
      BY <1>2, <3>1, <3>2, <3>3 DEF LoopTypes, Fds, ListenFd
    <3>5. \A s \in Socks \ S : mask'[s] = mask[s] /\ (s \in signal' <=> s \in signal)
      BY <3>3 DEF Register
    <3>6. KernelTypes'
      BY <1>2, <3>3 DEF Register, KernelTypes, NothingArrives
    <3> HIDE DEF S
    <3>7. \A s \in S : Hears(s)'
      BY <1>2, <3>1, <3>3, <3>4, RegisteredHears
    <3>8. \A s \in Socks \ S : Hears(s)'
      BY <1>2, <3>4, <3>5, SockKept
    <3> QED BY <3>6, <3>7, <3>8
  <2> QED BY <2>1, <2>2
<1> QED BY <1>1, <1>3, StepKeepsEdges DEF Serving

(* What close_connection leaves, called for the event that is taken or for *)
(* the socket that is being read from.                                     *)
LEMMA EpollClosingKeeps ==
  ASSUME EdgesInv, EpollInv, NEW fd, CloseConnection(fd), NothingArrives, UNCHANGED <<pending, missed>>,
         \A s \in Socks : IsOpen(s) /\ fdOf[s] # fd => NotTaken(s) /\ ~Busy(s)
  PROVE  (\A s \in Socks : Hears(s)') /\ KernelTypes'
<1>1. CASE fd \notin DOMAIN connections
  <2>1. UNCHANGED <<fdOf, mask, signal>>
    BY <1>1 DEF CloseConnection, epoll
  <2>2. \A s \in Socks : IsOpen(s) => fdOf[s] # fd
    BY <1>1 DEF EpollInv, OwnEntries
  <2>3. \A s \in Socks : Hears(s)'
    BY <2>1, <2>2, SockKept DEF EpollInv
  <2> QED BY <2>1, <2>3 DEF EdgesInv, KernelTypes, NothingArrives
<1>2. CASE fd \in DOMAIN connections
  <2> DEFINE S == {s \in Socks : fdOf[s] \in {fd, connections[fd].peer}}
  <2>1. CloseSocks(S) /\ S \in SUBSET Socks
    BY <1>2 DEF CloseConnection
  <2>2. \A s \in Socks \ S : fdOf[s] # fd
    OBVIOUS
  <2> HIDE DEF S
  <2> QED BY <2>1, <2>2, ClosingKept DEF EpollInv
<1> QED BY <1>1, <1>2

(* A hang-up closes; whatever else comes for a connection is read.         *)
LEMMA EpollEventKeepsEdges ==
  ASSUME EdgesInv, EpollInv, EpollHangup \/ EpollInput, UNCHANGED <<pending, missed>>
  PROVE  EdgesInv'
<1> USE DEF EdgesInv
<1>1. /\ UNCHANGED <<sent, ended, hello, taken, backlog, listenSignal, acceptBroke>>
      /\ pc = "dispatch" /\ pc' \in {"dispatch", "splice"}
      /\ batch # <<>> /\ batch' = Tail(batch)
  BY DEF EpollHangup, EpollInput, Takes, remotes, bytes, listener
<1>2. NothingArrives /\ LoopTypes /\ \A t \in Socks : ~Busy(t)
  BY <1>1 DEF NothingArrives, Busy, Forwarding, EpollInv
<1>3. Head(batch).fd # ListenFd
  <2>1. Head(batch) \in Events /\ Due(Head(batch))
    BY <1>1, DueAfterTail
  <2>2. EpollHangup => "hup" \in Head(batch).ev
    BY DEF EpollHangup
  <2>3. Head(batch).fd = ListenFd => "hup" \notin Head(batch).ev
    BY <2>1 DEF BatchTypes
  <2> QED BY <2>2, <2>3 DEF EpollInput
<1>4. \A s \in Socks : fdOf[s] # Head(batch).fd => NotTaken(s)
  BY <1>1 DEF NotTaken
<1>5. (\A t \in Socks : Hears(t)') /\ KernelTypes'
  <2>1. CASE EpollHangup
    <3>1. CloseConnection(Head(batch).fd)
      BY <2>1 DEF EpollHangup
    <3> QED BY <1>2, <1>4, <3>1, EpollClosingKeeps
  <2>2. CASE EpollInput
    <3>1. UNCHANGED <<fdOf, mask, signal>>
      BY <2>2 DEF EpollInput, epoll
    <3>2. ASSUME NEW s \in Socks PROVE Hears(s)'
      <4>1. CASE IsOpen(s) => fdOf[s] # Head(batch).fd
        BY <1>2, <1>4, <3>1, <4>1, SockKept
      <4>2. CASE IsOpen(s) /\ fdOf[s] = Head(batch).fd
        <5>1. fdOf[s] \in DOMAIN connections
          BY <4>2 DEF EpollInv, OwnEntries
        <5>2. pc' = "splice" /\ cur' = Head(batch)
          BY <2>2, <4>2, <5>1 DEF EpollInput, Takes
        <5>3. Busy(s)'
          BY <3>1, <4>2, <5>2 DEF Busy, Forwarding
        <5>4. Watched(s)' /\ IsOpen(s)'
          BY <3>1, <4>2 DEF EverySockHeard, Hears, Watched, Excused, IsOpen
        <5> QED BY <5>3, <5>4 DEF Hears, Heard
      <4> QED BY <4>1, <4>2
    <3>3. KernelTypes'
      BY <1>2, <3>1 DEF KernelTypes, NothingArrives
    <3> QED BY <3>2, <3>3
  <2> QED BY <2>1, <2>2
<1> QED BY <1>1, <1>3, <1>5, StepKeepsEdges DEF Serving

(* forward_data reads until there is nothing left, or closes.              *)
LEMMA EpollForwardKeepsEdges ==
  ASSUME EdgesInv, EpollInv, EpollForward, UNCHANGED <<pending, missed>>
  PROVE  EdgesInv'
<1> USE DEF EdgesInv
<1>1. /\ UNCHANGED <<sent, ended, hello, backlog, listenSignal, acceptBroke, batch>>
      /\ pc \in Forwarding /\ pc' \in Forwarding \cup {"dispatch"}
      /\ taken' = taken \/ taken' = [taken EXCEPT ![From] = @ + 1]
  BY DEF EpollForward, SpliceIn, SpliceDrained, SpliceEnds, MoveOut, MoveAgain, MoveFails, PollReady,
     PollTimeout, Returns, Forwarding, remotes, bytes, listener
<1>2. From \in Socks /\ IsOpen(From) /\ fdOf[From] = cur.fd
  BY <1>1, FromIsOpen
<1>3. NothingArrives /\ LoopTypes /\ \A t \in Socks : NotTaken(t)
  BY <1>1, <1>2 DEF NothingArrives, NotTaken, EpollInv
<1>4. \A t \in Socks : IsOpen(t) /\ Busy(t) => t = From
  BY <1>2 DEF EpollInv, OwnNumbers, Busy
<1>5. (\A t \in Socks : Hears(t)') /\ KernelTypes'
  <2>1. CASE SpliceEnds \/ MoveFails \/ PollTimeout
    <3>1. CloseConnection(cur.fd)
      BY <2>1 DEF SpliceEnds, MoveFails, PollTimeout
    <3> QED BY <1>2, <1>3, <1>4, <3>1, EpollClosingKeeps
  <2>2. CASE SpliceIn \/ MoveOut \/ MoveAgain \/ PollReady
    <3>1. UNCHANGED <<fdOf, mask, signal, cur>> /\ pc' \in Forwarding
      BY <2>2 DEF SpliceIn, MoveOut, MoveAgain, PollReady, epoll, Forwarding
    <3>2. \A t \in Socks : Busy(t) => Busy(t)'
      BY <1>1, <3>1 DEF Busy
    <3>3. KernelTypes'
      BY <1>3, <3>1 DEF KernelTypes, NothingArrives
    <3> QED BY <1>3, <3>1, <3>2, <3>3, SockKept
  <2>3. CASE SpliceDrained
    <3>1. UNCHANGED <<fdOf, mask, signal, taken>> /\ ~Readable(From)
      BY <2>3 DEF SpliceDrained, epoll, bytes
    <3>2. PICK u \in Socks : u = From
      BY <1>2
    <3>3. Hears(u)'
      <4>1. Watched(u)' /\ IsOpen(u)'
        BY <1>2, <3>1, <3>2 DEF EverySockHeard, Hears, Watched, Excused, IsOpen
      <4>2. ~Readable(u)'
        BY <1>3, <3>1, <3>2, ReadableBefore
      <4> QED BY <4>1, <4>2 DEF Hears
    <3>4. \A t \in Socks \ {u} : Hears(t)'
      BY <1>3, <1>4, <3>1, <3>2, SockKept
    <3>5. KernelTypes'
      BY <1>3, <3>1 DEF KernelTypes, NothingArrives
    <3> QED BY <3>3, <3>4, <3>5
  <2> QED BY <2>1, <2>2, <2>3 DEF EpollForward
<1> QED BY <1>1, <1>5, StepKeepsEdges DEF Serving, Forwarding

(* Every step of EpollProxy keeps its edges.                               *)
LEMMA EpollNextKeepsEdges ==
  ASSUME EdgesInv, EpollInv, EpollNext, UNCHANGED <<pending, missed>>
  PROVE  EdgesInv'
<1>1. LoopTypes
  BY DEF EpollInv
<1>2. CASE Run \/ Wait \/ BatchEnds \/ DispatchListen \/ AcceptEnds \/ Remote \/ Stop
  BY <1>1, <1>2, WaitKeepsEdges, LoopKeepsEdges, RemoteKeepsEdges
<1>3. CASE \E c \in Conns : EpollAccept(c) \/ EpollAcceptFails(c)
  BY <1>3, EpollAcceptKeepsEdges
<1>4. CASE EpollHangup \/ EpollInput \/ EpollForward
  BY <1>4, EpollEventKeepsEdges, EpollForwardKeepsEdges
<1> QED BY <1>2, <1>3, <1>4 DEF EpollNext, EpollLoop
----------------------------------------------------------------------------
(* TlsProxy.                                                               *)

(* A new client is told of what is there already.                          *)
LEMMA TlsAcceptKeepsEdges ==
  ASSUME EdgesInv, TlsTablesInv, NEW c \in Conns, TlsAccept(c) \/ TlsAcceptFails(c)
  PROVE  EdgesInv'
<1> USE DEF EdgesInv
<1>1. /\ UNCHANGED <<sent, ended, hello, taken, listenSignal, acceptBroke, batch, pc, cur, missed>>
      /\ backlog' \subseteq backlog /\ pc = "accept" /\ c \in backlog /\ pending \subseteq pending'
  BY DEF TlsAccept, TlsAcceptFails, remotes, bytes, listener, tlsVars
<1>2. NothingArrives /\ LoopTypes /\ \A t \in Socks : ~Busy(t) /\ NotTaken(t)
  BY <1>1 DEF NothingArrives, Busy, Forwarding, NotTaken, TlsTablesInv, TlsTypes
<1>3. (\A t \in Socks : Hears(t)') /\ KernelTypes'
  <2>1. CASE TlsAcceptFails(c)
    <3>1. UNCHANGED <<fdOf, mask, signal>>
      BY <2>1 DEF TlsAcceptFails, epoll
    <3>2. KernelTypes'
      BY <1>2, <3>1 DEF KernelTypes, NothingArrives
    <3> QED BY <1>1, <1>2, <3>1, <3>2, SockKept
  <2>2. CASE TlsAccept(c)
    <3> DEFINE fd == Lowest({fdOf[s] : s \in Socks})
               S == {Client(c)}
    <3>1. S \in SUBSET Socks
      BY SocksArePairs
    <3>2. fd \in Fds
      <4>1. ~IsOpen(Client(c))
        BY <1>1, SocksArePairs DEF TlsTablesInv, Arrivals
      <4> QED BY <1>2, <4>1, SocksArePairs, LowestIsFreeForOne DEF LoopTypes
    <3>3. fdOf' = [fdOf EXCEPT ![Client(c)] = fd] /\ Register(S, {"in"})
      BY <2>2 DEF TlsAccept
    <3> HIDE DEF fd
    <3>4. /\ \A s \in S : fdOf'[s] # ListenFd
          /\ \A s \in Socks \ S : fdOf'[s] = fdOf[s]
      BY <1>2, <3>1, <3>2, <3>3 DEF LoopTypes, Fds, ListenFd
    <3>5. \A s \in Socks \ S : mask'[s] = mask[s] /\ (s \in signal' <=> s \in signal)
      BY <3>3 DEF Register
    <3>6. KernelTypes'
      BY <1>2, <3>3 DEF Register, KernelTypes, NothingArrives
    <3> HIDE DEF S
    <3>7. \A s \in S : Hears(s)'
      BY <1>2, <3>1, <3>3, <3>4, RegisteredHears
    <3>8. \A s \in Socks \ S : Hears(s)'
      BY <1>1, <1>2, <3>4, <3>5, SockKept
    <3> QED BY <3>6, <3>7, <3>8
  <2> QED BY <2>1, <2>2
<1> QED BY <1>1, <1>3, StepKeepsEdges DEF Serving

(* Handshake bytes raise an edge, unless the client is waited for to take  *)
(* some.                                                                   *)
LEMMA ClientHelloKeepsEdges ==
  ASSUME EdgesInv, TlsTablesInv, NEW c \in Conns, ClientHello(c)
  PROVE  EdgesInv'
<1> USE DEF EdgesInv
<1> DEFINE u == Client(c)
<1>1. /\ UNCHANGED <<sent, ended, taken, fdOf, mask, backlog, listenSignal, acceptBroke, batch, pc, cur>>
      /\ UNCHANGED <<pending, missed>> /\ hello' = hello \cup {c} /\ signal' = Edge(u, "in")
      /\ fdOf[u] \in pending
  BY DEF ClientHello, listener, tlsVars
<1>2. u \in Socks /\ \A t \in Socks : t # u => t[1] # c \/ t[2] # "client"
  BY SocksArePairs
<1>3. IsOpen(u)
  <2>1. PICK s \in Socks : IsOpen(s) /\ fdOf[s] = fdOf[u]
    BY <1>1 DEF TlsTablesInv, Entries
  <2> QED BY <2>1 DEF IsOpen
<1> HIDE DEF u
<1>4. \A t \in Socks : /\ IsOpen(t)' = IsOpen(t) /\ Watched(t)' = Watched(t)
                       /\ Busy(t)' = Busy(t) /\ Excused(t)' = Excused(t)
  BY <1>1 DEF IsOpen, Watched, Busy, Excused
<1>5. signal \subseteq signal' /\ signal' \subseteq signal \cup {u}
  BY <1>1 DEF Edge
<1>6. \A t \in Socks : Told(t) => Told(t)'
  BY <1>1, <1>5 DEF Told, Due
<1>7. ASSUME NEW t \in Socks PROVE Hears(t)'
  <2>1. Hears(t)
    BY DEF EverySockHeard
  <2>2. CASE t # u
    <3>1. Readable(t)' => Readable(t)
      BY <1>1, <1>2, <2>2 DEF Readable, Unread
    <3> QED BY <1>1, <1>4, <1>5, <1>6, <2>1, <2>2, <3>1 DEF Hears, Heard
  <2>3. CASE t = u
    <3>1. "in" \in mask[u] => Told(u)'
      BY <1>1 DEF Edge, Told
    <3> QED BY <1>3, <1>4, <2>1, <2>3, <3>1 DEF Hears, Heard, Watched
  <2> QED BY <2>2, <2>3
<1>8. KernelTypes'
  BY <1>1 DEF KernelTypes
<1>9. pc' \in Serving => cur'.ev \subseteq {"in", "out"}
  BY <1>1 DEF BatchTypes
<1> QED BY <1>1, <1>7, <1>8, <1>9, StepKeepsEdges

(* The steps of a handshake read what the client has sent, close, wait for *)
(* EPOLLOUT, or are over: then both sockets count as told or as missed.    *)
LEMMA HandshakeKeepsEdges ==
  ASSUME EdgesInv, TlsTablesInv, TlsHandshake
  PROVE  EdgesInv'
<1> USE DEF EdgesInv
<1>0. Handshakes("dispatch")
  BY DEF TlsHandshake, HandshakeDone, HandshakeWantsRead, HandshakeWantsWrite, HandshakeFails
<1>1. PICK u \in Socks : /\ u = Greeting /\ fdOf[u] = Head(batch).fd /\ IsOpen(u) /\ ~IsOpen(Other(u))
                        /\ u = Client(u[1]) /\ Other(u) = Target(u[1]) /\ u[1] \in Conns
  BY <1>0, GreetingIsPending
<1>2. /\ UNCHANGED <<sent, ended, taken, backlog, listenSignal, acceptBroke, cur>>
      /\ pc = "dispatch" /\ pc' = "dispatch" /\ batch # <<>> /\ batch' = Tail(batch)
      /\ hello' = hello \ {u[1]} /\ missed \subseteq missed' /\ pending \ {fdOf[u]} \subseteq pending'
      /\ fdOf[u] \in pending
  BY <1>1 DEF TlsHandshake, HandshakeDone, HandshakeWantsRead, HandshakeWantsWrite, HandshakeFails,
     Handshakes, Takes, ReadsHello, remotes, listener, tlsVars
<1>3. NothingArrives /\ LoopTypes /\ \A t \in Socks : ~Busy(t)
  BY <1>2 DEF NothingArrives, Busy, Forwarding, TlsTablesInv, TlsTypes
<1>4. Head(batch).fd # ListenFd
  BY <1>1 DEF IsOpen
<1>5. ASSUME NEW t \in Socks, t # u, IsOpen(t)
      PROVE  NotTaken(t) /\ (fdOf[t] \in pending => fdOf[t] \in pending')
  <2>1. fdOf[t] # fdOf[u]
    BY <1>5 DEF TlsTablesInv, Numbers
  <2> QED BY <1>1, <1>2, <2>1 DEF NotTaken
<1>6. (\A t \in Socks : Hears(t)') /\ KernelTypes'
  <2>1. CASE HandshakeDone
    <3> DEFINE fd == Lowest({fdOf[s] : s \in Socks})
               v == Other(u)
               S == {v}
    <3>1. v \in Socks /\ v # u
      BY SocksArePairs
    <3>2. fd \in Fds
      BY <1>1, <1>3, <3>1, LowestIsFreeForOne DEF LoopTypes
    <3>3. fdOf' = [fdOf EXCEPT ![v] = fd] /\ Register(S, {"in"})
      BY <1>1, <2>1 DEF HandshakeDone
    <3> HIDE DEF fd, v
    <3>4. fdOf'[v] # ListenFd /\ \A s \in Socks \ S : fdOf'[s] = fdOf[s]
      BY <1>3, <3>1, <3>2, <3>3 DEF LoopTypes, Fds, ListenFd
    <3>5. \A s \in Socks \ S : mask'[s] = mask[s] /\ (s \in signal' <=> s \in signal)
      BY <3>3 DEF Register
    <3>6. KernelTypes'
      BY <1>3, <3>3 DEF Register, KernelTypes, NothingArrives
    <3> HIDE DEF S
    <3>7. Hears(v)'
      BY <1>3, <3>1, <3>3, <3>4, RegisteredHears DEF S
    <3>8. Hears(u)'
      <4>1. /\ ended[u] \in {"no", "fin"}
            /\ Unread(u) \/ ended[u] = "fin" \/ mask[u] = {"out"} => u[1] \in missed'
        BY <1>1, <2>1 DEF HandshakeDone, KernelTypes
      <4>2. IsOpen(u)' /\ mask'[u] = mask[u]
        BY <1>1, <3>1, <3>4, <3>5 DEF IsOpen, S
      <4>3. Watched(u)'
        <5>1. Watched(u)
          BY <1>1 DEF EverySockHeard, Hears
        <5> QED BY <1>2, <4>1, <4>2, <5>1 DEF Watched, Excused
      <4>4. Readable(u)' => Heard(u)'
        <5>1. Unread(u)' = Unread(u) /\ u[1] \notin hello'
          BY <1>2 DEF Unread
        <5> QED BY <1>2, <4>1, <5>1 DEF Readable, Heard, Excused
      <4> QED BY <4>2, <4>3, <4>4 DEF Hears
    <3>9. \A s \in Socks \ {u, v} : Hears(s)'
      BY <1>2, <1>3, <1>5, <3>4, <3>5, SockKept DEF S
    <3> QED BY <3>6, <3>7, <3>8, <3>9
  <2>2. CASE HandshakeWantsRead
    <3>1. UNCHANGED <<fdOf, mask, signal, pending, missed>> /\ ended[u] = "no" /\ ~Unread(u)
      BY <1>1, <2>2 DEF HandshakeWantsRead, epoll, tlsVars
    <3>2. Hears(u)'
      <4>1. Watched(u)' /\ IsOpen(u)'
        BY <1>1, <3>1 DEF EverySockHeard, Hears, Watched, Excused, IsOpen
      <4>2. ~Readable(u)'
        BY <1>2, <3>1 DEF Readable, Unread
      <4> QED BY <4>1, <4>2 DEF Hears
    <3>3. \A s \in Socks \ {u} : Hears(s)'
      BY <1>3, <1>5, <3>1, SockKept
    <3>4. KernelTypes'
      BY <1>2, <3>1 DEF KernelTypes
    <3> QED BY <3>2, <3>3, <3>4
  <2>3. CASE HandshakeWantsWrite
    <3>1. /\ UNCHANGED <<fdOf, pending, missed>>
          /\ mask' = [mask EXCEPT ![u] = {"out"}] /\ signal' = signal \ {u}
      BY <1>1, <2>3 DEF HandshakeWantsWrite, tlsVars
    <3>2. mask'[u] = {"out"} /\ \A s \in Socks \ {u} : mask'[s] = mask[s]
      BY <3>1 DEF KernelTypes
    <3>3. Hears(u)'
      <4>1. Excused(u)' /\ IsOpen(u)'
        BY <1>1, <1>2, <3>1, <3>2 DEF Excused, IsOpen
      <4> QED BY <4>1 DEF Hears, Watched, Heard
    <3>4. \A s \in Socks \ {u} : Hears(s)'
      BY <1>3, <1>5, <3>1, <3>2, SockKept
    <3>5. KernelTypes'
      BY <1>2, <3>1 DEF KernelTypes
    <3> QED BY <3>3, <3>4, <3>5
  <2>4. CASE HandshakeFails
    <3>1. CloseSocks({u})
      BY <1>1, <2>4 DEF HandshakeFails
    <3> DEFINE S == {u}
    <3>2. S \in SUBSET Socks /\ CloseSocks(S)
      BY <3>1
    <3>3. \A s \in Socks \ S : s # u
      OBVIOUS
    <3> HIDE DEF S
    <3> QED BY <1>2, <1>3, <1>5, <3>2, <3>3, ClosingKept
  <2> QED BY <2>1, <2>2, <2>3, <2>4 DEF TlsHandshake
<1> QED BY <1>2, <1>4, <1>6, StepKeepsEdges DEF Serving

(* What close_connection leaves.                                           *)
LEMMA TlsClosingKeeps ==
  ASSUME EdgesInv, TlsTablesInv, NEW fd, fd \notin pending, TlsClose(fd), NothingArrives,
         UNCHANGED <<pending, missed>>,
         \A s \in Socks : IsOpen(s) /\ fdOf[s] # fd => NotTaken(s) /\ ~Busy(s)
  PROVE  (\A s \in Socks : Hears(s)') /\ KernelTypes'
<1>0. LoopTypes
  BY DEF TlsTablesInv, TlsTypes
<1>1. CASE fd \notin DOMAIN connections
  <2>1. UNCHANGED <<fdOf, mask, signal>>
    BY <1>1 DEF TlsClose, epoll
  <2>2. \A s \in Socks : IsOpen(s) => fdOf[s] # fd
    BY <1>1 DEF TlsTablesInv, Entries
  <2>3. \A s \in Socks : Hears(s)'
    BY <1>0, <2>1, <2>2, SockKept
  <2> QED BY <2>1, <2>3 DEF EdgesInv, KernelTypes, NothingArrives
<1>2. CASE fd \in DOMAIN connections
  <2>1. PICK u \in Socks : u = SockAt(fd) /\ fdOf[u] = fd
    <3>1. \E s \in Socks : fdOf[s] = fd
      BY <1>2 DEF TlsTablesInv, Entries
    <3> QED BY <3>1 DEF SockAt
  <2> DEFINE S == {u, Other(u)}
  <2>2. CloseSocks(S) /\ S \in SUBSET Socks
    BY <1>2, <2>1, SocksArePairs DEF TlsClose
  <2>3. \A s \in Socks \ S : IsOpen(s) => fdOf[s] # fd
    BY <2>1 DEF TlsTablesInv, Numbers
  <2> HIDE DEF S
  <2> QED BY <1>0, <2>2, <2>3, ClosingKept
<1> QED BY <1>1, <1>2

(* A hang-up closes; an event for a connection is flushed or forwarded if  *)
(* it asks for that.                                                       *)
LEMMA TlsEventKeepsEdges ==
  ASSUME EdgesInv, TlsTablesInv, TlsHangup \/ TlsEvent
  PROVE  EdgesInv'
<1> USE DEF EdgesInv
<1>1. /\ UNCHANGED <<sent, ended, hello, taken, backlog, listenSignal, acceptBroke, pending, missed>>
      /\ pc = "dispatch" /\ pc' \in {"dispatch", "flush", "forward"}
      /\ batch # <<>> /\ batch' = Tail(batch) /\ Head(batch).fd \notin pending
  BY DEF TlsHangup, TlsEvent, NextStage, Takes, remotes, bytes, listener, tlsVars
<1>2. NothingArrives /\ LoopTypes /\ \A t \in Socks : ~Busy(t)
  BY <1>1 DEF NothingArrives, Busy, Forwarding, TlsTablesInv, TlsTypes
<1>3. Head(batch) \in Events /\ Head(batch).fd # ListenFd
  <2>1. Head(batch) \in Events /\ Due(Head(batch))
    BY <1>1, DueAfterTail
  <2>2. TlsHangup => "hup" \in Head(batch).ev
    BY DEF TlsHangup
  <2>3. Head(batch).fd = ListenFd => "hup" \notin Head(batch).ev
    BY <2>1 DEF BatchTypes
  <2> QED BY <2>1, <2>2, <2>3 DEF TlsEvent
<1>4. \A s \in Socks : fdOf[s] # Head(batch).fd => NotTaken(s)
  BY <1>1 DEF NotTaken
<1>5. CASE TlsHangup
  <2>1. TlsClose(Head(batch).fd) /\ pc' = "dispatch"
    BY <1>5 DEF TlsHangup, Takes
  <2>2. (\A t \in Socks : Hears(t)') /\ KernelTypes'
    BY <1>1, <1>2, <1>4, <2>1, TlsClosingKeeps
  <2> QED BY <1>1, <1>3, <2>1, <2>2, StepKeepsEdges DEF Serving
<1>6. CASE TlsEvent
  <2>1. UNCHANGED <<fdOf, mask, signal>> /\ "hup" \notin Head(batch).ev
    BY <1>6 DEF TlsEvent, epoll
  <2>2. Head(batch).ev \subseteq {"in", "out"}
    BY <1>3, <2>1 DEF Events, EventKinds
  <2>3. cur' = IF pc' = "dispatch" THEN NoEvent ELSE Head(batch)
    BY <1>6 DEF TlsEvent
  <2>4. ASSUME NEW s \in Socks, IsOpen(s), fdOf[s] = Head(batch).fd, "in" \in Head(batch).ev
        PROVE  Busy(s)'
    <3>1. fdOf[s] \in DOMAIN connections
      BY <1>1, <2>4 DEF TlsTablesInv, Entries
    <3>2. pc' = NextStage(Head(batch).ev)
      BY <1>6, <2>4, <3>1 DEF TlsEvent, Takes
    <3>3. pc' = "forward" \/ pc' = "flush"
      <4>1. "out" \notin Head(batch).ev => Head(batch).ev = {"in"}
        BY <2>2, <2>4
      <4> QED BY <3>2, <4>1 DEF NextStage
    <3>4. cur' = Head(batch)
      BY <2>3, <3>3
    <3> QED BY <2>1, <2>4, <3>3, <3>4 DEF Busy
  <2>5. ASSUME NEW s \in Socks PROVE Hears(s)'
    <3>1. CASE IsOpen(s) /\ fdOf[s] = Head(batch).fd /\ "in" \in Head(batch).ev
      <4>1. Busy(s)'
        BY <2>4, <3>1
      <4>2. Watched(s)' /\ IsOpen(s)'
        BY <1>1, <2>1, <3>1 DEF EverySockHeard, Hears, Watched, Excused, IsOpen
      <4> QED BY <4>1, <4>2 DEF Hears, Heard
    <3>2. CASE ~(IsOpen(s) /\ fdOf[s] = Head(batch).fd /\ "in" \in Head(batch).ev)
      <4>1. IsOpen(s) => NotTaken(s)
        BY <1>1, <2>1, <3>2 DEF NotTaken
      <4> QED BY <1>1, <1>2, <2>1, <4>1, SockKept
    <3> QED BY <3>1, <3>2
  <2>6. KernelTypes'
    BY <1>1, <2>1 DEF KernelTypes
  <2>7. pc' \in Serving => cur'.ev \subseteq {"in", "out"}
    BY <2>2, <2>3 DEF Serving
  <2> QED BY <1>1, <1>3, <2>5, <2>6, <2>7, StepKeepsEdges
<1> QED BY <1>5, <1>6

(* What flushing and forwarding leave alone.                               *)
LEMMA ServingLeaves ==
  ASSUME EdgesInv, TlsTablesInv, TlsFlush \/ TlsForward
  PROVE  /\ UNCHANGED <<sent, ended, backlog, listenSignal, acceptBroke, batch, pending>>
         /\ hello' = hello /\ missed \subseteq missed' /\ pc \in Serving
         /\ (pc' = pc /\ cur' = cur) \/ (pc' = "forward" /\ cur' = cur) \/ pc' = "dispatch"
         /\ Here \in Socks /\ There = Other(Here) /\ There \in Socks /\ IsOpen(Here) /\ IsOpen(There)
         /\ There[1] = Here[1] /\ fdOf[Here] = cur.fd /\ cur.fd \notin pending
         /\ NothingArrives /\ LoopTypes
         /\ \A t \in Socks : NotTaken(t) /\ (IsOpen(t) /\ Busy(t) => t = Here)
<1>1. /\ UNCHANGED <<sent, ended, backlog, listenSignal, acceptBroke, batch, pending>>
      /\ hello' = hello /\ missed \subseteq missed' /\ pc \in Serving
      /\ (pc' = pc /\ cur' = cur) \/ (pc' = "forward" /\ cur' = cur) \/ pc' = "dispatch"
      /\ taken' = taken \/ taken' = [taken EXCEPT ![Here] = @ + 1]
  <2>1. CASE TlsFlush
    BY <2>1 DEF TlsFlush, FlushDone, FlushWrite, FlushAgain, FlushFails, AfterFlush, Returns, remotes,
       bytes, listener, tlsVars, Serving
  <2>2. CASE TlsForward
    BY <2>2 DEF TlsForward, ForwardWrites, ForwardBuffers, ForwardDrops, ForwardFails, ForwardDrained,
       ForwardEnds, Reads, Returns, remotes, bytes, listener, tlsVars, Serving
  <2> QED BY <2>1, <2>2
<1>2. /\ Here \in Socks /\ There = Other(Here) /\ There \in Socks /\ IsOpen(Here) /\ IsOpen(There)
      /\ fdOf[Here] = cur.fd /\ Connected(Here) /\ There[1] = Here[1]
  BY <1>1, HereIsConnected, SocksArePairs DEF Connected
<1>3. cur.fd \notin pending
  BY <1>2 DEF TlsTablesInv, Entries, Numbers, Connected
<1>4. NothingArrives /\ LoopTypes
  BY <1>1, <1>2 DEF NothingArrives, TlsTablesInv, TlsTypes
<1>5. \A t \in Socks : NotTaken(t) /\ (IsOpen(t) /\ Busy(t) => t = Here)
  BY <1>1, <1>2 DEF NotTaken, Busy, TlsTablesInv, Numbers
<1> QED BY <1>1, <1>2, <1>3, <1>4, <1>5

(* flush_write_buf goes on to read if the event asks for that; switching   *)
(* EPOLLOUT off tells at once what can be read.                            *)
LEMMA FlushKeepsEdges ==
  ASSUME EdgesInv, TlsTablesInv, TlsFlush
  PROVE  (\A t \in Socks : Hears(t)') /\ KernelTypes'
<1> USE DEF EdgesInv
<1>1. /\ UNCHANGED <<ended, pending>> /\ missed' = missed /\ pc = "flush"
      /\ NothingArrives /\ LoopTypes
      /\ \A t \in Socks : NotTaken(t) /\ (IsOpen(t) /\ Busy(t) => t = Here)
  BY ServingLeaves DEF TlsFlush, FlushDone, FlushWrite, FlushAgain, FlushFails, tlsVars
<1>2. PICK u \in Socks : u = Here /\ IsOpen(u) /\ fdOf[u] = cur.fd /\ cur.fd \notin pending
  BY ServingLeaves
<1>3. CASE FlushDone
  <2> DEFINE S == {u}
  <2>1. S \in SUBSET Socks /\ Register(S, {"in"}) /\ fdOf' = fdOf
    BY <1>2, <1>3 DEF FlushDone
  <2>2. /\ \A s \in Socks \ S : mask'[s] = mask[s] /\ (s \in signal' <=> s \in signal)
        /\ KernelTypes'
    BY <1>1, <2>1 DEF Register, KernelTypes
  <2>3. u \in S /\ \A s \in Socks \ S : s # u
    OBVIOUS
  <2> HIDE DEF S
  <2>4. Hears(u)'
    BY <1>1, <1>2, <2>1, <2>3, RegisteredHears DEF IsOpen
  <2>5. \A s \in Socks \ S : Hears(s)'
    BY <1>1, <1>2, <2>1, <2>2, <2>3, SockKept
  <2> QED BY <2>2, <2>4, <2>5 DEF S
<1>4. CASE FlushWrite \/ FlushAgain
  <2>1. UNCHANGED <<fdOf, mask, signal>>
    BY <1>4 DEF FlushWrite, FlushAgain, epoll
  <2>2. Busy(u) => Busy(u)'
    <3>1. CASE FlushWrite
      BY <2>1, <3>1 DEF FlushWrite, Busy
    <3>2. CASE FlushAgain
      <4> SUFFICES ASSUME Busy(u) PROVE Busy(u)'
        OBVIOUS
      <4>1. "in" \in cur.ev /\ cur.ev \subseteq {"in", "out"}
        BY <1>1 DEF Busy, Forwarding, BatchTypes, Serving
      <4>2. cur.ev \ {"out"} = {"in"}
        BY <4>1
      <4>3. NextStage(cur.ev \ {"out"}) = "forward"
        BY <4>2 DEF NextStage
      <4> QED BY <1>2, <2>1, <3>2, <4>3 DEF FlushAgain, AfterFlush, Busy
    <3> QED BY <1>4, <3>1, <3>2
  <2>3. \A s \in Socks : Hears(s)'
    BY <1>1, <1>2, <2>1, <2>2, SockKept
  <2> QED BY <1>1, <2>1, <2>3 DEF KernelTypes
<1>5. CASE FlushFails
  <2>1. TlsClose(cur.fd)
    BY <1>5 DEF FlushFails
  <2> QED BY <1>1, <1>2, <2>1, TlsClosingKeeps
<1> QED BY <1>3, <1>4, <1>5 DEF TlsFlush

(* The forwarding loops read on, run dry, close, or count the connection   *)
(* as missed.                                                              *)
LEMMA ForwardKeepsEdges ==
  ASSUME EdgesInv, TlsTablesInv, TlsForward
  PROVE  (\A t \in Socks : Hears(t)') /\ KernelTypes'
<1> USE DEF EdgesInv
<1>1. /\ UNCHANGED <<ended, pending>> /\ missed \subseteq missed' /\ pc = "forward"
      /\ NothingArrives /\ LoopTypes
      /\ \A t \in Socks : NotTaken(t) /\ (IsOpen(t) /\ Busy(t) => t = Here)
  BY ServingLeaves DEF TlsForward, ForwardWrites, ForwardBuffers, ForwardDrops, ForwardFails,
     ForwardDrained, ForwardEnds, Reads
<1>2. PICK u \in Socks : /\ u = Here /\ IsOpen(u) /\ fdOf[u] = cur.fd /\ cur.fd \notin pending
                        /\ There = Other(u) /\ IsOpen(Other(u)) /\ Other(u) \in Socks
                        /\ Other(u)[1] = u[1]
  BY ServingLeaves
<1>3. CASE ForwardFails \/ ForwardEnds
  <2>1. TlsClose(cur.fd) /\ missed' = missed
    BY <1>3 DEF ForwardFails, ForwardEnds
  <2> QED BY <1>1, <1>2, <2>1, TlsClosingKeeps
<1>4. CASE ForwardWrites
  <2>1. UNCHANGED <<fdOf, mask, signal, pc, cur>>
    BY <1>1, <1>4 DEF ForwardWrites, epoll
  <2>2. \A t \in Socks : Busy(t) => Busy(t)'
    BY <2>1 DEF Busy
  <2>3. \A t \in Socks : Hears(t)'
    BY <1>1, <2>1, <2>2, SockKept
  <2> QED BY <1>1, <2>1, <2>3 DEF KernelTypes
<1>5. CASE ForwardBuffers \/ ForwardDrops
  <2>1. /\ fdOf' = fdOf /\ u[1] \in missed'
        /\ \A t \in Socks : t # Other(u) => mask'[t] = mask[t] /\ (t \in signal' <=> t \in signal)
        /\ KernelTypes'
    BY <1>1, <1>2, <1>5 DEF ForwardBuffers, ForwardDrops, epoll, KernelTypes
  <2>2. ASSUME NEW t \in Socks, t \in {u, Other(u)} PROVE Hears(t)'
    <3>1. IsOpen(t)' /\ Excused(t)'
      BY <1>2, <2>1, <2>2 DEF IsOpen, Excused
    <3> QED BY <3>1 DEF Hears, Watched, Heard
  <2>3. ASSUME NEW t \in Socks, t \notin {u, Other(u)} PROVE Hears(t)'
    BY <1>1, <1>2, <2>1, <2>3, SockKept
  <2> QED BY <2>1, <2>2, <2>3
<1>6. CASE ForwardDrained
  <2>1. UNCHANGED <<fdOf, mask, signal, missed>> /\ ~Readable(u)
    BY <1>2, <1>6 DEF ForwardDrained, epoll, tlsVars
  <2>2. Hears(u)'
    <3>1. Watched(u)' /\ IsOpen(u)'
      BY <1>1, <1>2, <2>1 DEF EverySockHeard, Hears, Watched, Excused, IsOpen
    <3>2. ~Readable(u)'
      BY <1>1, <2>1, ReadableBefore
    <3> QED BY <3>1, <3>2 DEF Hears
  <2>3. \A t \in Socks \ {u} : Hears(t)'
    BY <1>1, <1>2, <2>1, SockKept
  <2> QED BY <1>1, <2>1, <2>2, <2>3 DEF KernelTypes
<1> QED BY <1>3, <1>4, <1>5, <1>6 DEF TlsForward

(* Every step of TlsProxy keeps its edges.                                 *)
LEMMA TlsNextKeepsEdges ==
  ASSUME EdgesInv, TlsTablesInv, TlsNext
  PROVE  EdgesInv'
<1>1. LoopTypes
  BY DEF TlsTablesInv, TlsTypes
<1>2. CASE /\ Run \/ Wait \/ BatchEnds \/ DispatchListen \/ AcceptEnds \/ Remote \/ Stop
           /\ UNCHANGED tlsVars
  <2>1. UNCHANGED <<pending, missed>>
    BY <1>2 DEF tlsVars
  <2> QED BY <1>1, <1>2, <2>1, WaitKeepsEdges, LoopKeepsEdges, RemoteKeepsEdges
<1>3. CASE \E c \in Conns : TlsAccept(c) \/ TlsAcceptFails(c) \/ ClientHello(c)
  BY <1>3, TlsAcceptKeepsEdges, ClientHelloKeepsEdges
<1>4. CASE TlsHandshake \/ TlsHangup \/ TlsEvent
  BY <1>4, HandshakeKeepsEdges, TlsEventKeepsEdges
<1>5. CASE TlsFlush \/ TlsForward
  <2>1. (\A t \in Socks : Hears(t)') /\ KernelTypes'
    BY <1>5, FlushKeepsEdges, ForwardKeepsEdges
  <2>2. pc' \in Serving => cur'.ev \subseteq {"in", "out"}
    BY <1>5, ServingLeaves DEF EdgesInv, BatchTypes, Serving
  <2>3. pc # "accept"
    BY <1>5, ServingLeaves DEF Serving
  <2> QED BY <1>5, <2>1, <2>2, <2>3, ServingLeaves, StepKeepsEdges
<1> QED BY <1>2, <1>3, <1>4, <1>5 DEF TlsNext, TlsLoop
----------------------------------------------------------------------------
(* Each proxy has its own stages, and EpollProxy neither handshakes nor    *)
(* gives up an edge.                                                       *)
OwnStages ==
  /\ part = "epoll" => pc \notin Serving /\ pending = {} /\ missed = {}
  /\ part = "tls" => pc \notin Forwarding

(* They stay apart.                                                        *)
LEMMA StagesKept ==
  ASSUME OwnStages, [Next]_vars
  PROVE  OwnStages'
<1>1. CASE RunsEpoll
  <2>1. part' = part /\ part = "epoll" /\ UNCHANGED <<pending, missed>>
    BY <1>1 DEF RunsEpoll, tlsVars
  <2>2. CASE Run \/ Wait \/ BatchEnds \/ DispatchListen \/ AcceptEnds \/ Remote \/ Stop
    BY <2>1, <2>2 DEF Run, Wait, WaitListen, WaitSock, WaitReturns, BatchEnds, DispatchListen, Takes,
       AcceptEnds, Remote, ClientConnects, RemoteSends, RemoteReads, RemoteEnds, Stop,
       OwnStages, Serving
  <2>3. CASE (\E c \in Conns : EpollAccept(c) \/ EpollAcceptFails(c)) \/ EpollHangup \/ EpollInput
    BY <2>1, <2>3 DEF EpollAccept, EpollAcceptFails, EpollHangup, EpollInput, Takes,
       OwnStages, Serving
  <2>4. CASE EpollForward
    BY <2>1, <2>4 DEF EpollForward, SpliceIn, SpliceDrained, SpliceEnds, MoveOut, MoveAgain, MoveFails,
       PollReady, PollTimeout, Returns, OwnStages, Serving
  <2> QED BY <1>1, <2>2, <2>3, <2>4 DEF RunsEpoll, EpollNext, EpollLoop
<1>2. CASE RunsTls
  <2>1. part' = part /\ part = "tls" /\ pc \notin Forwarding
    BY <1>2 DEF RunsTls, OwnStages
  <2>2. CASE Run \/ Wait \/ BatchEnds \/ DispatchListen \/ AcceptEnds \/ Remote \/ Stop
    BY <2>1, <2>2 DEF Run, Wait, WaitListen, WaitSock, WaitReturns, BatchEnds, DispatchListen, Takes,
       AcceptEnds, Remote, ClientConnects, RemoteSends, RemoteReads, RemoteEnds, Stop,
       OwnStages, Forwarding
  <2>3. CASE (\E c \in Conns : TlsAccept(c) \/ TlsAcceptFails(c) \/ ClientHello(c)) \/ TlsHandshake
    BY <2>1, <2>3 DEF TlsAccept, TlsAcceptFails, ClientHello, TlsHandshake, HandshakeDone,
       HandshakeWantsRead, HandshakeWantsWrite, HandshakeFails, Handshakes, Takes,
       OwnStages, Forwarding
  <2>4. CASE TlsHangup \/ TlsEvent
    BY <2>1, <2>4 DEF TlsHangup, TlsEvent, NextStage, Takes,
       OwnStages, Forwarding
  <2>5. CASE TlsFlush \/ TlsForward
    BY <2>1, <2>5 DEF TlsFlush, FlushDone, FlushWrite, FlushAgain, FlushFails, AfterFlush, TlsForward,
       ForwardWrites, ForwardBuffers, ForwardDrops, ForwardFails, ForwardDrained, ForwardEnds, Reads,
       Returns, OwnStages, Forwarding
  <2> QED BY <1>2, <2>2, <2>3, <2>4, <2>5 DEF RunsTls, TlsNext, TlsLoop
<1>3. CASE UNCHANGED vars
  BY <1>3 DEF vars, loopVars, tlsVars, OwnStages
<1> QED BY <1>1, <1>2, <1>3 DEF Next

(* Initially nothing is open, readable or waiting.                         *)
LEMMA EdgesInit ==
  ASSUME LoopInit
  PROVE  EdgesInv
<1>1. BatchTypes
  BY DEF LoopInit, BatchTypes, Due, Serving
<1>2. EverySockHeard /\ BacklogHeard /\ KernelTypes
  BY DEF LoopInit, EverySockHeard, Hears, IsOpen, BacklogHeard, KernelTypes
<1> QED BY <1>1, <1>2 DEF EdgesInv

(* In every state of either proxy edges are kept.                          *)
THEOREM EdgesInvariant == Spec => [](EdgesInv /\ OwnStages)
<1>1. Init => EdgesInv /\ OwnStages
  <2> SUFFICES ASSUME Init PROVE EdgesInv /\ OwnStages
    OBVIOUS
  <2>1. LoopInit /\ pending = {} /\ missed = {}
    BY DEF Init, TlsInit
  <2>2. OwnStages
    BY <2>1 DEF LoopInit, OwnStages, Serving, Forwarding
  <2> QED BY <2>1, <2>2, EdgesInit
<1>2. ProxiesInv /\ TlsPartInv /\ EdgesInv /\ OwnStages /\ [Next]_vars => (EdgesInv /\ OwnStages)'
  <2> SUFFICES ASSUME ProxiesInv, TlsPartInv, EdgesInv, OwnStages, [Next]_vars PROVE EdgesInv'
    BY StagesKept
  <2>1. CASE RunsEpoll
    BY <2>1, EpollNextKeepsEdges DEF RunsEpoll, ProxiesInv, tlsVars
  <2>2. CASE RunsTls
    BY <2>2, TlsNextKeepsEdges DEF RunsTls, TlsPartInv, TlsInv
  <2>3. CASE UNCHANGED vars
    <3>1. /\ UNCHANGED <<fdOf, mask, signal, hello, taken, sent, ended, backlog, listenSignal>>
          /\ UNCHANGED <<acceptBroke, batch, pc, cur, pending, missed>>
      BY <2>3 DEF vars, loopVars, tlsVars, remotes, listener, epoll, bytes
    <3>2. BatchTypes' = BatchTypes /\ KernelTypes' = KernelTypes /\ BacklogHeard' = BacklogHeard
      BY <3>1 DEF BatchTypes, Due, KernelTypes, BacklogHeard, ListenAnnounced
    <3>3. EverySockHeard' = EverySockHeard
      BY <3>1 DEF EverySockHeard, Hears, Watched, Heard, Told, Due, Busy, Excused, Readable,
         Unread, IsOpen
    <3> QED BY <3>2, <3>3 DEF EdgesInv
  <2> QED BY <2>1, <2>2, <2>3 DEF Next
<1> QED BY <1>1, <1>2, EpollInvariant, TlsInvariant, PTL DEF Spec

(* No edge is lost: whatever can be read, or accepted, has an event on its *)
(* way to the loop, is being read, or is recorded as given up (missed,     *)
(* acceptBroke), in any interleaving of arrivals, resets and stale events. *)
THEOREM NoEdgeIsLost == Spec => []NothingStranded
<1>1. EdgesInv /\ OwnStages /\ ProxiesInv => NothingStranded
  <2> SUFFICES ASSUME EdgesInv, OwnStages, ProxiesInv PROVE NothingStranded
    OBVIOUS
  <2>1. ASSUME NEW s \in Socks, IsOpen(s), Readable(s) PROVE Announced(s) \/ Busy(s) \/ Excused(s)
    <3>1. Told(s) \/ Busy(s) \/ Excused(s)
      BY <2>1 DEF EdgesInv, EverySockHeard, Hears, Heard
    <3> QED BY <3>1 DEF Told, Due, Announced
  <2>2. part = "epoll" => EpollAnnounced
    BY <2>1 DEF OwnStages, EpollAnnounced, Busy, Excused, Serving, Forwarding
  <2>3. part = "tls" => TlsAnnounced
    BY <2>1 DEF OwnStages, TlsAnnounced, Busy, Excused
  <2> QED BY <2>2, <2>3 DEF NothingStranded, EdgesInv, BacklogHeard, ProxiesInv
<1> QED BY <1>1, EdgesInvariant, EpollInvariant, PTL
===============================================================================
