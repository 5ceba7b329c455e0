------------------------------ MODULE ProxyLoop ------------------------------
(***************************************************************************)
(* What EpollProxy and TlsProxy (epoll_proxy.cpp, tls_proxy.cpp) have in   *)
(* common: one thread, an edge-triggered epoll instance, a listening       *)
(* socket, and a table connections_ that pairs the descriptors of a client *)
(* and of its target.  Clients and targets are external, as is the kernel: *)
(* its sockets, the lowest-free-number rule for descriptors, and epoll.    *)
(* Bytes travel in chunks <<s, n>>, the n-th that the far end of s sent.   *)
(***************************************************************************)
EXTENDS Naturals, Sequences, FiniteSets, FiniteSetsExt, SequencesExt

CONSTANTS
  NumConns,   \* bound: client connections
  MaxRemote,  \* bound: chunks sent by, and departures of, clients and targets
  MaxHellos,  \* bound: handshake messages of clients
  MaxEvents   \* max_events_

ASSUME NumConnsIsNatural == NumConns \in Nat
ASSUME MaxEventsIsPositive == MaxEvents \in Nat \ {0}

Conns == 1 .. NumConns

Socks == Conns \X {"client", "target"}
Client(c) == <<c, "client">>
Target(c) == <<c, "target">>
Other(s) == IF s[2] = "client" THEN Target(s[1]) ELSE Client(s[1])
Fds == 1 .. 2 * NumConns
ListenFd == 0
NoEvent == [fd |-> 0, ev |-> {}]

VARIABLES
  came,         \* clients that have connected so far
  sent,         \* how many chunks the far end of a socket has sent
  ended,        \* "no", "fin" or "reset": how the far end left
  backlog,      \* connections waiting in the listening socket
  acceptBroke,  \* accept() last failed with connections waiting
  fdOf,         \* the descriptor of a socket, ListenFd if it is not open
  mask,         \* the events the socket is registered for
  signal,       \* sockets epoll has an edge to report for
  listenSignal, \* the same for the listening socket
  blocked,      \* sockets whose send buffer is full
  hello,        \* clients with handshake bytes waiting to be read (TLS only)
  greetings,    \* how many times clients have sent handshake bytes
  taken,        \* how many chunks have been read from a socket
  out,          \* the chunks that reached the far end of a socket
  connections,  \* connections_: descriptor -> [peer, isClient]
  pc, batch, cur,  \* the thread, the events it has still to handle, the one it handles
  running,      \* running_
  stopped,      \* stop() was called
  alive         \* the process has not died

remotes == <<came, sent, ended, greetings>>
listener == <<backlog, acceptBroke, listenSignal>>
epoll == <<mask, signal>>
bytes == <<hello, taken, out>>
control == <<running, stopped, alive>>
loopVars == <<remotes, listener, fdOf, epoll, blocked, bytes, connections, pc, batch, cur, control>>

LoopInit ==
  /\ came = {} /\ greetings = 0 /\ sent = [s \in Socks |-> 0] /\ ended = [s \in Socks |-> "no"]
  /\ backlog = {} /\ acceptBroke = FALSE /\ listenSignal = FALSE
  /\ fdOf = [s \in Socks |-> ListenFd] /\ mask = [s \in Socks |-> {}] /\ signal = {}
  /\ blocked = {} /\ hello = {} /\ taken = [s \in Socks |-> 0] /\ out = [s \in Socks |-> <<>>]
  /\ connections = <<>> /\ pc = "start" /\ batch = <<>> /\ cur = NoEvent
  /\ running = FALSE /\ stopped = FALSE /\ alive = TRUE

----------------------------------------------------------------------------
(* The kernel.                                                             *)
IsOpen(s) == fdOf[s] # ListenFd
SockAt(fd) == CHOOSE s \in Socks : fdOf[s] = fd
Unread(s) == taken[s] < sent[s]
Readable(s) == Unread(s) \/ ended[s] # "no" \/ (s[2] = "client" /\ s[1] \in hello)
Lowest(used) == Min(Fds \ used)

(* What epoll_wait would report of s for the mask m.                       *)
EventsOf(s, m) ==
  {e \in m : (e = "in" /\ Readable(s)) \/ (e = "out" /\ s \notin blocked)}
    \cup (IF ended[s] = "reset" THEN {"hup"} ELSE {})

(* EPOLL_CTL_ADD and EPOLL_CTL_MOD report at once what is already so.      *)
Register(S, m) ==
  /\ mask' = [s \in Socks |-> IF s \in S THEN m ELSE mask[s]]
  /\ signal' = (signal \ S) \cup {s \in S : EventsOf(s, m) # {}}

(* EPOLL_CTL_DEL and close for the sockets S.                              *)
CloseSocks(S) ==
  /\ fdOf' = [s \in Socks |-> IF s \in S THEN ListenFd ELSE fdOf[s]]
  /\ mask' = [s \in Socks |-> IF s \in S THEN {} ELSE mask[s]]
  /\ signal' = signal \ S /\ blocked' = blocked \ S

(* An edge on a registered socket.                                         *)
Edge(s, e) == IF mask[s] # {} /\ (e \in mask[s] \cup {"hup"}) THEN signal \cup {s} ELSE signal

(* Nothing is seen to happen while epoll_wait hands over its events, and   *)
(* (a bound) nothing new happens once stop() has been called.              *)
WorldMoves == ~stopped /\ ~(pc = "wait" /\ batch # <<>>)

(* Clients come in the order of their numbers: they are all alike.         *)
ClientConnects(c) ==
  /\ c = Cardinality(came) + 1 /\ came' = came \cup {c}
  /\ backlog' = backlog \cup {c} /\ listenSignal' = TRUE
  /\ UNCHANGED <<sent, ended, greetings, acceptBroke, fdOf, epoll, blocked, bytes, connections, pc, batch,
                 cur, control>>
Present(s) == IF s[2] = "client" THEN s[1] \in backlog \/ IsOpen(s) ELSE IsOpen(s)
MayAct(s) ==
  /\ Present(s) /\ ended[s] = "no"
  /\ MapThenSumSet(LAMBDA x : sent[x] + (IF ended[x] = "no" THEN 0 ELSE 1), Socks) < MaxRemote
RemoteSends(s) ==
  /\ MayAct(s)
  /\ sent' = [sent EXCEPT ![s] = @ + 1] /\ signal' = Edge(s, "in")
  /\ UNCHANGED <<came, ended, greetings, listener, fdOf, mask, blocked, bytes, connections, pc, batch, cur,
                 control>>
RemoteEnds(s, how) ==
  /\ MayAct(s) /\ ended' = [ended EXCEPT ![s] = how]
  /\ signal' = Edge(s, IF how = "reset" THEN "hup" ELSE "in")
  /\ UNCHANGED <<came, sent, greetings, listener, fdOf, mask, blocked, bytes, connections, pc, batch, cur,
                 control>>
RemoteReads(s) ==
  /\ s \in blocked /\ blocked' = blocked \ {s} /\ signal' = Edge(s, "out")
  /\ UNCHANGED <<remotes, listener, fdOf, mask, bytes, connections, pc, batch, cur, control>>

Remote ==
  /\ WorldMoves
  /\ \/ \E c \in Conns : ClientConnects(c)
     \/ \E s \in Socks : RemoteSends(s) \/ RemoteReads(s)
     \/ \E s \in Socks, how \in {"fin", "reset"} : RemoteEnds(s, how)

----------------------------------------------------------------------------
(* run() and stop().  stop() before run() has set running_ is forgotten.   *)
(* The steps in which stop() is not taken do not look at what it sets.     *)
Run ==
  /\ pc = "start" /\ pc' = "wait" /\ running' = TRUE
  /\ UNCHANGED <<remotes, listener, fdOf, epoll, blocked, bytes, connections, batch, cur, stopped,
                 alive>>
Stop ==
  /\ WorldMoves /\ pc \in {"start", "wait", "dispatch", "accept"}
  /\ stopped' = TRUE /\ running' = FALSE /\ listenSignal' = TRUE
  /\ UNCHANGED <<remotes, backlog, acceptBroke, fdOf, epoll, blocked, bytes, connections, pc,
                 batch, cur, alive>>

(* epoll_wait fills the array, in any order, with up to MaxEvents events.  *)
(* An edge whose cause has gone is not reported.  The shut-down listening  *)
(* socket stays ready but reports one edge.                                *)
WaitListen ==
  /\ pc = "wait" /\ listenSignal /\ Len(batch) < MaxEvents
  /\ listenSignal' = FALSE /\ batch' = Append(batch, [fd |-> ListenFd, ev |-> {"in"}])
  /\ UNCHANGED <<remotes, backlog, acceptBroke, fdOf, epoll, blocked, bytes, connections, pc, cur,
                 control>>
WaitSock(s) ==
  /\ pc = "wait" /\ s \in signal /\ Len(batch) < MaxEvents
  /\ signal' = signal \ {s}
  /\ batch' = IF EventsOf(s, mask[s]) = {} THEN batch
              ELSE Append(batch, [fd |-> fdOf[s], ev |-> EventsOf(s, mask[s])])
  /\ UNCHANGED <<remotes, listener, fdOf, mask, blocked, bytes, connections, pc, cur, control>>
WaitReturns ==
  /\ pc = "wait" /\ batch # <<>> /\ pc' = "dispatch"
  /\ UNCHANGED <<remotes, listener, fdOf, epoll, blocked, bytes, connections, batch, cur, control>>
Wait == WaitListen \/ (\E s \in Socks : WaitSock(s)) \/ WaitReturns

(* The end of the batch: while (running_).                                 *)
BatchEnds ==
  /\ pc = "dispatch" /\ batch = <<>> /\ pc' = IF running THEN "wait" ELSE "returned"
  /\ UNCHANGED <<remotes, listener, fdOf, epoll, blocked, bytes, connections, batch, cur, control>>

(* The next event; the loop knows only its descriptor number.              *)
Takes(next) == pc = "dispatch" /\ batch # <<>> /\ batch' = Tail(batch) /\ pc' = next
Returns == pc' = "dispatch" /\ cur' = NoEvent
DispatchListen ==
  /\ Takes("accept") /\ Head(batch).fd = ListenFd
  /\ UNCHANGED <<remotes, listener, fdOf, epoll, blocked, bytes, connections, cur, control>>

(* accept() says EAGAIN, or fails while connections wait (EMFILE, or       *)
(* EINVAL after stop()): the loop is left until the next edge.             *)
AcceptEnds ==
  /\ pc = "accept" /\ pc' = "dispatch" /\ acceptBroke' = (backlog # {})
  /\ UNCHANGED <<remotes, backlog, listenSignal, fdOf, epoll, blocked, bytes, connections, batch,
                 cur, control>>

----------------------------------------------------------------------------
(* What both tables have to satisfy: connections_ pairs the two open       *)
(* sockets of one connection, each with the other's descriptor and the     *)
(* right side, and two sockets never share a descriptor.                   *)
PairsMatch ==
  /\ \A s, t \in Socks : IsOpen(s) /\ fdOf[s] = fdOf[t] => s = t
  /\ \A fd \in DOMAIN connections : \E s \in Socks :
       /\ fdOf[s] = fd /\ IsOpen(Other(s))
       /\ connections[fd] = [peer |-> fdOf[Other(s)], isClient |-> s[2] = "client"]

(* An event for s is on its way to the loop.                               *)
Announced(s) == s \in signal \/ \E i \in DOMAIN batch : batch[i].fd = fdOf[s]
ListenAnnounced ==
  listenSignal \/ pc = "accept" \/ \E i \in DOMAIN batch : batch[i].fd = ListenFd
=============================================================================
