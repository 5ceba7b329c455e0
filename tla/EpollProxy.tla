----------------------------- MODULE EpollProxy -----------------------------
(***************************************************************************)
(* EpollProxy (epoll_proxy.cpp): plain TCP, moved by splice() through a    *)
(* pipe of pipe_pool_.                                                     *)
(***************************************************************************)
EXTENDS ProxyLoop

VARIABLES
  pool,    \* pipe_pool_.size()
  pipe,    \* the chunk in the pipe that forward_data uses, <<>> if empty
  active   \* active_connections_

epollVars == <<pool, pipe, active>>

EpollInit == LoopInit /\ pool = MaxEvents /\ pipe = <<>> /\ active = 0

(* accept_connection, one turn: the target is connected at once, and the   *)
(* client closed if that fails.                                            *)
EpollAcceptOnce(c) ==   \* mutant: one accept() per edge
  LET used == {fdOf[s] : s \in Socks}
      cfd == Lowest(used)
      tfd == Lowest(used \cup {cfd})
  IN /\ pc = "accept" /\ pc' = "dispatch" /\ c \in backlog /\ ~stopped /\ backlog' = backlog \ {c}
     /\ fdOf' = [fdOf EXCEPT ![Client(c)] = cfd, ![Target(c)] = tfd]
     /\ connections' = [fd \in DOMAIN connections \cup {cfd, tfd} |->
                          CASE fd = cfd -> [peer |-> tfd, isClient |-> TRUE]
                            [] fd = tfd -> [peer |-> cfd, isClient |-> FALSE]
                            [] OTHER -> connections[fd]]
     /\ Register({Client(c), Target(c)}, {"in"})
     /\ active' = active + 1
     /\ UNCHANGED <<remotes, acceptBroke, listenSignal, blocked, bytes, batch, cur, control,
                    pool, pipe>>
EpollAccept(c) ==
  LET used == {fdOf[s] : s \in Socks}
      cfd == Lowest(used)
      tfd == Lowest(used \cup {cfd})
  IN /\ pc = "accept" /\ c \in backlog /\ ~stopped /\ backlog' = backlog \ {c}
     /\ fdOf' = [fdOf EXCEPT ![Client(c)] = cfd, ![Target(c)] = tfd]
     /\ connections' = [fd \in DOMAIN connections \cup {cfd, tfd} |->
                          CASE fd = cfd -> [peer |-> tfd, isClient |-> TRUE]
                            [] fd = tfd -> [peer |-> cfd, isClient |-> FALSE]
                            [] OTHER -> connections[fd]]
     /\ Register({Client(c), Target(c)}, {"in"})
     /\ active' = active + 1
     /\ UNCHANGED <<remotes, acceptBroke, listenSignal, blocked, bytes, pc, batch, cur, control,
                    pool, pipe>>
EpollAcceptFails(c) ==
  /\ pc = "accept" /\ c \in backlog /\ ~stopped /\ backlog' = backlog \ {c}
  /\ UNCHANGED <<remotes, acceptBroke, listenSignal, fdOf, epoll, blocked, bytes, connections, pc,
                 batch, cur, control, epollVars>>

(* close_connection: both sides, whichever descriptor it is called with;   *)
(* an unknown descriptor is ignored.                                       *)
CloseConnectionHalf(fd) ==   \* mutant: the peer's entry is not erased
  IF fd \in DOMAIN connections
  THEN LET gone == {fd, connections[fd].peer}
       IN /\ CloseSocks({s \in Socks : fdOf[s] \in gone})
          /\ connections' = [f \in DOMAIN connections \ {fd} |-> connections[f]]
          /\ active' = active - 1
  ELSE UNCHANGED <<fdOf, epoll, blocked, connections, active>>
CloseConnection(fd) ==
  IF fd \in DOMAIN connections
  THEN LET gone == {fd, connections[fd].peer}
       IN /\ CloseSocks({s \in Socks : fdOf[s] \in gone})
          /\ connections' = [f \in DOMAIN connections \ gone |-> connections[f]]
          /\ active' = active - 1
  ELSE UNCHANGED <<fdOf, epoll, blocked, connections, active>>

(* handle_event: ERR and HUP close; IN takes a pipe and forwards.          *)
EpollHangup ==
  /\ Takes("dispatch") /\ "hup" \in Head(batch).ev /\ CloseConnection(Head(batch).fd)
  /\ UNCHANGED <<remotes, listener, bytes, cur, control, pool, pipe>>
EpollInput ==
  /\ Takes(IF Head(batch).fd \in DOMAIN connections THEN "splice" ELSE "dispatch")
  /\ "hup" \notin Head(batch).ev /\ Head(batch).fd # ListenFd
  /\ cur' = IF Head(batch).fd \in DOMAIN connections THEN Head(batch) ELSE NoEvent
  /\ pool' = IF Head(batch).fd \in DOMAIN connections /\ pool > 0 THEN pool - 1 ELSE pool
  /\ UNCHANGED <<remotes, listener, fdOf, epoll, blocked, bytes, connections, control, pipe,
                 active>>

(* forward_data.  From: socket to pipe, until EAGAIN; at the end of the    *)
(* stream or on an error the pipe is closed, not returned to the pool.     *)
From == SockAt(cur.fd)
SpliceIn ==
  /\ pc = "splice" /\ pc' = "move" /\ Unread(From) /\ ended[From] # "reset"
  /\ pipe' = <<From, taken[From] + 1>> /\ taken' = [taken EXCEPT ![From] = @ + 1]
  /\ UNCHANGED <<remotes, listener, fdOf, epoll, blocked, hello, out, connections, batch, cur, control,
                 pool, active>>
SpliceDrained ==
  /\ pc = "splice" /\ Returns /\ ~Readable(From) /\ pool' = pool + 1
  /\ UNCHANGED <<remotes, listener, fdOf, epoll, blocked, bytes, connections, batch, control,
                 pipe, active>>
SpliceEnds ==
  /\ pc = "splice" /\ Returns
  /\ ended[From] = "reset" \/ (ended[From] = "fin" /\ ~Unread(From))
  /\ CloseConnection(cur.fd)
  /\ UNCHANGED <<remotes, listener, bytes, batch, control, pool, pipe>>

(* Pipe to the other socket, as fast as that takes it.  Writing to a reset *)
(* socket fails, or kills the process: SIGPIPE is not ignored.             *)
To == Other(From)
MoveOut ==
  /\ pc = "move" /\ pc' = "splice" /\ To \notin blocked /\ ended[To] # "reset"
  /\ out' = [out EXCEPT ![To] = Append(@, pipe)] /\ pipe' = <<>>
  /\ UNCHANGED <<remotes, listener, fdOf, epoll, blocked, hello, taken, connections, batch, cur, control,
                 pool, active>>
MoveAgain ==
  /\ pc = "move" /\ pc' = "poll" /\ ended[To] # "reset" /\ blocked' = blocked \cup {To}
  /\ UNCHANGED <<remotes, listener, fdOf, epoll, bytes, connections, batch, cur, control,
                 epollVars>>
MoveFails ==
  /\ pc = "move" /\ ended[To] = "reset" /\ Returns /\ pipe' = <<>>
  /\ CloseConnection(cur.fd) /\ alive' \in BOOLEAN
  /\ UNCHANGED <<remotes, listener, bytes, batch, running, stopped, pool>>

(* poll() for at most 30 s, the whole loop waiting.                        *)
PollReady ==
  /\ pc = "poll" /\ pc' = "move" /\ (To \notin blocked \/ ended[To] = "reset")
  /\ UNCHANGED <<remotes, listener, fdOf, epoll, blocked, bytes, connections, batch, cur, control,
                 epollVars>>
PollTimeoutGoesOn ==   \* mutant: the pipe is emptied and the connection kept
  /\ pc = "poll" /\ To \in blocked /\ pc' = "splice" /\ pipe' = <<>>
  /\ UNCHANGED <<remotes, listener, fdOf, epoll, blocked, bytes, connections, batch, cur, control,
                 pool, active>>
PollTimeout ==
  /\ pc = "poll" /\ To \in blocked /\ Returns /\ pipe' = <<>> /\ CloseConnection(cur.fd)
  /\ UNCHANGED <<remotes, listener, bytes, batch, control, pool>>

EpollForward ==
  \/ SpliceIn \/ SpliceDrained \/ SpliceEnds
  \/ MoveOut \/ MoveAgain \/ MoveFails \/ PollReady \/ PollTimeout

EpollLoop ==
  \/ (Run \/ Wait \/ BatchEnds \/ DispatchListen \/ AcceptEnds) /\ UNCHANGED epollVars
  \/ \E c \in Conns : EpollAccept(c) \/ EpollAcceptFails(c)
  \/ EpollHangup \/ EpollInput \/ EpollForward

EpollNext == alive /\ (EpollLoop \/ ((Remote \/ Stop) /\ UNCHANGED epollVars))

----------------------------------------------------------------------------
(* The table, the open sockets, the counter and the pipe pool agree:       *)
(* nothing is leaked and nothing is closed twice, whatever stale event     *)
(* meets a reused descriptor.                                              *)
EpollTables ==
  /\ PairsMatch
  /\ {fdOf[s] : s \in {t \in Socks : IsOpen(t)}} = DOMAIN connections
  /\ 2 * active = Cardinality(DOMAIN connections)
  /\ pool <= MaxEvents

(* With edge-triggered events: whatever can be read from a connection has  *)
(* an event on its way, or is being forwarded.                             *)
EpollAnnounced ==
  \A s \in Socks : IsOpen(s) /\ Readable(s) =>
     Announced(s) \/ (pc \in {"splice", "move", "poll"} /\ cur.fd = fdOf[s])

(* A connection as the abstract Relay sees it.                             *)
EpollState ==
  [c \in Conns |-> IF IsOpen(Client(c)) THEN "open"
                   ELSE IF c \in came /\ c \notin backlog THEN "closed" ELSE "new"]
=============================================================================
