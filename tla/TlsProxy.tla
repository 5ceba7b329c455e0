------------------------------ MODULE TlsProxy ------------------------------
(***************************************************************************)
(* TlsProxy (tls_proxy.cpp): the client side speaks TLS, the target side   *)
(* is plain.  OpenSSL is external: each call has the outcomes the code     *)
(* tells apart.  A chunk is what one read returns.                         *)
(***************************************************************************)
EXTENDS ProxyLoop

VARIABLES
  pending,   \* the keys of pending_ssl_
  ssl,       \* connections whose SSL object has been made and not freed
  wbuf,      \* write_buf of a socket's entry in connections_
  retry,     \* the array from which SSL still has to write: "no", "stack" or "buffer"
  overtook,  \* history: a chunk was written past a non-empty write_buf, or dropped
  missed     \* history: an edge was used up without reading all there was

tlsVars == <<pending, ssl, wbuf, retry, overtook, missed>>

TlsInit ==
  /\ LoopInit
  /\ pending = {} /\ ssl = {} /\ wbuf = [s \in Socks |-> <<>>]
  /\ retry = [c \in Conns |-> "no"] /\ overtook = {} /\ missed = {}

(* accept_connection, one turn.  SSL_new may fail: the client is closed.   *)
TlsAccept(c) ==
  LET fd == Lowest({fdOf[s] : s \in Socks})
  IN /\ pc = "accept" /\ c \in backlog /\ ~stopped /\ backlog' = backlog \ {c}
     /\ fdOf' = [fdOf EXCEPT ![Client(c)] = fd]
     /\ ssl' = ssl \cup {c} /\ pending' = pending \cup {fd}
     /\ Register({Client(c)}, {"in"})
     /\ UNCHANGED <<remotes, acceptBroke, listenSignal, blocked, bytes, connections, pc, batch,
                    cur, control, wbuf, retry, overtook, missed>>
TlsAcceptFails(c) ==
  /\ pc = "accept" /\ c \in backlog /\ ~stopped /\ backlog' = backlog \ {c}
  /\ UNCHANGED <<remotes, acceptBroke, listenSignal, fdOf, epoll, blocked, bytes, connections, pc,
                 batch, cur, control, tlsVars>>

----------------------------------------------------------------------------
(* continue_handshake, for any event on a pending descriptor.              *)
Handshakes(next) == Takes(next) /\ Head(batch).fd \in pending
Greeting == SockAt(Head(batch).fd)
ReadsHello == hello' = hello \ {Greeting[1]} /\ UNCHANGED <<taken, out>>

(* The client's side of the handshake (external).                          *)
ClientHello(c) ==
  /\ WorldMoves /\ fdOf[Client(c)] \in pending /\ ended[Client(c)] = "no"
  /\ greetings < MaxHellos /\ greetings' = greetings + 1
  /\ hello' = hello \cup {c} /\ signal' = Edge(Client(c), "in")
  /\ UNCHANGED <<came, sent, ended, listener, fdOf, mask, blocked, taken, out, connections, pc, batch, cur,
                 control, tlsVars>>

(* SSL_accept succeeds and the target answers: the entry moves to          *)
(* connections_.  Nothing is read now, and the mask stays what it was.     *)
HandshakeDone ==
  LET cfd == Head(batch).fd
      c == Greeting[1]
      tfd == Lowest({fdOf[s] : s \in Socks})
  IN /\ Handshakes("dispatch") /\ ended[Greeting] # "reset"
     /\ pending' = pending \ {cfd}
     /\ fdOf' = [fdOf EXCEPT ![Target(c)] = tfd]
     /\ connections' = [fd \in DOMAIN connections \cup {cfd, tfd} |->
                          CASE fd = cfd -> [peer |-> tfd, isClient |-> TRUE]
                            [] fd = tfd -> [peer |-> cfd, isClient |-> FALSE]
                            [] OTHER -> connections[fd]]
     /\ Register({Target(c)}, {"in"})
     /\ ReadsHello
     /\ missed' = IF Unread(Greeting) \/ ended[Greeting] = "fin" \/ mask[Greeting] = {"out"} 
                  THEN missed \cup {c} ELSE missed
     /\ UNCHANGED <<remotes, listener, blocked, cur, control, ssl, wbuf, retry, overtook>>

(* WANT_READ waits with the mask as it is; WANT_WRITE waits for EPOLLOUT   *)
(* only.                                                                   *)
HandshakeWantsRead ==
  /\ Handshakes("dispatch") /\ ended[Greeting] = "no" /\ ~Unread(Greeting) /\ ReadsHello
  /\ UNCHANGED <<remotes, listener, fdOf, epoll, blocked, connections, cur, control,
                 tlsVars>>
HandshakeWantsWrite ==
  /\ Handshakes("dispatch") /\ ended[Greeting] # "reset"
  /\ blocked' = blocked \cup {Greeting} /\ ReadsHello
  /\ mask' = [mask EXCEPT ![Greeting] = {"out"}] /\ signal' = signal \ {Greeting}
  /\ UNCHANGED <<remotes, listener, fdOf, connections, cur, control, tlsVars>>

(* SSL_accept fails, or the target cannot be reached: close_pending.       *)
HandshakeFails ==
  /\ Handshakes("dispatch")
  /\ pending' = pending \ {Head(batch).fd} /\ ssl' = ssl \ {Greeting[1]}
  /\ CloseSocks({Greeting}) /\ ReadsHello
  /\ UNCHANGED <<remotes, listener, connections, cur, control, wbuf, retry,
                 overtook, missed>>

----------------------------------------------------------------------------
(* close_connection: both sockets and the SSL object, found from either.   *)
TlsClose(fd) ==
  IF fd \in DOMAIN connections
  THEN LET s == SockAt(fd)
           gone == {fd, connections[fd].peer}
       IN /\ CloseSocks({s, Other(s)})
          /\ connections' = [f \in DOMAIN connections \ gone |-> connections[f]]
          /\ ssl' = ssl \ {s[1]}
          /\ wbuf' = [wbuf EXCEPT ![s] = <<>>, ![Other(s)] = <<>>]
  ELSE UNCHANGED <<fdOf, epoll, blocked, connections, ssl, wbuf>>

(* handle_event: ERR and HUP close, then EPOLLOUT flushes, then EPOLLIN    *)
(* forwards.                                                               *)
TlsHangup ==
  /\ Takes("dispatch") /\ Head(batch).fd \notin pending /\ "hup" \in Head(batch).ev
  /\ TlsClose(Head(batch).fd)
  /\ UNCHANGED <<remotes, listener, bytes, cur, control, pending, retry, overtook,
                 missed>>
NextStage(ev) ==
  CASE "out" \in ev -> "flush" [] ev = {"in"} -> "forward" [] OTHER -> "dispatch"
TlsEvent ==
  /\ Takes(IF Head(batch).fd \in DOMAIN connections THEN NextStage(Head(batch).ev) ELSE "dispatch")
  /\ Head(batch).fd \notin pending \cup {ListenFd} /\ "hup" \notin Head(batch).ev
  /\ cur' = IF pc' = "dispatch" THEN NoEvent ELSE Head(batch)
  /\ UNCHANGED <<remotes, listener, fdOf, epoll, blocked, bytes, connections, control, tlsVars>>

Here == SockAt(cur.fd)
There == Other(Here)
AfterFlush ==
  IF NextStage(cur.ev \ {"out"}) = "forward" THEN pc' = "forward" /\ cur' = cur ELSE Returns

(* flush_write_buf: with nothing buffered EPOLLOUT is only switched off.   *)
(* The mask is switched back to EPOLLIN when all has gone.                 *)
FlushDone ==
  /\ pc = "flush" /\ wbuf[Here] = <<>> /\ AfterFlush /\ Register({Here}, {"in"})
  /\ UNCHANGED <<remotes, listener, fdOf, blocked, bytes, connections, batch, control,
                 tlsVars>>
(* SSL insists on repeating a write from the array of the first attempt    *)
(* (SSL_MODE_ACCEPT_MOVING_WRITE_BUFFER is not set): what was first tried  *)
(* from the array on the stack cannot be written from write_buf.           *)
Pending(s, array) == IF s[2] = "client" THEN [retry EXCEPT ![s[1]] = array] ELSE retry
MayResume == Here[2] = "client" => retry[Here[1]] # "stack"

FlushWriteKeeps ==   \* mutant: what was written is not erased from the buffer
  /\ pc = "flush" /\ wbuf[Here] # <<>> /\ Here[2] = "target" /\ Here \notin blocked
  /\ ended[Here] # "reset" /\ Len(out[Here]) < 3
  /\ out' = [out EXCEPT ![Here] = Append(@, Head(wbuf[Here]))]
  /\ UNCHANGED <<remotes, listener, fdOf, epoll, blocked, hello, taken, connections, pc, batch,
                 cur, control, tlsVars>>
FlushWrite ==
  /\ pc = "flush" /\ wbuf[Here] # <<>> /\ MayResume /\ Here \notin blocked
  /\ ended[Here] # "reset"
  /\ out' = [out EXCEPT ![Here] = Append(@, Head(wbuf[Here]))]
  /\ wbuf' = [wbuf EXCEPT ![Here] = Tail(@)]
  /\ retry' = Pending(Here, "no")
  /\ UNCHANGED <<remotes, listener, fdOf, epoll, blocked, hello, taken, connections, pc, batch, cur,
                 control, pending, ssl, overtook, missed>>
FlushAgain ==
  /\ pc = "flush" /\ wbuf[Here] # <<>> /\ MayResume /\ AfterFlush
  /\ blocked' = blocked \cup {Here} /\ retry' = Pending(Here, "buffer")
  /\ UNCHANGED <<remotes, listener, fdOf, epoll, bytes, connections, batch, control, pending, ssl,
                 wbuf, overtook, missed>>

(* A write to a reset socket fails or kills the process (SIGPIPE), and so  *)
(* does a repetition that SSL does not accept.                             *)
FlushFails ==
  /\ pc = "flush" /\ wbuf[Here] # <<>> /\ Returns
  /\ ended[Here] = "reset" \/ ~MayResume
  /\ TlsClose(cur.fd)
  /\ alive' \in IF ended[Here] = "reset" THEN BOOLEAN ELSE {TRUE}
  /\ UNCHANGED <<remotes, listener, bytes, batch, running, stopped, pending, retry,
                 overtook, missed>>

----------------------------------------------------------------------------
(* forward_client_to_target and forward_target_to_client.                  *)

Chunk == <<Here, taken[Here] + 1>>
Reads == pc = "forward" /\ Unread(Here) /\ ended[Here] # "reset"
           /\ taken' = [taken EXCEPT ![Here] = @ + 1]

(* The chunk is written at once, also past what write_buf still holds.     *)
ForwardWrites ==
  /\ Reads /\ pc' = "forward" /\ There \notin blocked /\ ended[There] # "reset"
  /\ There[2] = "client" => retry[Here[1]] = "no"
  /\ out' = [out EXCEPT ![There] = Append(@, Chunk)] /\ UNCHANGED hello
  /\ overtook' = IF wbuf[There] # <<>> THEN overtook \cup {Here[1]} ELSE overtook
  /\ UNCHANGED <<remotes, listener, fdOf, epoll, blocked, connections, batch, cur, control,
                 pending, ssl, wbuf, retry, missed>>

(* EAGAIN or WANT_WRITE: the chunk is buffered, EPOLLOUT is asked for, and *)
(* the loop returns: whatever else was readable has lost its edge.         *)
ForwardBuffers ==
  /\ Reads /\ Returns /\ ended[There] # "reset"
  /\ There[2] = "client" => retry[Here[1]] = "no"
  /\ blocked' = blocked \cup {There}
  /\ wbuf' = [wbuf EXCEPT ![There] = Append(@, Chunk)]
  /\ mask' = [mask EXCEPT ![There] = {"in", "out"}]
  /\ signal' = IF Readable(There) THEN signal \cup {There} ELSE signal
  /\ retry' = Pending(There, "stack")
  /\ missed' = missed \cup {Here[1]}
  /\ UNCHANGED <<remotes, listener, fdOf, hello, out, connections, batch, control, pending, ssl,
                 overtook>>

(* WANT_READ from SSL_write: the chunk is dropped.  The same holds if a    *)
(* pending record is resumed instead of the chunk, when the array on the   *)
(* stack happens to have the address of the first attempt.                 *)
ForwardDrops ==
  /\ Reads /\ There[2] = "client" /\ ended[There] # "reset"
  /\ UNCHANGED hello /\ overtook' = overtook \cup {Here[1]} /\ missed' = missed \cup {Here[1]}
  /\ \/ retry[Here[1]] = "no" /\ Returns /\ UNCHANGED <<out, retry>>
     \/ /\ retry[Here[1]] = "stack" /\ pc' = "forward" /\ UNCHANGED cur /\ There \notin blocked
        /\ out' = [out EXCEPT ![There] = Append(@, Last(wbuf[There]))]
        /\ retry' = Pending(There, "no")
  /\ UNCHANGED <<remotes, listener, fdOf, epoll, blocked, connections, batch, control,
                 pending, ssl, wbuf>>

(* The write fails: a reset socket (or SIGPIPE), a bad retry.              *)
ForwardFails ==
  /\ Reads /\ Returns
  /\ ended[There] = "reset" \/ (There[2] = "client" /\ retry[Here[1]] # "no")
  /\ TlsClose(cur.fd)
  /\ alive' \in IF ended[There] = "reset" THEN BOOLEAN ELSE {TRUE}
  /\ UNCHANGED <<remotes, listener, hello, out, batch, running, stopped, pending, retry,
                 overtook, missed>>

ForwardDrained ==
  /\ pc = "forward" /\ ~Readable(Here) /\ Returns
  /\ UNCHANGED <<remotes, listener, fdOf, epoll, blocked, bytes, connections, batch, control,
                 tlsVars>>
ForwardEnds ==
  /\ pc = "forward" /\ Returns
  /\ ended[Here] = "reset" \/ (ended[Here] = "fin" /\ ~Unread(Here))
  /\ TlsClose(cur.fd)
  /\ UNCHANGED <<remotes, listener, bytes, batch, control, pending, retry, overtook,
                 missed>>

TlsForward ==
  \/ ForwardWrites \/ ForwardBuffers \/ ForwardDrops \/ ForwardFails \/ ForwardDrained
  \/ ForwardEnds
TlsFlush == FlushDone \/ FlushWrite \/ FlushAgain \/ FlushFails
TlsHandshake ==
  HandshakeDone \/ HandshakeWantsRead \/ HandshakeWantsWrite \/ HandshakeFails

TlsLoop ==
  \/ (Run \/ Wait \/ BatchEnds \/ DispatchListen \/ AcceptEnds) /\ UNCHANGED tlsVars
  \/ \E c \in Conns : TlsAccept(c) \/ TlsAcceptFails(c)
  \/ TlsHandshake \/ TlsHangup \/ TlsEvent \/ TlsFlush \/ TlsForward

TlsNext ==
  /\ alive
  /\ TlsLoop \/ (\E c \in Conns : ClientHello(c)) \/ ((Remote \/ Stop) /\ UNCHANGED tlsVars)

----------------------------------------------------------------------------
(* The two tables, the open sockets and the SSL objects agree: a           *)
(* descriptor is pending or connected, never both, and each connection     *)
(* has exactly its own SSL object until it is closed.                      *)
TlsTables ==
  /\ PairsMatch
  /\ pending \cap DOMAIN connections = {}
  /\ {fdOf[s] : s \in {t \in Socks : IsOpen(t)}} = pending \cup DOMAIN connections
  /\ \A c \in Conns : c \in ssl <=> IsOpen(Client(c))
  /\ \A s \in Socks : wbuf[s] # <<>> => IsOpen(s) /\ "out" \in mask[s]

(* What can be read from a connection has an event on its way, unless an   *)
(* edge was used up before it: the handshake ended with data waiting or    *)
(* with the mask on EPOLLOUT, or a full peer made a forwarding loop return.*)
TlsAnnounced ==
  \A s \in Socks : IsOpen(s) /\ Readable(s) =>
     \/ Announced(s) \/ (pc \in {"flush", "forward"} /\ cur.fd = fdOf[s])
     \/ s[1] \in missed \/ (fdOf[s] \in pending /\ mask[s] = {"out"})

(* Chunks reach the other side in order, none lost between two that        *)
(* arrived, none twice and none from another connection, unless a chunk    *)
(* overtook the write buffer.                                              *)
TlsInOrder ==
  \A s \in Socks : s[1] \in overtook \/ out[s] = [n \in 1 .. Len(out[s]) |-> <<Other(s), n>>]

(* A connection as the abstract Relay sees it: open when the handshake is  *)
(* done and the target connected.  Relay sees what was delivered up to the *)
(* first chunk that overtook another.                                      *)
TlsState ==
  [c \in Conns |-> IF IsOpen(Target(c)) THEN "open"
                   ELSE IF c \in came \ backlog /\ ~IsOpen(Client(c)) THEN "closed" ELSE "new"]
InOrder(q, s) == SubSeq(q, 1, Min({n \in 0 .. Len(q) : n = Len(q) \/ q[n + 1] # <<s, n + 1>>}))
TlsDelivered == [s \in Socks |-> InOrder(out[s], Other(s))]
=============================================================================
