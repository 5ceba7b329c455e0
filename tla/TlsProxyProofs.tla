----------------------------- MODULE TlsProxyProofs -----------------------------
(***************************************************************************)
(* TlsProxy keeps its two tables, its SSL objects and its write buffers    *)
(* consistent with the open sockets, and bytes in order where nothing      *)
(* overtakes a write buffer, and it refines Relay, as EpollProxy does;     *)
(* proved for any number of connections.                                   *)
(*                                                                         *)
(* A connection is pending with one socket or connected with two, and the  *)
(* numbers of those sockets are the keys of the two tables (Entries).      *)
(* Behind a connected socket, what has been read from its peer is what was *)
(* written followed by what its write buffer holds (InTurn).               *)
(***************************************************************************)
EXTENDS ProxiesProofs

USE NumConnsIsNatural, MaxEventsIsPositive

(* A closed socket leaves a number free, and Lowest finds it.              *)
LEMMA LowestIsFreeForOne ==
  ASSUME NEW u \in Socks, fdOf \in [Socks -> Fds \cup {ListenFd}], ~IsOpen(u)
  PROVE  Lowest({fdOf[s] : s \in Socks}) \in Fds \ {fdOf[s] : s \in Socks}
<1> DEFINE used == {fdOf[s] : s \in Socks}
           rest == Socks \ {u}
           g == [s \in rest |-> fdOf[s]]
           image == {g[s] : s \in rest}
<1>1. IsFiniteSet(rest) /\ Cardinality(rest) < 2 * NumConns
  <2>1. IsFiniteSet(rest) /\ Cardinality(rest) = Cardinality(Socks) - 1
    BY SocksAreCounted, FS_RemoveElement
  <2>2. Cardinality(Socks) \in Nat
    BY SocksAreCounted, FS_CardinalityType
  <2> QED BY <2>1, <2>2, SocksAreCounted
<1>2. IsFiniteSet(image) /\ Cardinality(image) < 2 * NumConns
  <2>1. g \in Surjection(rest, image)
    BY DEF Surjection
  <2>2. IsFiniteSet(image) /\ Cardinality(image) <= Cardinality(rest)
    BY <1>1, <2>1, FS_Surjection
  <2>3. Cardinality(image) \in Nat /\ Cardinality(rest) \in Nat
    BY <1>1, <2>2, FS_CardinalityType
  <2> QED BY <1>1, <2>2, <2>3
<1>3. used \cap Fds \subseteq image
  BY DEF IsOpen, Fds, ListenFd
<1> HIDE DEF used, image
<1>4. Fds \ used # {}
  <2> SUFFICES ASSUME Fds \subseteq used PROVE FALSE
    OBVIOUS
  <2>1. Fds \subseteq image
    BY <1>3
  <2>2. Cardinality(Fds) <= Cardinality(image) /\ Cardinality(image) \in Nat
    BY <1>2, <2>1, FS_Subset, FS_CardinalityType
  <2> QED BY <1>2, <2>2, SocksAreCounted
<1>5. IsFiniteSet(Fds \ used) /\ Fds \ used \in SUBSET Nat
  <2>1. Fds \ used \in SUBSET Fds /\ Fds \subseteq Nat
    BY DEF Fds
  <2> QED BY <2>1, SocksAreCounted, FS_Subset
<1> QED BY <1>4, <1>5, MinIsIn DEF Lowest, used
----------------------------------------------------------------------------
(* The inductive invariant of TlsProxy.                                    *)
Serving == {"flush", "forward"}
Connected(s) == IsOpen(s) /\ IsOpen(Other(s))

TlsTypes ==
  /\ LoopTypes
  /\ mask \in [Socks -> SUBSET {"in", "out"}]
  /\ wbuf \in [Socks -> Seq(Socks \X Nat)]
  /\ retry \in [Conns -> {"no", "stack", "buffer"}]

(* No number is used twice; a target is open only beside its client.       *)
Numbers ==
  /\ \A s, t \in Socks : IsOpen(s) /\ fdOf[s] = fdOf[t] => s = t
  /\ \A c \in Conns : IsOpen(Target(c)) => IsOpen(Client(c))

(* connections_ holds the connected sockets, pending_ssl_ the other        *)
(* clients, and every open client has its SSL object.                      *)
Entries ==
  /\ DOMAIN connections = {fdOf[s] : s \in {t \in Socks : Connected(t)}}
  /\ \A s \in Socks : Connected(s) =>
       connections[fdOf[s]] = [peer |-> fdOf[Other(s)], isClient |-> s[2] = "client"]
  /\ pending = {fdOf[s] : s \in {t \in Socks : IsOpen(t) /\ ~Connected(t)}}
  /\ \A c \in Conns : c \in ssl <=> IsOpen(Client(c))

(* Only a connected socket has something buffered, and waits for EPOLLOUT. *)
Buffered == \A s \in Socks : wbuf[s] # <<>> => Connected(s) /\ "out" \in mask[s]

(* flush_write_buf and the forwarding loops work on an entry of the table. *)
AtWork == pc \in Serving => cur.fd \in DOMAIN connections

(* Nothing has passed through a connection that is not yet connected.      *)
Unused(s) == s[1] \notin came \ backlog \/ (IsOpen(s) /\ ~IsOpen(Other(s)))
               \/ (~IsOpen(s) /\ IsOpen(Other(s)))
Fresh == \A s \in Socks : Unused(s) => taken[s] = 0 /\ out[s] = <<>> /\ retry[s[1]] = "no"

(* What reached the far end of s is what was read from the other side, in  *)
(* order; what follows, up to the last chunk read, is in its write buffer. *)
Numbered(q, s, k) == q = [n \in 1 .. Len(q) |-> <<s, k + n>>]
Turn(o, w, s, n) == Numbered(o, s, 0) /\ Numbered(w, s, Len(o)) /\ n = Len(o) + Len(w)
InTurn(s) ==
  /\ Numbered(out[s], Other(s), 0)
  /\ Connected(s) => Turn(out[s], wbuf[s], Other(s), taken[Other(s)])
Ordered == \A s \in Socks : s[1] \in overtook \/ InTurn(s)

(* A record that SSL still has to write from the stack is in the buffer.   *)
StackHeld ==
  \A c \in Conns : retry[c] = "stack" /\ IsOpen(Client(c)) => wbuf[Client(c)] # <<>>

TlsTablesInv == TlsTypes /\ Numbers /\ Entries /\ Buffered /\ Arrivals /\ AtWork
TlsInv == TlsTablesInv /\ Fresh /\ Ordered /\ StackHeld

(* The socket that flush_write_buf and the forwarding loops work for.      *)
LEMMA HereIsConnected ==
  ASSUME TlsTablesInv, pc \in Serving
  PROVE  /\ Here \in Socks /\ There \in Socks /\ There = Other(Here) /\ Here = Other(There)
         /\ Connected(Here) /\ Connected(There) /\ fdOf[Here] = cur.fd
<1>1. PICK s \in Socks : Connected(s) /\ fdOf[s] = cur.fd
  BY DEF TlsTablesInv, AtWork, Entries
<1>2. Here = s
  BY <1>1 DEF Here, SockAt, TlsTablesInv, Numbers, Connected
<1> QED BY <1>1, <1>2, SocksArePairs DEF There, Connected

(* The socket of an event on a pending descriptor.                         *)
LEMMA GreetingIsPending ==
  ASSUME TlsTablesInv, NEW next, Handshakes(next)
  PROVE  /\ Greeting \in Socks /\ fdOf[Greeting] = Head(batch).fd
         /\ Greeting[1] \in Conns /\ Greeting = Client(Greeting[1])
         /\ IsOpen(Greeting) /\ ~IsOpen(Other(Greeting)) /\ Other(Greeting) = Target(Greeting[1])
<1>1. PICK s \in Socks : IsOpen(s) /\ ~Connected(s) /\ fdOf[s] = Head(batch).fd
  BY DEF TlsTablesInv, Handshakes, Entries
<1>2. Greeting = s
  BY <1>1 DEF Greeting, SockAt, TlsTablesInv, Numbers
<1>3. s = Client(s[1]) /\ s[1] \in Conns /\ Other(s) = Target(s[1])
  <2>1. s # Target(s[1])
    BY <1>1, SocksArePairs DEF TlsTablesInv, Numbers, Connected
  <2> QED BY <2>1, SocksArePairs
<1> QED BY <1>1, <1>2, <1>3 DEF Connected
----------------------------------------------------------------------------
(* Steps that open, close, read and write nothing.                         *)
TlsQuiet ==
  \/ (Run \/ Wait \/ BatchEnds \/ DispatchListen \/ AcceptEnds) /\ UNCHANGED tlsVars
  \/ (Remote \/ Stop) /\ UNCHANGED tlsVars
  \/ \E c \in Conns : TlsAcceptFails(c) \/ ClientHello(c)
  \/ HandshakeWantsRead \/ HandshakeWantsWrite \/ TlsEvent \/ FlushDone \/ FlushAgain
  \/ ForwardDrained

(* What they leave alone.                                                  *)
LEMMA TlsQuietKeeps ==
  ASSUME TlsTablesInv, TlsQuiet
  PROVE  /\ UNCHANGED <<fdOf, connections, taken, out, pending, ssl, wbuf, overtook>>
         /\ AtWork'
         /\ sent' \in [Socks -> Nat]
<1> USE DEF TlsTablesInv
<1>1. CASE (Run \/ Wait \/ BatchEnds \/ DispatchListen \/ AcceptEnds \/ Stop) /\ UNCHANGED tlsVars
  BY <1>1 DEF Run, Wait, WaitListen, WaitSock, WaitReturns, BatchEnds, DispatchListen, Takes,
     AcceptEnds, Stop, tlsVars, bytes, remotes, TlsTypes, LoopTypes, AtWork, Serving
<1>2. CASE Remote /\ UNCHANGED tlsVars
  <2>1. UNCHANGED <<fdOf, connections, taken, out, pending, ssl, wbuf, overtook, pc, cur>>
    BY <1>2 DEF Remote, ClientConnects, RemoteSends, RemoteReads, RemoteEnds, tlsVars, bytes
  <2>2. sent' \in [Socks -> Nat]
    <3>1. UNCHANGED sent \/ \E s \in Socks : sent' = [sent EXCEPT ![s] = @ + 1]
      BY <1>2 DEF Remote, ClientConnects, RemoteSends, RemoteReads, RemoteEnds, remotes
    <3> QED BY <3>1 DEF TlsTypes, LoopTypes
  <2> QED BY <2>1, <2>2 DEF AtWork
<1>3. CASE \E c \in Conns : TlsAcceptFails(c) \/ ClientHello(c)
  BY <1>3 DEF TlsAcceptFails, ClientHello, tlsVars, bytes, remotes, TlsTypes, LoopTypes, AtWork
<1>4. CASE HandshakeWantsRead \/ HandshakeWantsWrite
  BY <1>4 DEF HandshakeWantsRead, HandshakeWantsWrite, Handshakes, Takes, ReadsHello, tlsVars,
     remotes, TlsTypes, LoopTypes, AtWork, Serving
<1>5. CASE TlsEvent
  BY <1>5 DEF TlsEvent, Takes, tlsVars, bytes, remotes, TlsTypes, LoopTypes, AtWork, Serving
<1>6. CASE FlushDone \/ FlushAgain \/ ForwardDrained
  BY <1>6 DEF FlushDone, FlushAgain, ForwardDrained, AfterFlush, Returns, tlsVars, bytes, remotes,
     TlsTypes, LoopTypes, AtWork, Serving
<1> QED BY <1>1, <1>2, <1>3, <1>4, <1>5, <1>6 DEF TlsQuiet

(* They register only EPOLLIN and EPOLLOUT, and EPOLLOUT while something   *)
(* is buffered.                                                            *)
LEMMA TlsQuietKeepsMasks ==
  ASSUME TlsTablesInv, TlsQuiet
  PROVE  mask' \in [Socks -> SUBSET {"in", "out"}] /\ Buffered'
<1> USE DEF TlsTablesInv
<1>1. UNCHANGED <<fdOf, wbuf>>
  BY TlsQuietKeeps
<1>2. CASE UNCHANGED mask
  BY <1>1, <1>2 DEF Buffered, TlsTypes, Connected, IsOpen
<1>3. CASE HandshakeWantsWrite
  BY <1>1, <1>3, GreetingIsPending
     DEF HandshakeWantsWrite, Buffered, TlsTypes, Connected, IsOpen
<1>4. CASE FlushDone
  <2>1. Here \in Socks /\ wbuf[Here] = <<>>
    BY <1>4, HereIsConnected DEF FlushDone, Serving
  <2>2. mask' = [s \in Socks |-> IF s = Here THEN {"in"} ELSE mask[s]]
    BY <1>4 DEF FlushDone, Register
  <2> QED BY <1>1, <2>1, <2>2 DEF Buffered, TlsTypes, Connected, IsOpen
<1> QED
  BY <1>2, <1>3, <1>4 DEF TlsQuiet, Run, Wait, WaitListen, WaitSock, WaitReturns, BatchEnds,
     DispatchListen, AcceptEnds, Stop, Remote, ClientConnects, RemoteSends, RemoteReads, RemoteEnds,
     TlsAcceptFails, ClientHello, HandshakeWantsRead, TlsEvent, FlushAgain, ForwardDrained, epoll

(* They take clients from the listening socket only to close them.         *)
LEMMA TlsQuietKeepsArrivals ==
  ASSUME TlsTablesInv, TlsQuiet
  PROVE  Arrivals' /\ came \ backlog \subseteq came' \ backlog'
<1> USE DEF TlsTablesInv
<1>1. UNCHANGED fdOf
  BY TlsQuietKeeps
<1>2. CASE UNCHANGED <<came, backlog>>
  BY <1>1, <1>2 DEF Arrivals, IsOpen
<1>3. CASE \E c \in Conns : TlsAcceptFails(c)
  <2>1. came' = came /\ backlog' \subseteq backlog
    BY <1>3 DEF TlsAcceptFails, remotes
  <2> QED BY <1>1, <2>1 DEF Arrivals, IsOpen
<1>4. CASE \E c \in Conns : ClientConnects(c)
  <2>1. PICK c \in Conns : ClientConnects(c)
    BY <1>4
  <2>2. PICK n \in 0 .. NumConns : came = 1 .. n
    BY DEF Arrivals
  <2>3. c = n + 1
    BY <2>1, <2>2, FS_Interval DEF ClientConnects
  <2>4. came' = 1 .. (n + 1) /\ n + 1 \in 0 .. NumConns /\ c \notin came
    BY <2>1, <2>2, <2>3 DEF ClientConnects, Conns
  <2>5. came' = came \cup {c} /\ backlog' = backlog \cup {c}
    BY <2>1 DEF ClientConnects
  <2> QED BY <1>1, <2>4, <2>5 DEF Arrivals, IsOpen
<1> QED
  BY <1>2, <1>3, <1>4 DEF TlsQuiet, Run, Wait, WaitListen, WaitSock, WaitReturns, BatchEnds,
     DispatchListen, AcceptEnds, Stop, Remote, RemoteSends, RemoteReads, RemoteEnds,
     ClientHello, HandshakeWantsRead, HandshakeWantsWrite, TlsEvent, FlushDone, FlushAgain,
     ForwardDrained, remotes, listener

(* They leave a record of SSL to be repeated only where something is       *)
(* buffered.                                                               *)
LEMMA TlsQuietKeepsRetry ==
  ASSUME TlsTablesInv, Fresh, StackHeld, TlsQuiet
  PROVE  /\ retry' \in [Conns -> {"no", "stack", "buffer"}] /\ StackHeld'
         /\ \A s \in Socks : Unused(s)' => retry'[s[1]] = "no"
<1> USE DEF TlsTablesInv
<1>1. UNCHANGED <<fdOf, wbuf>> /\ came \ backlog \subseteq came' \ backlog'
  BY TlsQuietKeeps, TlsQuietKeepsArrivals
<1>2. \A s \in Socks : Unused(s)' => Unused(s)
  BY <1>1 DEF Unused, IsOpen
<1>3. CASE UNCHANGED retry
  BY <1>1, <1>2, <1>3 DEF TlsTypes, StackHeld, IsOpen, Fresh
<1>4. CASE FlushAgain
  <2>1. Connected(Here) /\ Connected(There) /\ Here \in Socks /\ There = Other(Here)
    BY <1>4, HereIsConnected DEF FlushAgain, Serving
  <2>2. retry' = Pending(Here, "buffer") /\ UNCHANGED <<came, backlog>>
    BY <1>4 DEF FlushAgain, remotes, listener
  <2>3. \A s \in Socks : s[1] = Here[1] => ~Unused(s)
    BY <2>1, SocksArePairs DEF Unused, Connected, Arrivals
  <2> QED BY <1>1, <1>2, <2>2, <2>3, SocksArePairs DEF Pending, TlsTypes, StackHeld, IsOpen, Fresh
<1> QED
  BY <1>3, <1>4 DEF TlsQuiet, tlsVars, TlsAcceptFails, ClientHello, HandshakeWantsRead,
     HandshakeWantsWrite, TlsEvent, FlushDone, ForwardDrained

(* So they keep the invariant.                                             *)
LEMMA TlsQuietKeepsInv ==
  ASSUME TlsInv, TlsQuiet
  PROVE  TlsInv'
<1> USE DEF TlsInv
<1>1. /\ UNCHANGED <<fdOf, connections, taken, out, pending, ssl, wbuf, overtook>>
      /\ AtWork' /\ sent' \in [Socks -> Nat]
  BY TlsQuietKeeps
<1>2. mask' \in [Socks -> SUBSET {"in", "out"}] /\ Buffered'
  BY TlsQuietKeepsMasks
<1>3. Arrivals' /\ came \ backlog \subseteq came' \ backlog'
  BY TlsQuietKeepsArrivals
<1>4. /\ retry' \in [Conns -> {"no", "stack", "buffer"}] /\ StackHeld'
      /\ \A s \in Socks : Unused(s)' => retry'[s[1]] = "no"
  BY TlsQuietKeepsRetry
<1>5. TlsTypes' /\ Numbers' /\ Entries'
  BY <1>1, <1>2, <1>4 DEF TlsTablesInv, TlsTypes, LoopTypes, Numbers, Entries, Connected, IsOpen
<1>6. Fresh'
  BY <1>1, <1>3, <1>4 DEF Fresh, Unused, IsOpen
<1>7. Ordered'
  <2>1. \A s \in Socks : InTurn(s)' = InTurn(s)
    BY <1>1 DEF InTurn, Connected, IsOpen
  <2> QED BY <1>1, <2>1 DEF Ordered
<1> QED BY <1>1, <1>2, <1>3, <1>4, <1>5, <1>6, <1>7 DEF TlsTablesInv
----------------------------------------------------------------------------
(* accept_connection: the client's socket gets a free number and is        *)
(* pending.                                                                *)
LEMMA TlsAcceptKeepsInv ==
  ASSUME TlsInv, NEW c \in Conns, TlsAccept(c)
  PROVE  TlsInv'
<1> USE DEF TlsInv, TlsTablesInv
<1> DEFINE u == Client(c)
           fd == Lowest({fdOf[s] : s \in Socks})
<1>1. u \in Socks /\ c \in backlog /\ ~IsOpen(u) /\ ~IsOpen(Other(u)) /\ Other(u) = Target(c)
  BY SocksArePairs DEF TlsAccept, Arrivals
<1>2. fd \in Fds \ {fdOf[s] : s \in Socks}
  BY <1>1, LowestIsFreeForOne DEF TlsTypes, LoopTypes
<1>3. /\ fdOf' = [fdOf EXCEPT ![u] = fd] /\ ssl' = ssl \cup {c} /\ pending' = pending \cup {fd}
      /\ backlog' = backlog \ {c} /\ pc = "accept"
      /\ mask' = [s \in Socks |-> IF s = u THEN {"in"} ELSE mask[s]]
      /\ UNCHANGED <<came, sent, taken, out, connections, pc, cur, wbuf, retry, overtook>>
  BY DEF TlsAccept, Register, remotes, bytes
<1> HIDE DEF fd
<1>4. fd \in Fds /\ fd # ListenFd /\ \A s \in Socks : fdOf[s] # fd
  BY <1>2 DEF Fds, ListenFd
<1>5. fdOf'[u] = fd /\ \A s \in Socks : s # u => fdOf'[s] = fdOf[s]
  BY <1>1, <1>3 DEF TlsTypes, LoopTypes
<1>6. \A s \in Socks : (IsOpen(s)' <=> IsOpen(s) \/ s = u) /\ (Connected(s)' <=> Connected(s))
  <2>1. \A s \in Socks : IsOpen(s)' <=> IsOpen(s) \/ s = u
    BY <1>4, <1>5 DEF IsOpen
  <2>2. Other(u) # u /\ \A s \in Socks : Other(s) \in Socks /\ (Other(s) = u => s = Other(u))
    BY <1>1, SocksArePairs
  <2> HIDE DEF u
  <2> QED BY <1>1, <2>1, <2>2 DEF Connected
<1> HIDE DEF u
<1>7. TlsTypes'
  BY <1>3, <1>4 DEF TlsTypes, LoopTypes
<1>8. Numbers'
  <2>1. ASSUME NEW s \in Socks, NEW t \in Socks, IsOpen(s)', fdOf'[s] = fdOf'[t] PROVE s = t
    BY <1>4, <1>5, <1>6, <2>1 DEF Numbers
  <2>2. \A d \in Conns : IsOpen(Target(d))' => IsOpen(Client(d))'
    BY <1>6, SocksArePairs DEF Numbers, u
  <2> QED BY <2>1, <2>2 DEF Numbers
<1>9. Entries'
  <2>1. DOMAIN connections' = {fdOf'[s] : s \in {t \in Socks : Connected(t)'}}
    BY <1>1, <1>3, <1>5, <1>6 DEF Entries, Connected
  <2>2. \A s \in Socks : Connected(s)' =>
           connections'[fdOf'[s]] = [peer |-> fdOf'[Other(s)], isClient |-> s[2] = "client"]
    <3>1. \A s \in Socks : Connected(s) => fdOf'[s] = fdOf[s] /\ fdOf'[Other(s)] = fdOf[Other(s)]
      BY <1>1, <1>5, SocksArePairs DEF Connected
    <3> QED BY <1>3, <1>6, <3>1 DEF Entries
  <2>3. pending' = {fdOf'[s] : s \in {t \in Socks : IsOpen(t)' /\ ~Connected(t)'}}
    <3>1. \A s \in Socks : IsOpen(s)' /\ ~Connected(s)' <=> s = u \/ (IsOpen(s) /\ ~Connected(s))
      BY <1>1, <1>6 DEF Connected
    <3>2. {fdOf'[s] : s \in {t \in Socks : IsOpen(t)' /\ ~Connected(t)'}}
             = {fdOf'[s] : s \in {t \in Socks : IsOpen(t) /\ ~Connected(t)}} \cup {fd}
      BY <1>1, <1>5, <3>1
    <3>3. {fdOf'[s] : s \in {t \in Socks : IsOpen(t) /\ ~Connected(t)}} = pending
      BY <1>1, <1>5 DEF Entries
    <3> QED BY <1>3, <3>2, <3>3
  <2>4. \A d \in Conns : d \in ssl' <=> IsOpen(Client(d))'
    BY <1>3, <1>6, SocksArePairs DEF Entries, u
  <2> QED BY <2>1, <2>2, <2>3, <2>4 DEF Entries
<1>10. Buffered'
  BY <1>1, <1>3, <1>6 DEF Buffered, Connected
<1>11. Arrivals'
  <2>1. \A s \in Socks : IsOpen(s)' => s[1] \in came' \ backlog'
    BY <1>1, <1>3, <1>6, SocksArePairs DEF Arrivals, u
  <2> QED BY <1>3, <2>1 DEF Arrivals
<1>12. AtWork'
  BY <1>3 DEF AtWork, Serving
<1>13. Fresh'
  <2>1. \A s \in Socks : s[1] = c => Unused(s)
    BY <1>1 DEF Unused
  <2>2. \A s \in Socks : Unused(s)' => Unused(s)
    <3>1. \A s \in Socks : s[1] # c => s # u /\ Other(s) # u
      BY SocksArePairs DEF u
    <3>2. \A s \in Socks : s[1] # c /\ Unused(s)' => Unused(s)
      BY <1>3, <1>6, <3>1, SocksArePairs DEF Unused
    <3> QED BY <2>1, <3>2
  <2> QED BY <1>3, <2>2 DEF Fresh
<1>14. Ordered'
  <2>1. \A s \in Socks : InTurn(s)' = InTurn(s)
    BY <1>3, <1>6 DEF InTurn
  <2> QED BY <1>3, <2>1 DEF Ordered
<1>15. StackHeld'
  <2>1. retry[c] = "no"
    <3>1. Unused(u) /\ u[1] = c
      BY <1>1, SocksArePairs DEF Unused, u
    <3> QED BY <1>1, <3>1 DEF Fresh
  <2>2. \A d \in Conns : d # c => Client(d) # u
    BY SocksArePairs DEF u
  <2> QED BY <1>3, <1>6, <2>1, <2>2, SocksArePairs DEF StackHeld
<1> QED BY <1>7, <1>8, <1>9, <1>10, <1>11, <1>12, <1>13, <1>14, <1>15

(* The handshake ends: the pair of the client moves to connections_.       *)
LEMMA HandshakeDoneKeepsInv ==
  ASSUME TlsInv, HandshakeDone
  PROVE  TlsInv'
<1> USE DEF TlsInv, TlsTablesInv
<1> DEFINE u == Greeting
           v == Other(Greeting)
           cfd == Head(batch).fd
           tfd == Lowest({fdOf[s] : s \in Socks})
<1>1. /\ u \in Socks /\ v \in Socks /\ fdOf[u] = cfd /\ IsOpen(u) /\ ~IsOpen(v)
      /\ u[1] \in Conns /\ u = Client(u[1]) /\ v = Target(u[1]) /\ v[1] = u[1]
      /\ Other(u) = v /\ Other(v) = u /\ u # v
      /\ (u[2] = "client") = TRUE /\ (v[2] = "client") = FALSE
  <2>1. Handshakes("dispatch")
    BY DEF HandshakeDone
  <2> QED BY <2>1, GreetingIsPending, SocksArePairs
<1>2. tfd \in Fds \ {fdOf[s] : s \in Socks}
  BY <1>1, LowestIsFreeForOne DEF TlsTypes, LoopTypes
<1>3. /\ fdOf' = [fdOf EXCEPT ![v] = tfd] /\ pending' = pending \ {cfd}
      /\ connections' = [fd \in DOMAIN connections \cup {cfd, tfd} |->
                           CASE fd = cfd -> [peer |-> tfd, isClient |-> TRUE]
                             [] fd = tfd -> [peer |-> cfd, isClient |-> FALSE]
                             [] OTHER -> connections[fd]]
      /\ mask' = [s \in Socks |-> IF s = v THEN {"in"} ELSE mask[s]]
      /\ pc' = "dispatch"
      /\ UNCHANGED <<came, backlog, sent, taken, out, ssl, wbuf, retry, overtook>>
  BY <1>1 DEF HandshakeDone, Handshakes, Takes, Register, ReadsHello, remotes, listener
<1> HIDE DEF tfd, cfd
<1>4. tfd \in Fds /\ tfd # ListenFd /\ tfd # cfd /\ \A s \in Socks : fdOf[s] # tfd
  BY <1>1, <1>2 DEF Fds, ListenFd
<1>5. fdOf'[v] = tfd /\ fdOf'[u] = cfd /\ \A s \in Socks : s # v => fdOf'[s] = fdOf[s]
  BY <1>1, <1>3 DEF TlsTypes, LoopTypes
<1>6. \A s \in Socks : /\ IsOpen(s)' <=> IsOpen(s) \/ s = v
                       /\ Connected(s)' <=> Connected(s) \/ s \in {u, v}
  <2>1. \A s \in Socks : IsOpen(s)' <=> IsOpen(s) \/ s = v
    BY <1>4, <1>5 DEF IsOpen
  <2>2. \A s \in Socks : Other(s) \in Socks /\ (Other(s) = v => s = u)
    BY <1>1, SocksArePairs
  <2> QED BY <1>1, <2>1, <2>2 DEF Connected
<1>7. \A s \in Socks : s \notin {u, v} => s[1] # u[1] /\ Other(s) \in Socks \ {u, v}
  BY <1>1, SocksArePairs
<1> HIDE DEF u, v
<1>8. TlsTypes'
  BY <1>3, <1>4 DEF TlsTypes, LoopTypes
<1>9. Numbers'
  <2>1. ASSUME NEW s \in Socks, NEW t \in Socks, IsOpen(s)', fdOf'[s] = fdOf'[t] PROVE s = t
    BY <1>4, <1>5, <1>6, <2>1 DEF Numbers
  <2>2. \A d \in Conns : IsOpen(Target(d))' => IsOpen(Client(d))'
    <3>1. \A d \in Conns : Target(d) = v => Client(d) = u
      BY <1>1, SocksArePairs
    <3> QED BY <1>1, <1>6, <3>1, SocksArePairs DEF Numbers
  <2> QED BY <2>1, <2>2 DEF Numbers
<1>10. Entries'
  <2>1. DOMAIN connections' = {fdOf'[s] : s \in {t \in Socks : Connected(t)'}}
    <3>1. DOMAIN connections' = DOMAIN connections \cup {cfd, tfd}
      BY <1>3
    <3>2. \A s \in Socks : Connected(s) => fdOf'[s] = fdOf[s]
      BY <1>1, <1>5 DEF Connected
    <3>3. DOMAIN connections = {fdOf'[s] : s \in {t \in Socks : Connected(t)}}
      BY <3>2 DEF Entries
    <3>4. {t \in Socks : Connected(t)'} = {t \in Socks : Connected(t)} \cup {u, v}
      BY <1>1, <1>6
    <3> QED BY <1>5, <3>1, <3>3, <3>4
  <2>2. ASSUME NEW s \in Socks, Connected(s)'
        PROVE  connections'[fdOf'[s]] = [peer |-> fdOf'[Other(s)], isClient |-> s[2] = "client"]
    <3>1. CASE s = u
      <4>1. connections'[cfd] = [peer |-> tfd, isClient |-> TRUE]
        BY <1>3, <1>4
      <4> QED BY <1>1, <1>5, <3>1, <4>1
    <3>2. CASE s = v
      <4>1. connections'[tfd] = [peer |-> cfd, isClient |-> FALSE]
        BY <1>3, <1>4
      <4> QED BY <1>1, <1>5, <3>2, <4>1
    <3>3. CASE s \notin {u, v}
      <4>1. Connected(s) /\ fdOf'[s] = fdOf[s] /\ fdOf'[Other(s)] = fdOf[Other(s)]
        BY <1>5, <1>6, <1>7, <2>2, <3>3
      <4>2. fdOf[s] \in DOMAIN connections /\ fdOf[s] \notin {cfd, tfd}
        BY <1>1, <1>4, <3>3, <4>1 DEF Entries, Numbers, Connected
      <4>3. connections'[fdOf[s]] = connections[fdOf[s]]
        BY <1>3, <4>2
      <4> QED BY <4>1, <4>3 DEF Entries
    <3> QED BY <3>1, <3>2, <3>3
  <2>3. pending' = {fdOf'[s] : s \in {t \in Socks : IsOpen(t)' /\ ~Connected(t)'}}
    <3>1. \A s \in Socks : IsOpen(s)' /\ ~Connected(s)' <=> IsOpen(s) /\ ~Connected(s) /\ s # u
      BY <1>1, <1>6
    <3>2. \A s \in Socks : IsOpen(s) => fdOf'[s] = fdOf[s]
      BY <1>1, <1>5
    <3>3. \A s \in Socks : IsOpen(s) /\ fdOf[s] = cfd => s = u
      BY <1>1 DEF Numbers
    <3> QED BY <1>1, <1>3, <3>1, <3>2, <3>3 DEF Entries
  <2>4. \A d \in Conns : d \in ssl' <=> IsOpen(Client(d))'
    <3>1. \A d \in Conns : Client(d) \in Socks /\ Client(d) # v
      BY <1>1, SocksArePairs
    <3> QED BY <1>3, <1>6, <3>1 DEF Entries
  <2> QED BY <2>1, <2>2, <2>3, <2>4 DEF Entries
<1>11. Buffered'
  BY <1>1, <1>3, <1>6 DEF Buffered, Connected
<1>12. Arrivals'
  BY <1>1, <1>3, <1>6 DEF Arrivals
<1>13. AtWork'
  BY <1>3 DEF AtWork, Serving
<1>14. Fresh'
  <2>1. ASSUME NEW s \in Socks, Unused(s)' PROVE Unused(s)
    <3>1. CASE s \in {u, v}
      BY <1>1, <3>1 DEF Unused
    <3>2. CASE s \notin {u, v}
      BY <1>3, <1>6, <1>7, <2>1, <3>2 DEF Unused
    <3> QED BY <3>1, <3>2
  <2> QED BY <1>3, <2>1 DEF Fresh
<1>15. Ordered'
  <2>1. ASSUME NEW s \in Socks, InTurn(s) PROVE InTurn(s)'
    <3>1. CASE s \in {u, v}
      <4>1. Unused(s) /\ Unused(Other(s)) /\ ~Connected(s) /\ Other(s) \in Socks
        BY <1>1, <3>1 DEF Unused, Connected
      <4>2. out[s] = <<>> /\ taken[Other(s)] = 0 /\ wbuf[s] = <<>>
        BY <4>1 DEF Fresh, Buffered
      <4>3. Numbered(<<>>, Other(s), 0) /\ Len(<<>>) = 0
        BY DEF Numbered
      <4> QED BY <1>3, <4>2, <4>3 DEF InTurn, Turn
    <3>2. CASE s \notin {u, v}
      BY <1>3, <1>6, <2>1, <3>2 DEF InTurn
    <3> QED BY <3>1, <3>2
  <2> QED BY <1>3, <2>1 DEF Ordered
<1>16. StackHeld'
  <2>1. \A d \in Conns : Client(d) \in Socks /\ Client(d) # v
    BY <1>1, SocksArePairs
  <2> QED BY <1>3, <1>6, <2>1 DEF StackHeld
<1> QED BY <1>8, <1>9, <1>10, <1>11, <1>12, <1>13, <1>14, <1>15, <1>16
----------------------------------------------------------------------------
(* Both tables forget a connection when its sockets are closed.            *)
LEMMA ClosedPairLeavesTables ==
  ASSUME TlsTablesInv, NEW u \in Socks, IsOpen(u),
         fdOf' = [t \in Socks |-> IF t \in {u, Other(u)} THEN ListenFd ELSE fdOf[t]],
         DOMAIN connections' = DOMAIN connections \ {fdOf[u], fdOf[Other(u)]},
         \A fd \in DOMAIN connections' : connections'[fd] = connections[fd],
         pending' = pending \ {fdOf[u], fdOf[Other(u)]}, ssl' = ssl \ {u[1]},
         \A t \in Socks \ {u, Other(u)} : mask'[t] = mask[t] /\ wbuf'[t] = wbuf[t],
         wbuf'[u] = <<>>, wbuf'[Other(u)] = <<>>,
         pc' = "dispatch", UNCHANGED <<came, backlog>>
  PROVE  /\ Numbers' /\ Entries' /\ Buffered' /\ Arrivals' /\ AtWork'
         /\ \A t \in Socks : /\ IsOpen(t)' <=> IsOpen(t) /\ t \notin {u, Other(u)}
                             /\ Connected(t)' <=> Connected(t) /\ t \notin {u, Other(u)}
<1> USE DEF TlsTablesInv
<1> DEFINE v == Other(u)
<1>1. /\ v \in Socks /\ Other(v) = u /\ u # v /\ v[1] = u[1]
      /\ \A t \in Socks : t \notin {u, v} => t[1] # u[1] /\ Other(t) \in Socks \ {u, v}
  BY SocksArePairs
<1> HIDE DEF v
<1>2. \A t \in Socks : /\ IsOpen(t)' <=> IsOpen(t) /\ t \notin {u, v}
                       /\ t \notin {u, v} => fdOf'[t] = fdOf[t]
  BY DEF IsOpen, v
<1>3. \A t \in Socks : Connected(t)' <=> Connected(t) /\ t \notin {u, v}
  BY <1>1, <1>2 DEF Connected
<1>4. \A t \in Socks : IsOpen(t) /\ fdOf[t] \in {fdOf[u], fdOf[v]} => t \in {u, v}
  BY <1>1 DEF Numbers
<1>5. Numbers'
  <2>1. ASSUME NEW s \in Socks, NEW t \in Socks, IsOpen(s)', fdOf'[s] = fdOf'[t] PROVE s = t
    <3>1. IsOpen(t)'
      BY <2>1 DEF IsOpen
    <3> QED BY <1>2, <2>1, <3>1 DEF Numbers
  <2>2. \A d \in Conns : IsOpen(Target(d))' => IsOpen(Client(d))'
    <3>1. \A d \in Conns : Client(d) \in {u, v} => Target(d) \in {u, v}
      BY <1>1, SocksArePairs
    <3> QED BY <1>2, <3>1, SocksArePairs DEF Numbers
  <2> QED BY <2>1, <2>2 DEF Numbers
<1>6. Entries'
  <2>1. DOMAIN connections' = {fdOf'[s] : s \in {t \in Socks : Connected(t)'}}
    <3>1. DOMAIN connections' = DOMAIN connections \ {fdOf[u], fdOf[v]}
      BY DEF v
    <3>2. \A t \in Socks : Connected(t) /\ fdOf[t] \notin {fdOf[u], fdOf[v]}
             <=> Connected(t)'
      BY <1>3, <1>4 DEF Connected
    <3>3. \A t \in Socks : Connected(t)' => fdOf'[t] = fdOf[t]
      BY <1>2, <1>3
    <3>4. DOMAIN connections = {fdOf[s] : s \in {t \in Socks : Connected(t)}}
      BY DEF Entries
    <3> DEFINE D == DOMAIN connections
               E == DOMAIN connections'
               In(t) == Connected(t)
               Stays(t) == Connected(t)'
               num(t) == fdOf'[t]
    <3>5. \A x : x \in E <=> \E t \in Socks : Stays(t) /\ num(t) = x
      <4>1. \A x : x \in D <=> \E t \in Socks : In(t) /\ fdOf[t] = x
        BY <3>4
      <4>2. \A t \in Socks : In(t) /\ fdOf[t] \notin {fdOf[u], fdOf[v]} <=> Stays(t)
        BY <3>2
      <4>3. \A t \in Socks : Stays(t) => num(t) = fdOf[t]
        BY <3>3
      <4>4. E = D \ {fdOf[u], fdOf[v]}
        BY <3>1
      <4> HIDE DEF D, E, In, Stays, num
      <4> QED BY <4>1, <4>2, <4>3, <4>4
    <3>6. E = {num(s) : s \in {t \in Socks : Stays(t)}}
      <4> HIDE DEF E, Stays, num
      <4> QED BY <3>5
    <3> QED BY <3>6
  <2>2. ASSUME NEW s \in Socks, Connected(s)'
        PROVE  connections'[fdOf'[s]] = [peer |-> fdOf'[Other(s)], isClient |-> s[2] = "client"]
    <3>1. Connected(s) /\ fdOf'[s] = fdOf[s] /\ fdOf'[Other(s)] = fdOf[Other(s)]
      BY <1>1, <1>2, <1>3, <2>2
    <3>2. fdOf[s] \in DOMAIN connections'
      BY <2>1, <2>2, <3>1
    <3> QED BY <3>1, <3>2 DEF Entries
  <2>3. pending' = {fdOf'[s] : s \in {t \in Socks : IsOpen(t)' /\ ~Connected(t)'}}
    <3>1. pending' = pending \ {fdOf[u], fdOf[v]}
      BY DEF v
    <3>2. \A t \in Socks : IsOpen(t)' /\ ~Connected(t)'
             <=> IsOpen(t) /\ ~Connected(t) /\ t \notin {u, v}
      BY <1>2, <1>3
    <3> QED BY <1>2, <1>4, <3>1, <3>2 DEF Entries
  <2>4. \A d \in Conns : d \in ssl' <=> IsOpen(Client(d))'
    <3>1. \A d \in Conns : Client(d) \in Socks /\ (Client(d) \in {u, v} <=> d = u[1])
      BY <1>1, SocksArePairs
    <3> QED BY <1>2, <3>1 DEF Entries
  <2> QED BY <2>1, <2>2, <2>3, <2>4 DEF Entries
<1>7. Buffered'
  BY <1>3 DEF Buffered, v
<1>8. Arrivals' /\ AtWork'
  BY <1>2 DEF Arrivals, AtWork, Serving
<1> QED BY <1>2, <1>3, <1>5, <1>6, <1>7, <1>8 DEF v

(* What passed through a closed connection stays in order.                 *)
LEMMA ClosedPairKeepsOrder ==
  ASSUME TlsInv, NEW u \in Socks, IsOpen(u),
         \A t \in Socks : /\ IsOpen(t)' <=> IsOpen(t) /\ t \notin {u, Other(u)}
                          /\ Connected(t)' <=> Connected(t) /\ t \notin {u, Other(u)},
         \A t \in Socks \ {u, Other(u)} : taken'[t] = taken[t] /\ wbuf'[t] = wbuf[t],
         UNCHANGED <<came, backlog, out, retry, overtook>>
  PROVE  Fresh' /\ Ordered' /\ StackHeld'
<1> USE DEF TlsInv, TlsTablesInv
<1> DEFINE v == Other(u)
<1>1. /\ v \in Socks /\ Other(v) = u /\ v[1] = u[1]
      /\ \A t \in Socks : t \notin {u, v} => t[1] # u[1] /\ Other(t) \in Socks \ {u, v}
  BY SocksArePairs
<1>2. \A t \in Socks : /\ IsOpen(t)' <=> IsOpen(t) /\ t \notin {u, v}
                       /\ Connected(t)' <=> Connected(t) /\ t \notin {u, v}
                       /\ t \notin {u, v} => taken'[t] = taken[t] /\ wbuf'[t] = wbuf[t]
  OBVIOUS
<1> HIDE DEF v
<1>3. ASSUME NEW s \in Socks, Unused(s)' PROVE Unused(s) /\ s \notin {u, v}
  <2>1. CASE s \in {u, v}
    <3>1. ~IsOpen(s)' /\ ~IsOpen(Other(s))' /\ s[1] = u[1]
      BY <1>1, <1>2, <2>1 DEF v
    <3>2. s[1] \in came' \ backlog'
      BY <3>1 DEF Arrivals
    <3> QED BY <1>3, <3>1, <3>2 DEF Unused
  <2>2. CASE s \notin {u, v}
    BY <1>1, <1>2, <1>3, <2>2 DEF Unused
  <2> QED BY <2>1, <2>2
<1>4. Fresh'
  BY <1>2, <1>3 DEF Fresh
<1>5. ASSUME NEW s \in Socks, InTurn(s) PROVE InTurn(s)'
  BY <1>1, <1>2, <1>5 DEF InTurn
<1>6. StackHeld'
  BY <1>2, SocksArePairs DEF StackHeld
<1> QED BY <1>4, <1>5, <1>6 DEF Ordered

(* A handshake fails: the client was pending, and is closed.               *)
LEMMA HandshakeFailsKeepsInv ==
  ASSUME TlsInv, HandshakeFails
  PROVE  TlsInv'
<1> USE DEF TlsInv, TlsTablesInv
<1> DEFINE u == Greeting
           v == Other(Greeting)
<1>1. /\ u \in Socks /\ v \in Socks /\ fdOf[u] = Head(batch).fd /\ IsOpen(u) /\ ~IsOpen(v)
      /\ fdOf[v] = ListenFd /\ Other(v) = u /\ v = Other(u)
  <2>1. Handshakes("dispatch")
    BY DEF HandshakeFails
  <2> QED BY <2>1, GreetingIsPending, SocksArePairs DEF IsOpen
<1>2. /\ pending' = pending \ {fdOf[u]} /\ ssl' = ssl \ {u[1]} /\ pc' = "dispatch"
      /\ fdOf' = [s \in Socks |-> IF s \in {u} THEN ListenFd ELSE fdOf[s]]
      /\ mask' = [s \in Socks |-> IF s \in {u} THEN {} ELSE mask[s]]
      /\ UNCHANGED <<came, backlog, sent, taken, out, connections, wbuf, retry, overtook>>
  BY <1>1 DEF HandshakeFails, Handshakes, Takes, CloseSocks, ReadsHello, remotes, listener
<1> HIDE DEF u, v
<1>3. TlsTypes'
  BY <1>2 DEF TlsTypes, LoopTypes
<1>4. fdOf' = [s \in Socks |-> IF s \in {u, v} THEN ListenFd ELSE fdOf[s]]
  BY <1>1, <1>2
<1>5. \A s \in Socks : IsOpen(s) /\ fdOf[s] = fdOf[u] => s = u
  BY <1>1 DEF Numbers
<1>6. fdOf[u] \notin DOMAIN connections /\ ListenFd \notin DOMAIN connections /\ ListenFd \notin pending
  <2>1. ~Connected(u)
    BY <1>1 DEF Connected
  <2> QED BY <1>5, <2>1 DEF Entries, Connected, IsOpen
<1>7. wbuf[u] = <<>> /\ wbuf[v] = <<>>
  BY <1>1 DEF Buffered, Connected
<1>8. v = Other(u)
  BY <1>1
<1>9. /\ Numbers' /\ Entries' /\ Buffered' /\ Arrivals' /\ AtWork'
      /\ \A t \in Socks : /\ IsOpen(t)' <=> IsOpen(t) /\ t \notin {u, Other(u)}
                          /\ Connected(t)' <=> Connected(t) /\ t \notin {u, Other(u)}
  <2>1. DOMAIN connections' = DOMAIN connections \ {fdOf[u], fdOf[Other(u)]}
    BY <1>1, <1>2, <1>6, <1>8
  <2>2. pending' = pending \ {fdOf[u], fdOf[Other(u)]}
    BY <1>1, <1>2, <1>6, <1>8
  <2>3. \A t \in Socks \ {u, Other(u)} : mask'[t] = mask[t] /\ wbuf'[t] = wbuf[t]
    BY <1>2
  <2> QED BY <1>1, <1>2, <1>4, <1>7, <1>8, <2>1, <2>2, <2>3, ClosedPairLeavesTables
<1>10. Fresh' /\ Ordered' /\ StackHeld'
  BY <1>1, <1>2, <1>9, ClosedPairKeepsOrder
<1> QED BY <1>3, <1>9, <1>10

(* What close_connection does with a descriptor of connections_.           *)
LEMMA TlsCloseCloses ==
  ASSUME TlsTablesInv, NEW fd \in DOMAIN connections, TlsClose(fd), pc' = "dispatch",
         UNCHANGED <<came, backlog, pending>>
  PROVE  LET u == SockAt(fd)
         IN  /\ u \in Socks /\ Connected(u) /\ fdOf[u] = fd
             /\ TlsTypes' <=> LoopTypes' /\ retry' \in [Conns -> {"no", "stack", "buffer"}]
             /\ fdOf' \in [Socks -> Fds \cup {ListenFd}]
             /\ \A t \in Socks \ {u, Other(u)} : wbuf'[t] = wbuf[t]
             /\ Numbers' /\ Entries' /\ Buffered' /\ Arrivals' /\ AtWork'
             /\ \A t \in Socks : /\ IsOpen(t)' <=> IsOpen(t) /\ t \notin {u, Other(u)}
                                 /\ Connected(t)' <=> Connected(t) /\ t \notin {u, Other(u)}
<1> USE DEF TlsTablesInv
<1> DEFINE u == SockAt(fd)
           v == Other(SockAt(fd))
<1>1. PICK s \in Socks : Connected(s) /\ fdOf[s] = fd
  BY DEF Entries
<1>2. /\ u \in Socks /\ Connected(u) /\ IsOpen(u) /\ fdOf[u] = fd
      /\ v \in Socks /\ v = Other(u) /\ Connected(v) /\ Other(v) = u
  <2>1. u \in Socks /\ fdOf[u] = fd
    BY <1>1 DEF SockAt
  <2>2. u = s
    BY <1>1, <2>1 DEF Numbers, Connected
  <2> QED BY <1>1, <2>2, SocksArePairs DEF Connected
<1>3. connections[fd].peer = fdOf[v]
  <2>1. PICK b : connections[fd] = [peer |-> fdOf[v], isClient |-> b]
    BY <1>2 DEF Entries
  <2> QED BY <2>1
<1>4. /\ fdOf' = [t \in Socks |-> IF t \in {u, v} THEN ListenFd ELSE fdOf[t]]
      /\ mask' = [t \in Socks |-> IF t \in {u, v} THEN {} ELSE mask[t]]
      /\ connections' = [f \in DOMAIN connections \ {fdOf[u], fdOf[v]} |-> connections[f]]
      /\ ssl' = ssl \ {u[1]} /\ wbuf' = [wbuf EXCEPT ![u] = <<>>, ![v] = <<>>]
  BY <1>2, <1>3 DEF TlsClose, CloseSocks
<1> HIDE DEF u, v
<1>5. fdOf' \in [Socks -> Fds \cup {ListenFd}] /\ mask' \in [Socks -> SUBSET {"in", "out"}]
  BY <1>4 DEF TlsTypes, LoopTypes
<1>6. /\ wbuf' \in [Socks -> Seq(Socks \X Nat)] /\ wbuf'[u] = <<>> /\ wbuf'[v] = <<>>
      /\ \A t \in Socks \ {u, v} : mask'[t] = mask[t] /\ wbuf'[t] = wbuf[t]
  <2>1. wbuf \in [Socks -> Seq(Socks \X Nat)] /\ <<>> \in Seq(Socks \X Nat)
    BY DEF TlsTypes
  <2> DEFINE T == Seq(Socks \X Nat)
  <2> HIDE DEF T
  <2>2. wbuf' \in [Socks -> T] /\ wbuf'[u] = <<>> /\ wbuf'[v] = <<>>
    BY <1>2, <1>4, <2>1 DEF T
  <2>3. \A t \in Socks \ {u, v} : mask'[t] = mask[t]
    BY <1>4
  <2>4. \A t \in Socks \ {u, v} : wbuf'[t] = wbuf[t]
    BY <1>4, <2>1 DEF T
  <2> QED BY <2>2, <2>3, <2>4 DEF T
<1>7. pending' = pending \ {fdOf[u], fdOf[v]}
  <2>1. fdOf[u] \notin pending /\ fdOf[v] \notin pending
    BY <1>2 DEF Entries, Numbers, Connected
  <2> QED BY <2>1
<1>8. /\ Numbers' /\ Entries' /\ Buffered' /\ Arrivals' /\ AtWork'
      /\ \A t \in Socks : /\ IsOpen(t)' <=> IsOpen(t) /\ t \notin {u, Other(u)}
                          /\ Connected(t)' <=> Connected(t) /\ t \notin {u, Other(u)}
  <2>1. DOMAIN connections' = DOMAIN connections \ {fdOf[u], fdOf[Other(u)]}
    BY <1>2, <1>4
  <2>2. \A f \in DOMAIN connections' : connections'[f] = connections[f]
    BY <1>4
  <2> QED BY <1>2, <1>4, <1>6, <1>7, <2>1, <2>2, ClosedPairLeavesTables
<1> QED BY <1>2, <1>5, <1>6, <1>8 DEF TlsTypes, u

(* A connection is closed by an event, or when reading or writing fails.   *)
LEMMA TlsClosingKeepsInv ==
  ASSUME TlsInv, TlsHangup \/ FlushFails \/ ForwardFails \/ ForwardEnds
  PROVE  TlsInv'
<1> USE DEF TlsInv
<1>1. pc' = "dispatch" /\ UNCHANGED <<came, backlog, sent, out, pending, retry, overtook>>
  BY DEF TlsHangup, FlushFails, ForwardFails, ForwardEnds, Takes, Returns, remotes, listener, bytes
<1>2. ASSUME NEW fd \in DOMAIN connections, TlsClose(fd),
             \/ taken' = taken
             \/ SockAt(fd) \in Socks /\ taken' = [taken EXCEPT ![SockAt(fd)] = @ + 1]
      PROVE  TlsInv'
  <2> DEFINE u == SockAt(fd)
  <2>1. /\ u \in Socks /\ Connected(u)
        /\ TlsTypes' <=> LoopTypes' /\ retry' \in [Conns -> {"no", "stack", "buffer"}]
        /\ fdOf' \in [Socks -> Fds \cup {ListenFd}]
        /\ \A t \in Socks \ {u, Other(u)} : wbuf'[t] = wbuf[t]
        /\ Numbers' /\ Entries' /\ Buffered' /\ Arrivals' /\ AtWork'
        /\ \A t \in Socks : /\ IsOpen(t)' <=> IsOpen(t) /\ t \notin {u, Other(u)}
                            /\ Connected(t)' <=> Connected(t) /\ t \notin {u, Other(u)}
    BY <1>1, <1>2, TlsCloseCloses
  <2>2. taken' \in [Socks -> Nat] /\ \A t \in Socks \ {u, Other(u)} : taken'[t] = taken[t]
    BY <1>2 DEF TlsTablesInv, TlsTypes, LoopTypes
  <2> HIDE DEF u
  <2>3. TlsTypes'
    BY <1>1, <2>1, <2>2 DEF TlsTablesInv, TlsTypes, LoopTypes
  <2>4. Fresh' /\ Ordered' /\ StackHeld'
    <3>1. IsOpen(u)
      BY <2>1 DEF Connected
    <3> QED BY <1>1, <2>1, <2>2, <3>1, ClosedPairKeepsOrder
  <2> QED BY <2>1, <2>3, <2>4 DEF TlsTablesInv
<1>3. CASE TlsHangup /\ Head(batch).fd \notin DOMAIN connections
  <2>1. UNCHANGED <<fdOf, mask, connections, ssl, wbuf, taken>>
    BY <1>3 DEF TlsHangup, TlsClose, epoll, bytes
  <2>2. TlsTablesInv'
    <3>1. TlsTypes' /\ Arrivals' /\ AtWork'
      BY <1>1, <2>1 DEF TlsTablesInv, TlsTypes, LoopTypes, Arrivals, AtWork, Serving, IsOpen
    <3>2. Numbers' /\ Entries' /\ Buffered'
      BY <1>1, <2>1 DEF TlsTablesInv, Numbers, Entries, Buffered, Connected, IsOpen
    <3> QED BY <3>1, <3>2 DEF TlsTablesInv
  <2>3. Fresh' /\ Ordered' /\ StackHeld'
    BY <1>1, <2>1 DEF Fresh, Unused, Ordered, InTurn, StackHeld, Connected, IsOpen
  <2> QED BY <2>2, <2>3
<1>4. CASE TlsHangup /\ Head(batch).fd \in DOMAIN connections
  BY <1>2, <1>4 DEF TlsHangup, bytes
<1>5. CASE FlushFails \/ ForwardFails \/ ForwardEnds
  <2>1. pc \in Serving
    BY <1>5 DEF FlushFails, ForwardFails, ForwardEnds, Reads, Serving
  <2>2. cur.fd \in DOMAIN connections /\ Here \in Socks
    BY <2>1, HereIsConnected DEF TlsTablesInv, AtWork
  <2>3. TlsClose(cur.fd) /\ (taken' = taken \/ taken' = [taken EXCEPT ![Here] = @ + 1])
    BY <1>5 DEF FlushFails, ForwardFails, ForwardEnds, Reads, bytes
  <2> QED BY <1>2, <2>2, <2>3 DEF Here
<1> QED BY <1>3, <1>4, <1>5
----------------------------------------------------------------------------
(* Appending the next chunk keeps chunks numbered, and so does taking the  *)
(* first.                                                                  *)
LEMMA AppendNumbered ==
  ASSUME NEW q \in Seq(Socks \X Nat), NEW s, NEW k \in Nat, NEW m \in Nat, m = k + Len(q) + 1,
         Numbered(q, s, k)
  PROVE  Len(Append(q, <<s, m>>)) = Len(q) + 1 /\ Numbered(Append(q, <<s, m>>), s, k)
<1> DEFINE r == Append(q, <<s, m>>)
           f == [n \in 1 .. Len(q) + 1 |-> <<s, k + n>>]
<1>1. Len(q) \in Nat /\ Len(r) = Len(q) + 1 /\ DOMAIN r = 1 .. Len(q) + 1
  OBVIOUS
<1>2. ASSUME NEW n \in 1 .. Len(q) + 1 PROVE r[n] = f[n]
  <2>1. CASE n = Len(q) + 1
    <3>1. r[n] = <<s, m>>
      BY <1>1, <2>1
    <3>2. k + n = m
      BY <1>1, <2>1
    <3> QED BY <3>1, <3>2
  <2>2. CASE n \in 1 .. Len(q)
    <3>1. r[n] = q[n]
      BY <1>1, <2>2
    <3>2. q[n] = <<s, k + n>>
      BY <2>2 DEF Numbered
    <3> QED BY <3>1, <3>2
  <2> QED BY <1>1, <2>1, <2>2
<1>3. r = [n \in DOMAIN r |-> r[n]]
  OBVIOUS
<1> QED BY <1>1, <1>2, <1>3 DEF Numbered

(* The first of numbered chunks, and the rest.                             *)
LEMMA TailNumbered ==
  ASSUME NEW q \in Seq(Socks \X Nat), NEW s, NEW k \in Nat, q # <<>>, Numbered(q, s, k)
  PROVE  /\ Head(q) = <<s, k + 1>> /\ Len(Tail(q)) = Len(q) - 1
         /\ Numbered(Tail(q), s, k + 1)
<1>1. Len(q) \in Nat \ {0} /\ Head(q) = q[1] /\ Len(Tail(q)) = Len(q) - 1
  OBVIOUS
<1>2. /\ Tail(q) = [n \in 1 .. Len(q) - 1 |-> Tail(q)[n]]
      /\ \A n \in 1 .. Len(q) - 1 : Tail(q)[n] = q[n + 1]
  <2>1. Tail(q) \in Seq(Socks \X Nat)
    BY <1>1
  <2>2. Tail(q) = [n \in 1 .. Len(Tail(q)) |-> Tail(q)[n]]
    <3> DEFINE t == Tail(q)
    <3> HIDE DEF t
    <3>1. t \in Seq(Socks \X Nat)
      BY <2>1 DEF t
    <3>2. t = [n \in 1 .. Len(t) |-> t[n]]
      BY <3>1
    <3> QED BY <3>2 DEF t
  <2>3. \A n \in 1 .. Len(q) - 1 : Tail(q)[n] = q[n + 1]
    BY <1>1
  <2> QED BY <1>1, <2>2, <2>3
<1>3. \A n \in 1 .. Len(q) : q[n] = <<s, k + n>>
  BY DEF Numbered
<1>4. \A n \in 1 .. Len(q) - 1 : q[n + 1] = <<s, (k + 1) + n>>
  <2> SUFFICES ASSUME NEW n \in 1 .. Len(q) - 1 PROVE q[n + 1] = <<s, (k + 1) + n>>
    OBVIOUS
  <2>1. q[n + 1] = <<s, k + (n + 1)>>
    BY <1>1, <1>3
  <2>2. k + (n + 1) = (k + 1) + n
    BY <1>1
  <2> QED BY <2>1, <2>2
<1>5. Tail(q) = [n \in 1 .. Len(q) - 1 |-> <<s, (k + 1) + n>>]
  BY <1>2, <1>4
<1>6. Head(q) = <<s, k + 1>>
  BY <1>1, <1>3
<1> QED BY <1>1, <1>5, <1>6 DEF Numbered

(* A chunk goes from the buffer out, straight out, or into the buffer.     *)
LEMMA ChunksStayNumbered ==
  ASSUME NEW o \in Seq(Socks \X Nat), NEW w \in Seq(Socks \X Nat), NEW s, NEW n,
         Turn(o, w, s, n)
  PROVE  /\ w # <<>> => Turn(Append(o, Head(w)), Tail(w), s, n)
         /\ w = <<>> => Turn(Append(o, <<s, n + 1>>), w, s, n + 1)
         /\ Turn(o, Append(w, <<s, n + 1>>), s, n + 1)
<1> USE DEF Turn
<1>1. Len(o) \in Nat /\ Len(w) \in Nat /\ n \in Nat
  OBVIOUS
<1>2. Len(Append(o, <<s, Len(o) + 1>>)) = Len(o) + 1 /\ Numbered(Append(o, <<s, Len(o) + 1>>), s, 0)
  <2>1. Len(o) + 1 \in Nat /\ Len(o) + 1 = 0 + Len(o) + 1
    BY <1>1
  <2> QED BY <2>1, AppendNumbered
<1>3. ASSUME w # <<>>
      PROVE  Turn(Append(o, Head(w)), Tail(w), s, n)
  <2>1. /\ Head(w) = <<s, Len(o) + 1>> /\ Len(Tail(w)) = Len(w) - 1
        /\ Numbered(Tail(w), s, Len(o) + 1)
    BY <1>1, <1>3, TailNumbered
  <2>2. n = (Len(o) + 1) + (Len(w) - 1)
    BY <1>1
  <2> QED BY <1>2, <2>1, <2>2
<1>4. ASSUME w = <<>>
      PROVE  Turn(Append(o, <<s, n + 1>>), w, s, n + 1)
  <2>1. Len(w) = 0 /\ n = Len(o)
    BY <1>1, <1>4
  <2>2. \A k : Numbered(w, s, k)
    BY <1>4 DEF Numbered
  <2> QED BY <1>1, <1>2, <2>1, <2>2
<1>5. Turn(o, Append(w, <<s, n + 1>>), s, n + 1)
  <2>1. n + 1 \in Nat /\ n + 1 = Len(o) + Len(w) + 1
    BY <1>1
  <2>2. Len(Append(w, <<s, n + 1>>)) = Len(w) + 1 /\ Numbered(Append(w, <<s, n + 1>>), s, Len(o))
    BY <1>1, <2>1, AppendNumbered
  <2>3. n + 1 = Len(o) + (Len(w) + 1)
    BY <1>1
  <2> QED BY <2>2, <2>3
<1> QED BY <1>3, <1>4, <1>5

(* A chunk is read, written or buffered.                                   *)
Transfers == FlushWrite \/ ForwardWrites \/ ForwardBuffers \/ ForwardDrops

(* Reading, writing and buffering keep the tables.                         *)
LEMMA TransfersKeepTables ==
  ASSUME TlsInv, Transfers
  PROVE  TlsTablesInv'
<1> USE DEF TlsInv, TlsTablesInv
<1>1. UNCHANGED <<fdOf, connections, pending, ssl, came, backlog, sent>>
  BY DEF Transfers, FlushWrite, ForwardWrites, ForwardBuffers, ForwardDrops, remotes, listener
<1>2. pc \in Serving /\ (pc' = "dispatch" \/ (pc' \in Serving /\ cur' = cur))
  BY DEF Transfers, FlushWrite, ForwardWrites, ForwardBuffers, ForwardDrops, Reads, Returns, Serving
<1>3. /\ Here \in Socks /\ There \in Socks /\ There = Other(Here) /\ Here = Other(There)
      /\ Connected(Here) /\ Connected(There)
  BY <1>2, HereIsConnected
<1>4. Numbers' /\ Entries' /\ Arrivals' /\ AtWork'
  <2>1. Numbers' /\ Arrivals' /\ AtWork'
    BY <1>1, <1>2 DEF Numbers, Arrivals, AtWork, Serving, IsOpen
  <2>2. Entries'
    BY <1>1 DEF Entries, Connected, IsOpen
  <2> QED BY <2>1, <2>2
<1>5. \A s \in Socks : Connected(s)' <=> Connected(s)
  BY <1>1 DEF Connected, IsOpen
<1>6. Chunk \in Socks \X Nat
  BY <1>3 DEF Chunk, TlsTypes, LoopTypes
<1>7. taken' \in [Socks -> Nat]
  <2>1. taken' = taken \/ taken' = [taken EXCEPT ![Here] = @ + 1]
    BY DEF Transfers, FlushWrite, ForwardWrites, ForwardBuffers, ForwardDrops, Reads
  <2>2. taken \in [Socks -> Nat] /\ taken[Here] + 1 \in Nat
    BY <1>3 DEF TlsTypes, LoopTypes
  <2> QED BY <2>1, <2>2
<1>8. retry' \in [Conns -> {"no", "stack", "buffer"}]
  <2>1. \/ retry' = retry
        \/ \E s \in Socks, array \in {"no", "stack", "buffer"} : retry' = Pending(s, array)
    BY <1>3 DEF Transfers, FlushWrite, ForwardWrites, ForwardBuffers, ForwardDrops
  <2> QED BY <2>1 DEF Pending, TlsTypes
<1>9. /\ out' \in [Socks -> Seq(Socks \X Nat)] /\ wbuf' \in [Socks -> Seq(Socks \X Nat)]
      /\ mask' \in [Socks -> SUBSET {"in", "out"}] /\ Buffered'
  <2> DEFINE T == Seq(Socks \X Nat)
  <2>1. out \in [Socks -> T] /\ wbuf \in [Socks -> T] /\ mask \in [Socks -> SUBSET {"in", "out"}]
    BY DEF TlsTypes, LoopTypes
  <2>2. \A q \in T, e \in Socks \X Nat : Append(q, e) \in T
    OBVIOUS
  <2>3. \A q \in T : q # <<>> => Head(q) \in Socks \X Nat /\ Tail(q) \in T /\ Last(q) \in Socks \X Nat
    BY DEF Last
  <2> HIDE DEF T
  <2>4. CASE FlushWrite
    <3>1. /\ out' = [out EXCEPT ![Here] = Append(@, Head(wbuf[Here]))] /\ wbuf[Here] # <<>>
          /\ wbuf' = [wbuf EXCEPT ![Here] = Tail(@)] /\ mask' = mask
      BY <2>4 DEF FlushWrite, epoll
    <3>2. out' \in [Socks -> T] /\ wbuf' \in [Socks -> T]
      BY <1>3, <2>1, <2>2, <2>3, <3>1
    <3>3. Buffered'
      BY <1>3, <1>5, <2>1, <3>1 DEF Buffered
    <3> QED BY <2>1, <3>1, <3>2, <3>3 DEF T
  <2>5. CASE ForwardWrites
    <3>1. out' = [out EXCEPT ![There] = Append(@, Chunk)] /\ wbuf' = wbuf /\ mask' = mask
      BY <2>5 DEF ForwardWrites, epoll
    <3>2. out' \in [Socks -> T]
      BY <1>3, <1>6, <2>1, <2>2, <3>1
    <3> QED BY <1>5, <2>1, <3>1, <3>2 DEF Buffered, T
  <2>6. CASE ForwardBuffers
    <3>1. /\ wbuf' = [wbuf EXCEPT ![There] = Append(@, Chunk)] /\ out' = out
          /\ mask' = [mask EXCEPT ![There] = {"in", "out"}]
      BY <2>6 DEF ForwardBuffers
    <3>2. wbuf' \in [Socks -> T] /\ mask' \in [Socks -> SUBSET {"in", "out"}]
      BY <1>3, <1>6, <2>1, <2>2, <3>1
    <3>3. Buffered'
      BY <1>3, <1>5, <2>1, <3>1 DEF Buffered
    <3> QED BY <2>1, <3>1, <3>2, <3>3 DEF T
  <2>7. CASE ForwardDrops
    <3>1. wbuf' = wbuf /\ mask' = mask
      BY <2>7 DEF ForwardDrops, epoll
    <3>2. \/ out' = out
          \/ (retry[Here[1]] = "stack" /\ out' = [out EXCEPT ![There] = Append(@, Last(wbuf[There]))])
      BY <2>7 DEF ForwardDrops
    <3>3. retry[Here[1]] = "stack" => wbuf[There] # <<>>
      <4>1. There = Client(Here[1]) /\ Here[1] \in Conns
        BY <1>3, <2>7, SocksArePairs DEF ForwardDrops
      <4> QED BY <1>3, <4>1 DEF StackHeld, Connected
    <3>4. out' \in [Socks -> T]
      <4>1. CASE out' = out
        BY <2>1, <4>1
      <4>2. CASE retry[Here[1]] = "stack" /\ out' = [out EXCEPT ![There] = Append(@, Last(wbuf[There]))]
        <5>1. Last(wbuf[There]) \in Socks \X Nat
          BY <1>3, <2>1, <2>3, <3>3, <4>2
        <5>2. Append(out[There], Last(wbuf[There])) \in T
          BY <1>3, <2>1, <2>2, <5>1
        <5> QED BY <2>1, <4>2, <5>2
      <4> QED BY <3>2, <4>1, <4>2
    <3> QED BY <1>5, <2>1, <3>1, <3>4 DEF Buffered, T
  <2> QED BY <2>4, <2>5, <2>6, <2>7 DEF Transfers
<1> QED BY <1>1, <1>4, <1>7, <1>8, <1>9 DEF TlsTypes, LoopTypes

(* The next chunk of s is the one after all that was written and buffered. *)
LEMMA TransfersKeepOrder ==
  ASSUME TlsInv, Transfers
  PROVE  Fresh' /\ Ordered' /\ StackHeld'
<1> USE DEF TlsInv, TlsTablesInv
<1>1. UNCHANGED <<fdOf, came, backlog>> /\ pc \in Serving
  BY DEF Transfers, FlushWrite, ForwardWrites, ForwardBuffers, ForwardDrops, Reads, Serving,
     remotes, listener
<1>0. PICK h \in Socks, t \in Socks : h = Here /\ t = There
  BY <1>1, HereIsConnected
<1>2. /\ h \in Socks /\ t \in Socks /\ t = Other(h) /\ h = Other(t) /\ h # t
      /\ Connected(h) /\ Connected(t) /\ h[1] = t[1] /\ h[1] \in Conns
      /\ \A s \in Socks : s \notin {h, t} => s[1] # h[1] /\ Other(s) \in Socks \ {h, t}
  BY <1>0, <1>1, HereIsConnected, SocksArePairs
<1>3. \A s \in Socks : /\ Connected(s)' = Connected(s)
                       /\ IsOpen(s)' = IsOpen(s)
                       /\ Unused(s)' = Unused(s)
                       /\ Unused(s) => s \notin {h, t}
  <2>1. \A s \in Socks : Connected(s)' = Connected(s) /\ IsOpen(s)' = IsOpen(s) /\ Unused(s)' = Unused(s)
    BY <1>1 DEF Connected, IsOpen, Unused
  <2>2. ~Unused(h) /\ ~Unused(t)
    BY <1>2 DEF Unused, Connected, Arrivals
  <2> QED BY <2>1, <2>2
<1>4. /\ out \in [Socks -> Seq(Socks \X Nat)] /\ wbuf \in [Socks -> Seq(Socks \X Nat)]
      /\ taken \in [Socks -> Nat]
      /\ \A s \in Socks : Len(out[s]) \in Nat /\ Len(wbuf[s]) \in Nat
  BY DEF TlsTypes, LoopTypes
<1>10. /\ h # t /\ {h, t} \subseteq DOMAIN out
       /\ {h, t} \subseteq DOMAIN wbuf /\ {h, t} \subseteq DOMAIN taken
  BY <1>2, <1>4
<1>11. /\ out[h] \in Seq(Socks \X Nat) /\ wbuf[h] \in Seq(Socks \X Nat)
       /\ out[t] \in Seq(Socks \X Nat) /\ wbuf[t] \in Seq(Socks \X Nat)
  BY <1>2, <1>4
<1>5. \A s \in Socks \ {h, t} :
        /\ taken'[s] = taken[s] /\ out'[s] = out[s] /\ wbuf'[s] = wbuf[s]
        /\ retry'[s[1]] = retry[s[1]]
  <2>1. ASSUME NEW s \in Socks \ {h, t} PROVE taken'[s] = taken[s]
    BY <1>0, <1>4 DEF Transfers, FlushWrite, ForwardWrites, ForwardBuffers, ForwardDrops, Reads
  <2>2. ASSUME NEW s \in Socks \ {h, t} PROVE out'[s] = out[s] /\ wbuf'[s] = wbuf[s]
    BY <1>0, <1>4 DEF Transfers, FlushWrite, ForwardWrites, ForwardBuffers, ForwardDrops
  <2>3. ASSUME NEW s \in Socks \ {h, t} PROVE retry'[s[1]] = retry[s[1]]
    <3>1. \/ retry' = retry
          \/ \E array : retry' = Pending(h, array) \/ retry' = Pending(t, array)
      BY <1>0 DEF Transfers, FlushWrite, ForwardWrites, ForwardBuffers, ForwardDrops
    <3>2. s[1] # h[1] /\ s[1] # t[1]
      BY <1>2
    <3>3. \A x \in Conns, y \in Conns : \A array : x # y => [retry EXCEPT ![y] = array][x] = retry[x]
      BY DEF TlsTypes
    <3>4. s[1] \in Conns /\ t[1] \in Conns
      BY <1>2, SocksArePairs
    <3>5. \A x \in {h, t} : \A array : Pending(x, array)[s[1]] = retry[s[1]]
      BY <1>2, <3>2, <3>3, <3>4 DEF Pending
    <3> QED BY <3>1, <3>5
  <2> QED BY <2>1, <2>2, <2>3
<1>6. overtook \subseteq overtook'
  BY DEF Transfers, FlushWrite, ForwardWrites, ForwardBuffers, ForwardDrops
<1>7. Fresh'
  BY <1>3, <1>5 DEF Fresh
<1>8. StackHeld'
  <2>1. ASSUME NEW c \in Conns, c # h[1]
        PROVE  /\ Client(c) \in Socks \ {h, t}
               /\ retry'[c] = "stack" /\ IsOpen(Client(c))' => wbuf'[Client(c)] # <<>>
    <3>1. Client(c) \in Socks \ {h, t} /\ Client(c)[1] = c
      BY <1>2, <2>1, SocksArePairs
    <3> QED BY <1>3, <1>5, <3>1 DEF StackHeld
  <2>2. retry'[h[1]] = "stack" => wbuf'[Client(h[1])] # <<>>
    <3>0. /\ Client(h[1]) \in Socks /\ IsOpen(Client(h[1])) /\ Client(h[1]) \in {h, t}
          /\ (h[2] = "client" => h = Client(h[1])) /\ (t[2] = "client" => t = Client(h[1]))
          /\ (h[2] # "client" => h # Client(h[1])) /\ (t[2] # "client" => t # Client(h[1]))
          /\ (h[2] = "client" <=> t[2] # "client")
      BY <1>2, SocksArePairs DEF Connected
    <3>1. retry[h[1]] = "stack" => wbuf[Client(h[1])] # <<>>
      BY <1>2, <3>0 DEF StackHeld
    <3>2. CASE FlushWrite
      BY <1>0, <1>2, <1>4, <3>0, <3>1, <3>2 DEF FlushWrite, Pending, MayResume, TlsTypes
    <3>3. CASE ForwardWrites \/ ForwardDrops
      BY <1>0, <1>2, <3>0, <3>1, <3>3 DEF ForwardWrites, ForwardDrops, Pending, TlsTypes
    <3>4. CASE ForwardBuffers
      <4>1. wbuf'[t] = Append(wbuf[t], Chunk) /\ Append(wbuf[t], Chunk) # <<>>
        <5>1. wbuf'[t] = Append(wbuf[t], Chunk)
          <6>1. wbuf' = [wbuf EXCEPT ![t] = Append(wbuf[t], Chunk)]
            BY <1>0, <3>4 DEF ForwardBuffers
          <6> QED BY <1>10, <6>1
        <5>2. Len(Append(wbuf[t], Chunk)) = Len(wbuf[t]) + 1
          BY <1>2, <1>4
        <5>3. Len(wbuf[t]) + 1 # Len(<<>>)
          BY <1>2, <1>4
        <5> QED BY <5>1, <5>2, <5>3
      <4>2. t[2] # "client" => retry' = retry /\ wbuf'[h] = wbuf[h]
        BY <1>0, <1>2, <1>4, <3>4 DEF ForwardBuffers, Pending
      <4> QED BY <3>0, <3>1, <4>1, <4>2
    <3> QED BY <1>0, <3>2, <3>3, <3>4 DEF Transfers
  <2> QED BY <1>2, <2>1, <2>2 DEF StackHeld
<1>9. ASSUME NEW s \in Socks, s[1] \notin overtook' PROVE InTurn(s)'
  <2>1. InTurn(s)
    BY <1>6, <1>9 DEF Ordered
  <2>2. CASE s \notin {h, t}
    BY <1>2, <1>3, <1>5, <2>1, <2>2 DEF InTurn
  <2>3. CASE s \in {h, t}
    <3>1. InTurn(h) /\ InTurn(t)
      BY <1>2, <1>6, <1>9, <2>3 DEF Ordered
    <3>0. Turn(out[h], wbuf[h], t, taken[t]) /\ Turn(out[t], wbuf[t], h, taken[h])
      BY <1>2, <3>1 DEF InTurn
    <3>10. /\ Turn(out'[h], wbuf'[h], t, taken'[t]) => InTurn(h)'
           /\ Turn(out'[t], wbuf'[t], h, taken'[h]) => InTurn(t)'
      BY <1>2, <1>3 DEF InTurn, Turn
    <3>2. CASE FlushWrite
      <4>1. /\ out' = [out EXCEPT ![h] = Append(out[h], Head(wbuf[h]))] /\ wbuf[h] # <<>>
            /\ wbuf' = [wbuf EXCEPT ![h] = Tail(wbuf[h])] /\ taken' = taken
        BY <1>0, <3>2 DEF FlushWrite
      <4>2. /\ out'[h] = Append(out[h], Head(wbuf[h])) /\ wbuf'[h] = Tail(wbuf[h])
            /\ out'[t] = out[t] /\ wbuf'[t] = wbuf[t]
        BY <1>10, <4>1
      <4>3. Turn(Append(out[h], Head(wbuf[h])), Tail(wbuf[h]), t, taken[t])
        BY <1>11, <3>0, <4>1, ChunksStayNumbered
      <4> QED BY <2>3, <3>0, <3>10, <4>1, <4>2, <4>3
    <3>3. CASE ForwardWrites
      <4>1. /\ out' = [out EXCEPT ![t] = Append(out[t], <<h, taken[h] + 1>>)] /\ wbuf' = wbuf
            /\ taken' = [taken EXCEPT ![h] = taken[h] + 1] /\ wbuf[t] = <<>>
        <5>1. h[1] \notin overtook'
          BY <1>2, <1>9, <2>3
        <5> QED BY <1>0, <3>3, <5>1 DEF ForwardWrites, Reads, Chunk
      <4>2. /\ out'[t] = Append(out[t], <<h, taken[h] + 1>>) /\ out'[h] = out[h]
            /\ taken'[h] = taken[h] + 1 /\ taken'[t] = taken[t]
        BY <1>10, <4>1
      <4>3. Turn(Append(out[t], <<h, taken[h] + 1>>), wbuf[t], h, taken[h] + 1)
        BY <1>11, <3>0, <4>1, ChunksStayNumbered
      <4> QED BY <2>3, <3>0, <3>10, <4>1, <4>2, <4>3
    <3>4. CASE ForwardBuffers
      <4>1. /\ wbuf' = [wbuf EXCEPT ![t] = Append(wbuf[t], <<h, taken[h] + 1>>)] /\ out' = out
            /\ taken' = [taken EXCEPT ![h] = taken[h] + 1]
        BY <1>0, <3>4 DEF ForwardBuffers, Reads, Chunk
      <4>2. /\ wbuf'[t] = Append(wbuf[t], <<h, taken[h] + 1>>) /\ wbuf'[h] = wbuf[h]
            /\ taken'[h] = taken[h] + 1 /\ taken'[t] = taken[t]
        BY <1>10, <4>1
      <4>3. Turn(out[t], Append(wbuf[t], <<h, taken[h] + 1>>), h, taken[h] + 1)
        BY <1>11, <3>0, <4>1, ChunksStayNumbered
      <4> QED BY <2>3, <3>0, <3>10, <4>1, <4>2, <4>3
    <3>5. ~ForwardDrops
      BY <1>0, <1>2, <1>9, <2>3 DEF ForwardDrops
    <3> QED BY <1>0, <3>2, <3>3, <3>4, <3>5 DEF Transfers
  <2> QED BY <2>2, <2>3
<1> QED BY <1>7, <1>8, <1>9 DEF Ordered

----------------------------------------------------------------------------
(* The invariant holds initially and is kept by every step.                *)
LEMMA TlsInitInv == TlsInit => TlsInv
<1> SUFFICES ASSUME TlsInit PROVE TlsInv
  OBVIOUS
<1>1. \A s \in Socks : ~IsOpen(s) /\ ~Connected(s)
  BY DEF TlsInit, LoopInit, IsOpen, Connected
<1>2. TlsTypes /\ Numbers
  BY <1>1, SocksArePairs DEF TlsInit, LoopInit, TlsTypes, LoopTypes, Numbers
<1>3. Entries
  <2>1. connections = <<>> /\ DOMAIN connections = {} /\ pending = {} /\ ssl = {}
    BY DEF TlsInit, LoopInit
  <2> QED BY <1>1, <2>1, SocksArePairs DEF Entries
<1>4. Buffered /\ AtWork
  BY DEF TlsInit, LoopInit, Buffered, AtWork, Serving
<1>5. Arrivals
  <2>1. came = 1 .. 0 /\ 0 \in 0 .. NumConns /\ backlog = {}
    BY DEF TlsInit, LoopInit
  <2> QED BY <1>1, <2>1 DEF Arrivals
<1>6. Fresh /\ StackHeld
  BY <1>1, SocksArePairs DEF TlsInit, LoopInit, Fresh, StackHeld
<1>7. Ordered
  <2>1. \A s : Numbered(<<>>, s, 0)
    BY DEF Numbered
  <2> QED BY <1>1, <2>1 DEF TlsInit, LoopInit, Ordered, InTurn
<1> QED BY <1>2, <1>3, <1>4, <1>5, <1>6, <1>7 DEF TlsInv, TlsTablesInv

(* Every step of TlsProxy keeps the invariant.                             *)
LEMMA TlsNextKeepsInv ==
  ASSUME TlsInv, TlsNext
  PROVE  TlsInv'
<1>1. CASE TlsQuiet
  BY <1>1, TlsQuietKeepsInv
<1>2. CASE \E c \in Conns : TlsAccept(c)
  BY <1>2, TlsAcceptKeepsInv
<1>3. CASE HandshakeDone \/ HandshakeFails
  BY <1>3, HandshakeDoneKeepsInv, HandshakeFailsKeepsInv
<1>4. CASE TlsHangup \/ FlushFails \/ ForwardFails \/ ForwardEnds
  BY <1>4, TlsClosingKeepsInv
<1>5. CASE Transfers
  BY <1>5, TransfersKeepTables, TransfersKeepOrder DEF TlsInv
<1> QED
  BY <1>1, <1>2, <1>3, <1>4, <1>5 DEF TlsNext, TlsLoop, TlsHandshake, TlsFlush, TlsForward, TlsQuiet,
     Transfers

(* In every state of TlsProxy the invariant holds.                         *)
TlsPartInv == part = "tls" => TlsInv

(* Whatever clients, targets and stop() do, every state of TlsProxy        *)
(* satisfies its inductive invariant.                                      *)
THEOREM TlsInvariant == Spec => []TlsPartInv
<1>1. Init => TlsPartInv
  BY TlsInitInv DEF Init, TlsPartInv
<1>2. TlsPartInv /\ [Next]_vars => TlsPartInv'
  <2> SUFFICES ASSUME TlsPartInv, [Next]_vars PROVE TlsPartInv'
    OBVIOUS
  <2>1. CASE RunsTls
    BY <2>1, TlsNextKeepsInv DEF RunsTls, TlsPartInv
  <2>2. CASE RunsEpoll
    BY <2>2 DEF RunsEpoll, TlsPartInv
  <2>3. CASE UNCHANGED vars
    <3>1. /\ part' = part
          /\ UNCHANGED <<fdOf, mask, connections, pending, ssl, wbuf, retry, overtook>>
          /\ UNCHANGED <<came, backlog, sent, taken, out, pc, cur>>
      BY <2>3 DEF vars, loopVars, tlsVars, remotes, listener, epoll, bytes
    <3>2. TlsTypes' = TlsTypes /\ Numbers' = Numbers /\ AtWork' = AtWork /\ Arrivals' = Arrivals
      BY <3>1 DEF TlsTypes, LoopTypes, Numbers, AtWork, Arrivals, IsOpen
    <3>3. Entries' = Entries /\ Buffered' = Buffered
      BY <3>1 DEF Entries, Buffered, Connected, IsOpen
    <3>4. Fresh' = Fresh /\ StackHeld' = StackHeld /\ Ordered' = Ordered
      BY <3>1 DEF Fresh, Unused, StackHeld, Ordered, InTurn, Connected, IsOpen
    <3> QED BY <3>1, <3>2, <3>3, <3>4 DEF TlsPartInv, TlsInv, TlsTablesInv
  <2> QED BY <2>1, <2>2, <2>3 DEF Next
<1> QED BY <1>1, <1>2, PTL DEF Spec

(* Tables, sockets and the objects behind them agree in both proxies:      *)
(* stale events, failed handshakes and closes from either side leave no    *)
(* entry without its socket, and no SSL object or buffer without its       *)
(* connection.                                                             *)
THEOREM ProxiesTablesMatch == Spec => []TablesMatchSockets
<1>1. ProxiesInv /\ TlsPartInv /\ (part = "epoll" => EpollTables) => TablesMatchSockets
  <2> SUFFICES ASSUME TlsTablesInv PROVE TlsTables
    BY DEF ProxiesInv, TlsPartInv, TlsInv, TablesMatchSockets
  <2> USE DEF TlsTablesInv
  <2>1. PairsMatch
    <3>1. ASSUME NEW fd \in DOMAIN connections
          PROVE  \E s \in Socks :
                   /\ fdOf[s] = fd /\ IsOpen(Other(s))
                   /\ connections[fd] = [peer |-> fdOf[Other(s)], isClient |-> s[2] = "client"]
      <4>1. PICK s \in Socks : Connected(s) /\ fdOf[s] = fd
        BY DEF Entries
      <4> QED BY <4>1 DEF Entries, Connected
    <3> QED BY <3>1 DEF PairsMatch, Numbers
  <2>2. pending \cap DOMAIN connections = {}
    BY DEF Entries, Numbers, Connected
  <2>3. {fdOf[s] : s \in {t \in Socks : IsOpen(t)}} = pending \cup DOMAIN connections
    <3>1. \A s \in Socks : IsOpen(s) <=> Connected(s) \/ (IsOpen(s) /\ ~Connected(s))
      BY DEF Connected
    <3> HIDE DEF TlsTablesInv
    <3>2. Entries
      BY DEF TlsTablesInv
    <3> QED BY <3>1, <3>2 DEF Entries
  <2> QED BY <2>1, <2>2, <2>3 DEF TlsTables, Entries, Buffered, Connected
<1> QED BY EpollInvariant, TlsInvariant, EpollTablesAgree, <1>1, PTL

(* What reaches the far end of a connection of TlsProxy is what the other  *)
(* side sent, from the first chunk on and in order, unless a chunk was     *)
(* written past its write buffer or dropped.                               *)
THEOREM TlsBytesInOrder == Spec => []TlsKeepsOrder
<1>1. TlsPartInv => TlsKeepsOrder
  <2> SUFFICES ASSUME TlsInv PROVE TlsInOrder
    BY DEF TlsPartInv, TlsKeepsOrder
  <2>1. ASSUME NEW s \in Socks, s[1] \notin overtook
        PROVE  out[s] = [n \in 1 .. Len(out[s]) |-> <<Other(s), n>>]
    <3>1. out[s] = [n \in 1 .. Len(out[s]) |-> <<Other(s), 0 + n>>]
      BY <2>1 DEF TlsInv, Ordered, InTurn, Numbered
    <3>2. \A n \in 1 .. Len(out[s]) : 0 + n = n
      BY DEF TlsInv, TlsTablesInv, TlsTypes, LoopTypes
    <3> QED BY <3>1, <3>2
  <2> QED BY <2>1 DEF TlsInOrder
<1> QED BY TlsInvariant, <1>1, PTL
----------------------------------------------------------------------------
(* How much of q is in order: InOrder stops before the first chunk that is *)
(* not the next one of s.                                                  *)
InPlace(q, s, n) == q[n] = <<s, n>>
Stops(q, s, k) ==
  /\ k \in 0 .. Len(q) /\ \A n \in 1 .. k : InPlace(q, s, n)
  /\ k = Len(q) \/ ~InPlace(q, s, k + 1)

(* There is one such place only.                                           *)
LEMMA StopsOnce ==
  ASSUME NEW q \in Seq(Socks \X Nat), NEW s, NEW j, NEW k, Stops(q, s, j), Stops(q, s, k)
  PROVE  j = k
<1> DEFINE len == Len(q)
<1>1. /\ len \in Nat /\ j \in 0 .. len /\ k \in 0 .. len
      /\ \A n \in 1 .. j : InPlace(q, s, n)
      /\ \A n \in 1 .. k : InPlace(q, s, n)
      /\ j = len \/ ~InPlace(q, s, j + 1)
      /\ k = len \/ ~InPlace(q, s, k + 1)
  BY DEF Stops
<1> HIDE DEF len
<1>2. j < k => j + 1 \in 1 .. k /\ j # len
  BY <1>1
<1>3. k < j => k + 1 \in 1 .. j /\ k # len
  BY <1>1
<1>4. j < k \/ k < j \/ j = k
  BY <1>1
<1> QED BY <1>1, <1>2, <1>3, <1>4

(* InOrder finds it.                                                       *)
LEMMA InOrderIsPrefix ==
  ASSUME NEW q \in Seq(Socks \X Nat), NEW s
  PROVE  \E k : Stops(q, s, k) /\ InOrder(q, s) = SubSeq(q, 1, k) /\ Len(InOrder(q, s)) = k
<1> DEFINE Wrong == {n \in 0 .. Len(q) : n = Len(q) \/ q[n + 1] # <<s, n + 1>>}
           k == Min(Wrong)
<1>1. Len(q) \in Nat /\ Len(q) \in Wrong
  OBVIOUS
<1>2. Wrong \in SUBSET Nat /\ IsFiniteSet(Wrong)
  <2>1. IsFiniteSet(0 .. Len(q))
    BY <1>1, FS_Interval
  <2>2. Wrong \subseteq 0 .. Len(q)
    OBVIOUS
  <2>3. IsFiniteSet(Wrong)
    BY <2>1, <2>2, FS_Subset
  <2> QED BY <1>1, <2>2, <2>3
<1>3. k \in Wrong /\ \A n \in Wrong : k <= n
  <2> HIDE DEF Wrong
  <2> QED BY <1>1, <1>2, MinIsIn
<1>4. InOrder(q, s) = SubSeq(q, 1, k)
  BY DEF InOrder
<1> HIDE DEF k
<1>5. k \in 0 .. Len(q) /\ (k = Len(q) \/ ~InPlace(q, s, k + 1))
  BY <1>3 DEF InPlace
<1>6. ASSUME NEW n \in 1 .. k PROVE InPlace(q, s, n)
  <2>1. n - 1 \in 0 .. Len(q) /\ ~(k <= n - 1) /\ (n - 1) + 1 = n
    BY <1>1, <1>5
  <2>2. n - 1 \notin Wrong
    <3> HIDE DEF Wrong
    <3> QED BY <1>3, <2>1
  <2> QED BY <2>1, <2>2 DEF InPlace
<1>7. Len(SubSeq(q, 1, k)) = k
  BY <1>1, <1>5
<1> QED BY <1>4, <1>5, <1>6, <1>7 DEF Stops

(* One more chunk makes InOrder longer if it is the next, and is not seen  *)
(* if it is not or if one before it was not.                               *)
LEMMA InOrderAppend ==
  ASSUME NEW q \in Seq(Socks \X Nat), NEW s, NEW e \in Socks \X Nat
  PROVE  \/ InOrder(Append(q, e), s) = InOrder(q, s)
         \/ /\ e = <<s, Len(InOrder(q, s)) + 1>>
            /\ InOrder(Append(q, e), s) = Append(InOrder(q, s), e)
<1> DEFINE r == Append(q, e)
<1>1. PICK k : Stops(q, s, k) /\ InOrder(q, s) = SubSeq(q, 1, k) /\ Len(InOrder(q, s)) = k
  BY InOrderIsPrefix
<1>2. /\ Len(q) \in Nat /\ r \in Seq(Socks \X Nat) /\ Len(r) = Len(q) + 1
      /\ \A n \in 1 .. Len(q) : r[n] = q[n]
      /\ r[Len(q) + 1] = e
  OBVIOUS
<1>3. k \in 0 .. Len(q) /\ \A n \in 1 .. k : InPlace(r, s, n)
  <2>1. k \in 0 .. Len(q) /\ \A n \in 1 .. k : InPlace(q, s, n)
    BY <1>1 DEF Stops
  <2>2. \A n \in 1 .. k : n \in 1 .. Len(q)
    BY <1>2, <2>1
  <2> QED BY <1>2, <2>1, <2>2 DEF InPlace
<1>4. PICK j : Stops(r, s, j) /\ InOrder(r, s) = SubSeq(r, 1, j)
  BY <1>2, InOrderIsPrefix
<1> HIDE DEF r
<1>5. CASE k = Len(q) /\ InPlace(r, s, k + 1)
  <2>1. \A n \in 1 .. k + 1 : n \in 1 .. k \/ n = k + 1
    BY <1>3
  <2>2. Stops(r, s, k + 1)
    <3>1. k + 1 \in 0 .. Len(r) /\ k + 1 = Len(r)
      BY <1>2, <1>5
    <3> QED BY <1>3, <1>5, <2>1, <3>1 DEF Stops
  <2>3. j = Len(r)
    BY <1>2, <1>4, <1>5, <2>2, StopsOnce
  <2>4. InOrder(r, s) = r /\ InOrder(q, s) = q
    BY <1>1, <1>2, <1>4, <1>5, <2>3
  <2> QED BY <1>1, <1>2, <1>5, <2>4 DEF r, InPlace
<1>6. CASE ~(k = Len(q) /\ InPlace(r, s, k + 1))
  <2>1. ~InPlace(r, s, k + 1)
    <3> SUFFICES ASSUME k # Len(q) PROVE ~InPlace(r, s, k + 1)
      BY <1>6
    <3>1. ~InPlace(q, s, k + 1)
      BY <1>1 DEF Stops
    <3>2. k + 1 \in 1 .. Len(q)
      BY <1>2, <1>3
    <3> QED BY <1>2, <3>1, <3>2 DEF InPlace
  <2>2. Stops(r, s, k)
    <3>1. k \in 0 .. Len(r)
      BY <1>2, <1>3
    <3> QED BY <1>3, <2>1, <3>1 DEF Stops
  <2>3. j = k
    BY <1>2, <1>4, <2>2, StopsOnce
  <2>4. SubSeq(r, 1, k) = SubSeq(q, 1, k)
    BY <1>2, <1>3 DEF r
  <2> QED BY <1>1, <1>4, <2>3, <2>4 DEF r
<1> QED BY <1>5, <1>6
----------------------------------------------------------------------------
(* Nothing is read, or buffered, that was not sent.                        *)
WasSent ==
  /\ \A s \in Socks : taken[s] <= sent[s]
  /\ \A s \in Socks : \A i \in 1 .. Len(wbuf[s]) : wbuf[s][i][2] <= sent[Other(s)]

(* Other steps than forwarding and flushing read and buffer nothing.       *)
LEMMA TlsOthersKeepWasSent ==
  ASSUME TlsInv, WasSent, TlsNext, ~Transfers
  PROVE  WasSent'
<1> USE DEF TlsInv, TlsTablesInv
<1>1. /\ taken \in [Socks -> Nat] /\ sent \in [Socks -> Nat]
      /\ wbuf \in [Socks -> Seq(Socks \X Nat)]
      /\ \A s \in Socks : Other(s) \in Socks
  BY SocksArePairs DEF TlsTypes, LoopTypes
<1>2. CASE TlsQuiet
  <2>1. UNCHANGED <<taken, wbuf>>
    BY <1>2, TlsQuietKeeps
  <2>2. \A s \in Socks : sent[s] <= sent'[s] /\ sent'[s] \in Nat
    <3>1. UNCHANGED sent \/ \E s \in Socks : sent' = [sent EXCEPT ![s] = @ + 1]
      BY <1>2 DEF TlsQuiet, Run, Wait, WaitListen, WaitSock, WaitReturns, BatchEnds,
         DispatchListen, AcceptEnds, Stop, Remote, ClientConnects, RemoteSends, RemoteReads,
         RemoteEnds, TlsAcceptFails, ClientHello, HandshakeWantsRead, HandshakeWantsWrite, TlsEvent,
         FlushDone, FlushAgain, ForwardDrained, remotes
    <3>2. ASSUME NEW r \in Socks, sent' = [sent EXCEPT ![r] = @ + 1], NEW s \in Socks
          PROVE  sent[s] <= sent'[s] /\ sent'[s] \in Nat
      <4>1. sent[s] \in Nat /\ sent'[s] = IF s = r THEN sent[s] + 1 ELSE sent[s]
        BY <1>1, <3>2
      <4> QED BY <4>1
    <3>3. ASSUME sent' = sent, NEW s \in Socks PROVE sent[s] <= sent'[s] /\ sent'[s] \in Nat
      <4>1. sent[s] \in Nat
        BY <1>1
      <4> QED BY <3>3, <4>1
    <3> QED BY <3>1, <3>2, <3>3
  <2>3. \A s \in Socks : taken[s] <= sent'[s]
    BY <1>1, <2>2 DEF WasSent
  <2>4. ASSUME NEW s \in Socks, NEW i \in 1 .. Len(wbuf[s]) PROVE wbuf[s][i][2] <= sent'[Other(s)]
    <3>1. wbuf[s][i][2] \in Nat
      BY <1>1
    <3>2. wbuf[s][i][2] <= sent[Other(s)]
      BY DEF WasSent
    <3>3. sent[Other(s)] \in Nat /\ sent'[Other(s)] \in Nat /\ sent[Other(s)] <= sent'[Other(s)]
      BY <1>1, <2>2
    <3> QED BY <3>1, <3>2, <3>3
  <2> QED BY <2>1, <2>3, <2>4 DEF WasSent
<1>3. CASE (\E c \in Conns : TlsAccept(c)) \/ HandshakeDone \/ HandshakeFails
  <2>1. UNCHANGED <<taken, wbuf, sent>>
    BY <1>3 DEF TlsAccept, HandshakeDone, HandshakeFails, ReadsHello, remotes, bytes
  <2> QED BY <2>1 DEF WasSent
<1>4. CASE TlsHangup \/ FlushFails \/ ForwardFails \/ ForwardEnds
  <2>1. sent' = sent /\ \E fd : TlsClose(fd)
    BY <1>4 DEF TlsHangup, FlushFails, ForwardFails, ForwardEnds, remotes
  <2>2. \A s \in Socks : wbuf'[s] = wbuf[s] \/ wbuf'[s] = <<>>
    <3>1. PICK fd : TlsClose(fd)
      BY <2>1
    <3>2. wbuf' = wbuf \/ \E s, t : wbuf' = [wbuf EXCEPT ![s] = <<>>, ![t] = <<>>]
      BY <3>1 DEF TlsClose
    <3> DEFINE T == Seq(Socks \X Nat)
    <3>3. wbuf \in [Socks -> T]
      BY <1>1
    <3> HIDE DEF T
    <3> QED BY <3>2, <3>3
  <2>3. \A s \in Socks : taken'[s] <= sent[s]
    <3>1. taken' = taken \/ (Unread(Here) /\ taken' = [taken EXCEPT ![Here] = @ + 1])
      BY <1>4 DEF TlsHangup, FlushFails, ForwardFails, ForwardEnds, Reads, bytes
    <3> SUFFICES ASSUME NEW s \in Socks PROVE taken'[s] <= sent[s]
      OBVIOUS
    <3>2. taken[s] <= sent[s] /\ taken[s] \in Nat /\ sent[s] \in Nat
      BY <1>1 DEF WasSent
    <3>3. taken'[s] = taken[s] \/ (s = Here /\ Unread(Here) /\ taken'[s] = taken[s] + 1)
      BY <1>1, <3>1
    <3> QED BY <3>2, <3>3 DEF Unread
  <2>4. ASSUME NEW s \in Socks, NEW i \in 1 .. Len(wbuf'[s]) PROVE wbuf'[s][i][2] <= sent[Other(s)]
    <3>1. wbuf'[s] = wbuf[s]
      BY <2>2
    <3> QED BY <3>1 DEF WasSent
  <2> QED BY <2>1, <2>3, <2>4 DEF WasSent
<1> QED
  BY <1>2, <1>3, <1>4 DEF TlsNext, TlsLoop, TlsHandshake, TlsFlush, TlsForward, TlsQuiet, Transfers

(* What the others write is buffered or just read.                         *)
LEMMA TransfersWriteWhatWasSent ==
  ASSUME TlsInv, WasSent, Transfers
  PROVE  /\ WasSent'
         /\ out' # out =>
              \E s \in Socks, e \in Socks \X Nat :
                 /\ Connected(s) /\ e[2] <= sent[Other(s)]
                 /\ out' = [out EXCEPT ![s] = Append(out[s], e)]
<1> USE DEF TlsInv, TlsTablesInv
<1>1. pc \in Serving /\ sent' = sent
  BY DEF Transfers, FlushWrite, ForwardWrites, ForwardBuffers, ForwardDrops, Reads, Serving, remotes
<1>2. PICK h \in Socks, t \in Socks :
        /\ h = Here /\ t = There /\ t = Other(h) /\ h = Other(t) /\ Connected(h) /\ Connected(t)
  BY <1>1, HereIsConnected
<1>3. /\ taken \in [Socks -> Nat] /\ sent \in [Socks -> Nat]
      /\ wbuf \in [Socks -> Seq(Socks \X Nat)]
  BY DEF TlsTypes, LoopTypes
<1> DEFINE q == wbuf[h]
           w == wbuf[t]
           e == <<h, taken[h] + 1>>
<1>4. /\ q \in Seq(Socks \X Nat) /\ w \in Seq(Socks \X Nat) /\ Len(q) \in Nat /\ Len(w) \in Nat
      /\ e \in Socks \X Nat /\ e[2] = taken[h] + 1
  <2>1. q \in Seq(Socks \X Nat) /\ w \in Seq(Socks \X Nat)
    BY <1>3
  <2>2. taken[h] + 1 \in Nat
    BY <1>3
  <2> QED BY <2>1, <2>2
<1>5. /\ \A i \in 1 .. Len(q) : q[i] \in Socks \X Nat /\ q[i][2] <= sent[t]
      /\ \A i \in 1 .. Len(w) : w[i] \in Socks \X Nat /\ w[i][2] <= sent[h]
  <2>1. /\ \A i \in 1 .. Len(q) : q[i][2] <= sent[t]
        /\ \A i \in 1 .. Len(w) : w[i][2] <= sent[h]
    <3> USE DEF WasSent
    <3>1. Other(h) = t /\ Other(t) = h
      BY <1>2
    <3>2. \A i \in 1 .. Len(q) : q[i][2] <= sent[Other(h)]
      BY Zenon
    <3>3. \A i \in 1 .. Len(w) : w[i][2] <= sent[Other(t)]
      BY Zenon
    <3> QED BY <3>1, <3>2, <3>3
  <2>2. /\ \A i \in 1 .. Len(q) : q[i] \in Socks \X Nat
        /\ \A i \in 1 .. Len(w) : w[i] \in Socks \X Nat
    <3> HIDE DEF q, w
    <3> QED BY <1>4
  <2> QED BY <2>1, <2>2
<1>6. CASE FlushWrite
  <2>1. /\ q # <<>> /\ out' = [out EXCEPT ![h] = Append(out[h], Head(q))]
        /\ wbuf' = [wbuf EXCEPT ![h] = Tail(q)] /\ taken' = taken
    BY <1>2, <1>6 DEF FlushWrite
  <2> HIDE DEF q, w, e
  <2>2. /\ 1 \in 1 .. Len(q) /\ Head(q) = q[1] /\ Len(Tail(q)) = Len(q) - 1
        /\ \A i \in 1 .. Len(q) - 1 : Tail(q)[i] = q[i + 1] /\ i + 1 \in 1 .. Len(q)
    BY <1>4, <2>1
  <2>3. Head(q) \in Socks \X Nat /\ Head(q)[2] <= sent[Other(h)]
    BY <1>2, <1>5, <2>2
  <2>4. ASSUME NEW s \in Socks, NEW i \in 1 .. Len(wbuf'[s]) PROVE wbuf'[s][i][2] <= sent[Other(s)]
    <3>1. CASE s = h
      <4>1. wbuf'[s] = Tail(q)
        BY <1>3, <2>1, <3>1
      <4> QED BY <1>2, <1>5, <2>2, <3>1, <4>1
    <3>2. CASE s # h
      <4>1. wbuf'[s] = wbuf[s]
        BY <1>3, <2>1, <3>2
      <4> QED BY <4>1 DEF WasSent
    <3> QED BY <3>1, <3>2
  <2> QED BY <1>1, <1>2, <2>1, <2>3, <2>4 DEF WasSent
<1>7. CASE ForwardWrites \/ ForwardBuffers \/ ForwardDrops
  <2>1. /\ taken[h] < sent[h] /\ taken' = [taken EXCEPT ![h] = taken[h] + 1] /\ Chunk = e
    BY <1>2, <1>7 DEF ForwardWrites, ForwardBuffers, ForwardDrops, Reads, Unread, Chunk
  <2>2. \A s \in Socks : taken'[s] <= sent[s]
    BY <1>3, <2>1 DEF WasSent
  <2>3. e[2] <= sent[h]
    <3>1. taken[h] \in Nat /\ sent[h] \in Nat
      BY <1>3
    <3> HIDE DEF e
    <3> QED BY <1>4, <2>1, <3>1
  <2>4. ASSUME wbuf' # wbuf, NEW s \in Socks, NEW i \in 1 .. Len(wbuf'[s])
        PROVE  wbuf'[s][i][2] <= sent[Other(s)]
    <3>1. wbuf' = [wbuf EXCEPT ![t] = Append(w, e)]
      BY <1>2, <1>7, <2>1, <2>4 DEF ForwardWrites, ForwardBuffers, ForwardDrops
    <3>2. CASE s = t
      <4>1. wbuf'[s] = Append(w, e)
        BY <1>3, <3>1, <3>2
      <4> HIDE DEF w, e
      <4>2. Append(w, e)[i] = e \/ (i \in 1 .. Len(w) /\ Append(w, e)[i] = w[i])
        BY <1>4, <4>1
      <4> QED BY <1>2, <1>5, <2>3, <3>2, <4>1, <4>2
    <3>3. CASE s # t
      <4>1. wbuf'[s] = wbuf[s]
        BY <1>3, <3>1, <3>3
      <4> QED BY <4>1 DEF WasSent
    <3> QED BY <3>2, <3>3
  <2>5. WasSent'
    BY <1>1, <2>2, <2>4 DEF WasSent
  <2>6. ASSUME out' # out
        PROVE  \E d \in Socks \X Nat :
                 d[2] <= sent[h] /\ out' = [out EXCEPT ![t] = Append(out[t], d)]
    <3>1. CASE ForwardWrites
      <4>1. out' = [out EXCEPT ![t] = Append(out[t], e)]
        BY <1>2, <2>1, <3>1 DEF ForwardWrites
      <4> QED BY <1>4, <2>3, <4>1
    <3>2. CASE ForwardDrops
      <4>1. /\ retry[h[1]] = "stack" /\ t[2] = "client"
            /\ out' = [out EXCEPT ![t] = Append(out[t], Last(w))]
        BY <1>2, <2>6, <3>2 DEF ForwardDrops
      <4>2. w # <<>>
        <5>1. /\ t = Client(t[1]) \/ t = Target(t[1])
              /\ t[1] \in Conns /\ t[1] = h[1] /\ Target(t[1])[2] # "client"
          BY <1>2, SocksArePairs
        <5>2. t = Client(h[1]) /\ h[1] \in Conns
          BY <4>1, <5>1
        <5> QED BY <1>2, <4>1, <5>2 DEF StackHeld, Connected
      <4>3. Len(w) \in 1 .. Len(w) /\ Last(w) = w[Len(w)]
        BY <1>4, <4>2 DEF Last
      <4> QED BY <1>5, <4>1, <4>3
    <3> QED BY <1>7, <2>6, <3>1, <3>2 DEF ForwardBuffers
  <2> QED BY <1>2, <2>5, <2>6
<1> QED BY <1>6, <1>7 DEF Transfers
----------------------------------------------------------------------------
(* What a step of TlsProxy does to the connections Relay sees.             *)
TlsRelayStep ==
  \/ \E c \in Conns : /\ TlsState[c] = "new" /\ TlsState' = [TlsState EXCEPT ![c] = "open"]
                      /\ UNCHANGED <<sent, TlsDelivered>>
  \/ \E c \in Conns : /\ TlsState[c] # "closed"
                      /\ TlsState' = [TlsState EXCEPT ![c] = "closed"]
                      /\ UNCHANGED <<sent, TlsDelivered>>
  \/ \E s \in Socks : sent' = [sent EXCEPT ![s] = @ + 1] /\ UNCHANGED <<TlsState, TlsDelivered>>
  \/ \E s \in Socks : /\ TlsState[s[1]] = "open" /\ Len(TlsDelivered[s]) < sent[Other(s)]
                      /\ TlsDelivered' =
                           [TlsDelivered EXCEPT ![s] = Append(@, <<Other(s), Len(@) + 1>>)]
                      /\ UNCHANGED <<TlsState, sent>>
  \/ UNCHANGED <<TlsState, sent, TlsDelivered>>

(* The quiet steps show a chunk sent, a client refused, or nothing.        *)
LEMMA TlsQuietRelays ==
  ASSUME TlsInv, TlsQuiet
  PROVE  TlsRelayStep
<1> USE DEF TlsInv, TlsTablesInv
<1>1. UNCHANGED <<fdOf, TlsDelivered>>
  BY TlsQuietKeeps DEF TlsDelivered
<1>2. ASSUME NEW c \in Conns, TlsAcceptFails(c) PROVE TlsRelayStep
  <2>1. /\ c \in backlog /\ backlog' = backlog \ {c} /\ UNCHANGED <<came, sent>> /\ c \in came
        /\ ~IsOpen(Client(c)) /\ ~IsOpen(Target(c))
    BY <1>2, SocksArePairs DEF TlsAcceptFails, remotes, Arrivals
  <2>2. TlsState[c] = "new" /\ TlsState' = [TlsState EXCEPT ![c] = "closed"]
    BY <1>1, <2>1 DEF TlsState, IsOpen
  <2> QED BY <1>1, <2>1, <2>2 DEF TlsRelayStep
<1>3. ASSUME NEW c \in Conns, ClientConnects(c) PROVE TlsRelayStep
  <2>1. came' = came \cup {c} /\ backlog' = backlog \cup {c} /\ sent' = sent
    BY <1>3 DEF ClientConnects
  <2>2. c \notin came
    <3>1. PICK n \in 0 .. NumConns : came = 1 .. n
      BY DEF Arrivals
    <3>2. Cardinality(came) = n
      BY <3>1, FS_Interval
    <3> QED BY <1>3, <3>1, <3>2 DEF ClientConnects
  <2>3. came' \ backlog' = came \ backlog
    BY <2>1, <2>2
  <2>4. TlsState' = TlsState
    BY <1>1, <2>3 DEF TlsState, IsOpen
  <2> QED BY <1>1, <2>1, <2>4 DEF TlsRelayStep
<1>4. ASSUME NEW s \in Socks, RemoteSends(s) PROVE TlsRelayStep
  <2>1. sent' = [sent EXCEPT ![s] = @ + 1] /\ UNCHANGED <<came, backlog>>
    BY <1>4 DEF RemoteSends, listener
  <2>2. TlsState' = TlsState
    BY <1>1, <2>1 DEF TlsState, IsOpen
  <2> QED BY <1>1, <2>1, <2>2 DEF TlsRelayStep
<1>5. CASE UNCHANGED <<came, backlog, sent>>
  <2>1. TlsState' = TlsState
    BY <1>1, <1>5 DEF TlsState, IsOpen
  <2> QED BY <1>1, <1>5, <2>1 DEF TlsRelayStep
<1> QED
  BY <1>2, <1>3, <1>4, <1>5 DEF TlsQuiet, Run, Wait, WaitListen, WaitSock, WaitReturns, BatchEnds,
     DispatchListen, AcceptEnds, Stop, Remote, RemoteReads, RemoteEnds, ClientHello,
     HandshakeWantsRead, HandshakeWantsWrite, TlsEvent, FlushDone, FlushAgain, ForwardDrained,
     remotes, listener

(* accept_connection shows nothing, the end of the handshake opens the     *)
(* connection or closes it.                                                *)
LEMMA GreetingRelays ==
  ASSUME TlsInv, (\E c \in Conns : TlsAccept(c)) \/ HandshakeDone \/ HandshakeFails
  PROVE  TlsRelayStep
<1> USE DEF TlsInv, TlsTablesInv
<1>1. UNCHANGED <<sent, TlsDelivered, came>>
  BY DEF TlsAccept, HandshakeDone, HandshakeFails, ReadsHello, remotes, bytes, TlsDelivered
<1>2. fdOf \in [Socks -> Fds \cup {ListenFd}]
  BY DEF TlsTypes, LoopTypes
<1>3. ASSUME NEW c \in Conns, TlsAccept(c) PROVE TlsRelayStep
  <2> DEFINE fd == Lowest({fdOf[s] : s \in Socks})
  <2>1. /\ c \in backlog /\ backlog' = backlog \ {c} /\ fdOf' = [fdOf EXCEPT ![Client(c)] = fd]
        /\ ~IsOpen(Client(c)) /\ ~IsOpen(Target(c))
    BY <1>3, SocksArePairs DEF TlsAccept, Arrivals
  <2>2. fd \in Fds
    BY <1>2, <2>1, SocksArePairs, LowestIsFreeForOne
  <2> HIDE DEF fd
  <2>3. IsOpen(Client(c))'
    BY <1>2, <2>1, <2>2, SocksArePairs DEF IsOpen, Fds, ListenFd
  <2>4. \A d \in Conns : /\ IsOpen(Target(d))' <=> IsOpen(Target(d))
                         /\ d # c => (IsOpen(Client(d))' <=> IsOpen(Client(d)))
    <3>1. \A d \in Conns : Target(d) # Client(c) /\ (d # c => Client(d) # Client(c))
      BY SocksArePairs
    <3> QED BY <1>2, <2>1, <3>1, SocksArePairs DEF IsOpen
  <2>5. TlsState' = TlsState
    BY <1>1, <2>1, <2>3, <2>4 DEF TlsState
  <2> QED BY <1>1, <2>5 DEF TlsRelayStep
<1>4. CASE HandshakeDone
  <2> DEFINE fd == Lowest({fdOf[s] : s \in Socks})
  <2>1. PICK c \in Conns :
        /\ IsOpen(Client(c)) /\ ~IsOpen(Target(c))
        /\ fdOf' = [fdOf EXCEPT ![Target(c)] = fd] /\ backlog' = backlog
    <3>1. Handshakes("dispatch")
      BY <1>4 DEF HandshakeDone
    <3> QED BY <1>4, <3>1, GreetingIsPending DEF HandshakeDone, listener
  <2>2. fd \in Fds
    BY <1>2, <2>1, SocksArePairs, LowestIsFreeForOne
  <2> HIDE DEF fd
  <2>3. IsOpen(Target(c))'
    BY <1>2, <2>1, <2>2, SocksArePairs DEF IsOpen, Fds, ListenFd
  <2>4. \A d \in Conns : /\ IsOpen(Client(d))' <=> IsOpen(Client(d))
                         /\ d # c => (IsOpen(Target(d))' <=> IsOpen(Target(d)))
    <3>1. \A d \in Conns : Client(d) # Target(c) /\ (d # c => Target(d) # Target(c))
      BY <2>1, SocksArePairs
    <3> QED BY <1>2, <2>1, <3>1, SocksArePairs DEF IsOpen
  <2>5. TlsState[c] = "new" /\ TlsState' = [TlsState EXCEPT ![c] = "open"]
    BY <1>1, <2>1, <2>3, <2>4 DEF TlsState
  <2> QED BY <1>1, <2>1, <2>5 DEF TlsRelayStep
<1>5. CASE HandshakeFails
  <2> DEFINE c == Greeting[1]
  <2>1. /\ c \in Conns /\ IsOpen(Client(c)) /\ ~IsOpen(Target(c))
        /\ fdOf' = [s \in Socks |-> IF s \in {Client(c)} THEN ListenFd ELSE fdOf[s]]
        /\ backlog' = backlog
    <3>1. Handshakes("dispatch")
      BY <1>5 DEF HandshakeFails
    <3> QED BY <1>5, <3>1, GreetingIsPending DEF HandshakeFails, CloseSocks, listener
  <2> HIDE DEF c
  <2>2. c \in came \ backlog
    BY <2>1, SocksArePairs DEF Arrivals
  <2>3. \A d \in Conns : /\ IsOpen(Client(d))' <=> IsOpen(Client(d)) /\ d # c
                         /\ IsOpen(Target(d))' <=> IsOpen(Target(d))
    <3>1. \A d \in Conns : /\ Target(d) # Client(c) /\ (d # c => Client(d) # Client(c))
                           /\ Target(d) \in Socks /\ Client(d) \in Socks
      BY <2>1, SocksArePairs
    <3> QED BY <2>1, <3>1 DEF IsOpen
  <2>4. TlsState[c] = "new" /\ TlsState' = [TlsState EXCEPT ![c] = "closed"]
    BY <1>1, <2>1, <2>2, <2>3 DEF TlsState
  <2> QED BY <1>1, <2>1, <2>4 DEF TlsRelayStep
<1> QED BY <1>3, <1>4, <1>5

(* close_connection closes a connected pair, or knows the descriptor no    *)
(* more.                                                                   *)
LEMMA TlsClosingRelays ==
  ASSUME TlsInv, TlsHangup \/ FlushFails \/ ForwardFails \/ ForwardEnds
  PROVE  TlsRelayStep
<1> USE DEF TlsInv
<1>1. /\ pc' = "dispatch" /\ UNCHANGED <<came, backlog, sent, pending>>
      /\ UNCHANGED TlsDelivered /\ \E fd : TlsClose(fd)
  BY DEF TlsHangup, FlushFails, ForwardFails, ForwardEnds, Takes, Returns, remotes, listener, bytes,
     TlsDelivered
<1>2. PICK fd : TlsClose(fd)
  BY <1>1
<1>3. CASE fd \notin DOMAIN connections
  <2>1. fdOf' = fdOf
    BY <1>2, <1>3 DEF TlsClose
  <2>2. TlsState' = TlsState
    BY <1>1, <2>1 DEF TlsState, IsOpen
  <2> QED BY <1>1, <2>2 DEF TlsRelayStep
<1>4. CASE fd \in DOMAIN connections
  <2>1. PICK u \in Socks :
          /\ Connected(u)
          /\ \A t \in Socks : IsOpen(t)' <=> IsOpen(t) /\ t \notin {u, Other(u)}
    BY <1>1, <1>2, <1>4, TlsCloseCloses
  <2> DEFINE c == u[1]
  <2>2. /\ c \in Conns /\ {u, Other(u)} = {Client(c), Target(c)}
        /\ IsOpen(Client(c)) /\ IsOpen(Target(c))
    BY <2>1, SocksArePairs DEF Connected
  <2> HIDE DEF c
  <2>3. c \in came \ backlog
    BY <2>2, SocksArePairs DEF Arrivals, TlsTablesInv
  <2>4. \A d \in Conns : /\ IsOpen(Client(d))' <=> IsOpen(Client(d)) /\ d # c
                         /\ IsOpen(Target(d))' <=> IsOpen(Target(d)) /\ d # c
    <3> SUFFICES ASSUME NEW d \in Conns
                 PROVE  /\ IsOpen(Client(d))' <=> IsOpen(Client(d)) /\ d # c
                        /\ IsOpen(Target(d))' <=> IsOpen(Target(d)) /\ d # c
      OBVIOUS
    <3>1. /\ Client(d) \in Socks /\ Target(d) \in Socks
          /\ Client(d) \in {Client(c), Target(c)} <=> d = c
          /\ Target(d) \in {Client(c), Target(c)} <=> d = c
      BY <2>2, SocksArePairs
    <3> QED BY <2>1, <2>2, <3>1
  <2>5. TlsState[c] = "open" /\ TlsState' = [TlsState EXCEPT ![c] = "closed"]
    BY <1>1, <2>2, <2>3, <2>4 DEF TlsState
  <2> QED BY <1>1, <2>2, <2>5 DEF TlsRelayStep
<1> QED BY <1>3, <1>4

(* Writing delivers the next chunk, or one that Relay does not see.        *)
LEMMA TransfersRelay ==
  ASSUME TlsInv, WasSent, Transfers
  PROVE  TlsRelayStep
<1> USE DEF TlsInv, TlsTablesInv
<1>1. UNCHANGED <<fdOf, came, backlog, sent>>
  BY DEF Transfers, FlushWrite, ForwardWrites, ForwardBuffers, ForwardDrops, remotes, listener
<1>2. TlsState' = TlsState
  BY <1>1 DEF TlsState, IsOpen
<1>3. CASE out' = out
  <2>1. TlsDelivered' = TlsDelivered
    BY <1>3 DEF TlsDelivered
  <2> QED BY <1>1, <1>2, <2>1 DEF TlsRelayStep
<1>4. CASE out' # out
  <2>1. PICK s \in Socks, e \in Socks \X Nat :
          /\ Connected(s) /\ e[2] <= sent[Other(s)]
          /\ out' = [out EXCEPT ![s] = Append(out[s], e)]
    BY <1>4, TransfersWriteWhatWasSent
  <2> DEFINE from == Other(s)
             seen == InOrder(out[s], from)
  <2>2. out[s] \in Seq(Socks \X Nat) /\ out'[s] = Append(out[s], e)
        /\ \A r \in Socks : r # s => out'[r] = out[r]
    BY <2>1 DEF TlsTypes, LoopTypes
  <2>3. \A r \in Socks : r # s => TlsDelivered'[r] = TlsDelivered[r]
    BY <2>2 DEF TlsDelivered
  <2>4. TlsDelivered[s] = seen /\ TlsDelivered'[s] = InOrder(Append(out[s], e), from)
    BY <2>2 DEF TlsDelivered
  <2>5. TlsDelivered = [r \in Socks |-> TlsDelivered[r]] /\ TlsDelivered' = [r \in Socks |-> TlsDelivered'[r]]
    BY DEF TlsDelivered
  <2>6. \/ TlsDelivered'[s] = seen
        \/ e = <<from, Len(seen) + 1>> /\ TlsDelivered'[s] = Append(seen, e)
    BY <2>2, <2>4, InOrderAppend
  <2> HIDE DEF seen, from
  <2>7. CASE TlsDelivered'[s] = seen
    <3>1. TlsDelivered' = TlsDelivered
      BY <2>3, <2>4, <2>5, <2>7
    <3> QED BY <1>1, <1>2, <3>1 DEF TlsRelayStep
  <2>8. CASE e = <<from, Len(seen) + 1>> /\ TlsDelivered'[s] = Append(seen, e)
    <3>1. Len(seen) < sent[from]
      <4>1. Len(seen) \in Nat /\ sent[from] \in Nat
        <5>1. \E k : Stops(out[s], from, k) /\ Len(seen) = k
          BY <2>2, InOrderIsPrefix DEF seen
        <5> QED BY <2>2, <5>1, SocksArePairs DEF Stops, from, TlsTypes, LoopTypes
      <4>2. Len(seen) + 1 <= sent[from]
        BY <2>1, <2>8 DEF from
      <4> QED BY <4>1, <4>2
    <3>2. TlsState[s[1]] = "open"
      <4>1. s[1] \in Conns /\ IsOpen(Target(s[1]))
        BY <2>1, SocksArePairs DEF Connected
      <4> QED BY <4>1 DEF TlsState
    <3>3. TlsDelivered' = [TlsDelivered EXCEPT ![s] = Append(seen, <<from, Len(seen) + 1>>)]
      BY <2>3, <2>5, <2>8
    <3> QED BY <1>1, <1>2, <2>4, <3>1, <3>2, <3>3 DEF TlsRelayStep, from
  <2> QED BY <2>6, <2>7, <2>8
<1> QED BY <1>3, <1>4

(* Every step of TlsProxy is one of Relay, or shows it nothing.            *)
LEMMA TlsNextRelays ==
  ASSUME TlsInv, WasSent, TlsNext
  PROVE  TlsRelayStep /\ WasSent'
<1>1. WasSent'
  BY TlsOthersKeepWasSent, TransfersWriteWhatWasSent
<1>2. TlsRelayStep
  BY TlsQuietRelays, GreetingRelays, TlsClosingRelays, TransfersRelay
     DEF TlsNext, TlsLoop, TlsHandshake, TlsFlush, TlsForward, TlsQuiet, Transfers
<1> QED BY <1>1, <1>2

(* Both proxies refine Relay: connections open once and close for good,    *)
(* and every chunk that reaches a far end is the next one of the other     *)
(* side and was sent, whatever stale events, resets, failed handshakes and *)
(* time-outs meet it; in TlsProxy up to the first chunk that overtook.     *)
THEOREM ProxiesRefineRelay == Spec => ProxiesImplementRelay
<1> DEFINE TlsSent == part = "tls" => WasSent
<1>1. Init => AbstractRelay!Init /\ TlsSent
  <2> SUFFICES ASSUME Init PROVE AbstractRelay!Init /\ TlsSent
    OBVIOUS
  <2>1. /\ sent = [s \in Socks |-> 0] /\ out = [s \in Socks |-> <<>>]
        /\ \A s \in Socks : fdOf[s] = ListenFd
        /\ came = {}
        /\ taken = [s \in Socks |-> 0] /\ wbuf = [s \in Socks |-> <<>>]
    BY DEF Init, EpollInit, TlsInit, LoopInit
  <2>2. EpollState = [c \in Conns |-> "new"] /\ TlsState = [c \in Conns |-> "new"]
    BY <2>1, SocksArePairs DEF EpollState, TlsState, IsOpen
  <2>3. TlsDelivered = out
    <3>1. \A s : InOrder(<<>>, s) = <<>>
      <4> TAKE s
      <4>1. <<>> \in Seq(Socks \X Nat)
        OBVIOUS
      <4>2. PICK k : Stops(<<>>, s, k) /\ InOrder(<<>>, s) = SubSeq(<<>>, 1, k)
        BY <4>1, InOrderIsPrefix
      <4>3. k = 0
        BY <4>2 DEF Stops
      <4> QED BY <4>2, <4>3
    <3> QED BY <2>1, <3>1 DEF TlsDelivered
  <2>4. WasSent
    BY <2>1, SocksArePairs DEF WasSent
  <2> QED BY <2>1, <2>2, <2>3, <2>4 DEF AbstractRelay!Init, AbstractRelay!Socks, Socks
<1>2. ProxiesInv /\ TlsPartInv /\ TlsSent /\ [Next]_vars
        => [AbstractRelay!Next]_(AbstractRelay!vars) /\ TlsSent'
  <2> SUFFICES ASSUME ProxiesInv, TlsPartInv, TlsSent, [Next]_vars
               PROVE  [AbstractRelay!Next]_(AbstractRelay!vars) /\ TlsSent'
    OBVIOUS
  <2> USE DEF AbstractRelay!Next, AbstractRelay!vars, AbstractRelay!Open, AbstractRelay!Close,
              AbstractRelay!Send, AbstractRelay!Deliver, AbstractRelay!Socks, AbstractRelay!Other,
              Socks, Other, Client, Target
  <2>1. CASE RunsEpoll
    <3>1. part = "epoll" /\ part' = "epoll" /\ RelayStep
      BY <2>1, EpollNextRelays DEF RunsEpoll, ProxiesInv
    <3>2. [AbstractRelay!Next]_(AbstractRelay!vars)
      BY <3>1 DEF RelayStep
    <3> QED BY <3>1, <3>2
  <2>2. CASE RunsTls
    <3>1. part = "tls" /\ part' = "tls" /\ TlsRelayStep /\ WasSent'
      BY <2>2, TlsNextRelays DEF RunsTls, TlsPartInv
    <3>2. [AbstractRelay!Next]_(AbstractRelay!vars)
      BY <3>1 DEF TlsRelayStep
    <3> QED BY <3>1, <3>2
  <2>3. CASE UNCHANGED vars
    <3>1. UNCHANGED <<part, sent, out, came, backlog, fdOf, taken, wbuf>>
      BY <2>3 DEF vars, loopVars, tlsVars, remotes, listener, bytes
    <3> QED BY <3>1 DEF EpollState, TlsState, TlsDelivered, IsOpen, WasSent
  <2> QED BY <2>1, <2>2, <2>3 DEF Next
<1> QED
  BY <1>1, <1>2, EpollInvariant, TlsInvariant, PTL
     DEF Spec, ProxiesImplementRelay, AbstractRelay!Spec
=============================================================================
