----------------------------- MODULE ProxiesProofs -----------------------------
(***************************************************************************)
(* EpollProxy keeps its tables consistent and takes only steps of Relay,   *)
(* proved for any number of connections, batch size and traffic.           *)
(*                                                                         *)
(* A batch of events names descriptors that may belong to a newer          *)
(* connection by the time they are handled.  What keeps that harmless is   *)
(* OwnEntries: connections_ holds exactly the open sockets, so that a      *)
(* stale number leads to a whole connection or to none.  Carried counts    *)
(* the chunks: whatever was read from one side has reached the other,      *)
(* except the one in the pipe of the event being handled.                  *)
(***************************************************************************)
EXTENDS ProxiesMC, FiniteSetTheorems, TLAPS

USE NumConnsIsNatural, MaxEventsIsPositive

(* A non-empty finite set of numbers has a least one, which Min chooses.   *)
LEMMA MinIsIn ==
  ASSUME NEW S \in SUBSET Nat, IsFiniteSet(S), S # {}
  PROVE  Min(S) \in S /\ \A x \in S : Min(S) <= x
<1> DEFINE Upto(x) == {y \in S : y <= x}
           T == {Upto(x) : x \in S}
<1>1. IsWellFoundedOn(StrictSubsetOrdering(S), FiniteSubsetsOf(S))
  BY FS_StrictSubsetOrderingWellFounded
<1>2. T \subseteq FiniteSubsetsOf(S) /\ T # {}
  <2>1. FiniteSubsetsOf(S) = SUBSET S
    BY FS_FiniteSubsetsOfFinite
  <2>2. \A x \in S : Upto(x) \in SUBSET S
    OBVIOUS
  <2>3. PICK x \in S : TRUE
    OBVIOUS
  <2>4. Upto(x) \in T
    OBVIOUS
  <2>5. \A U \in T : U \in SUBSET S
    BY <2>2
  <2> HIDE DEF T
  <2> QED BY <2>1, <2>4, <2>5
<1>3. PICK U \in T : \A V \in T : <<V, U>> \notin StrictSubsetOrdering(S)
  <2> HIDE DEF T
  <2> QED BY <1>1, <1>2, WFMin
<1>4. PICK x \in S : U = Upto(x)
  BY <1>3
<1>5. ASSUME NEW y \in S PROVE x <= y
  <2> SUFFICES ASSUME y < x PROVE FALSE
    OBVIOUS
  <2>1. Upto(y) \in T /\ Upto(y) \in SUBSET S /\ Upto(x) \in SUBSET S
    OBVIOUS
  <2>2. Upto(y) \subseteq Upto(x) /\ Upto(y) # Upto(x)
    <3>1. x \in Upto(x) /\ x \notin Upto(y)
      BY x \in Nat, y \in Nat
    <3>2. \A z \in S : z <= y => z <= x
      BY x \in Nat, y \in Nat
    <3> QED BY <3>1, <3>2
  <2>3. <<Upto(y), Upto(x)>> \in StrictSubsetOrdering(S)
    <3> HIDE DEF Upto
    <3> QED BY <2>1, <2>2 DEF StrictSubsetOrdering
  <2> QED BY <1>3, <1>4, <2>1, <2>3
<1>6. \E z \in S : \A y \in S : z <= y
  BY <1>4, <1>5
<1> QED BY <1>6 DEF Min

(* Two sockets of each connection.                                         *)
LEMMA SocksArePairs ==
  /\ \A c \in Conns : /\ Client(c) \in Socks /\ Target(c) \in Socks /\ Client(c) # Target(c)
                      /\ Other(Client(c)) = Target(c) /\ Other(Target(c)) = Client(c)
                      /\ Client(c)[1] = c /\ Target(c)[1] = c
                      /\ Client(c)[2] = "client" /\ Target(c)[2] # "client"
  /\ \A s \in Socks : /\ s[1] \in Conns /\ (s = Client(s[1]) \/ s = Target(s[1]))
                      /\ Other(s) \in Socks /\ Other(s) # s /\ Other(Other(s)) = s
                      /\ Other(s)[1] = s[1]
  /\ \A s, t \in Socks : s[1] = t[1] => t \in {s, Other(s)}
  BY DEF Socks, Client, Target, Other

(* There are at least as many descriptor numbers as sockets.               *)
LEMMA SocksAreCounted ==
  /\ IsFiniteSet(Socks) /\ Cardinality(Socks) <= 2 * NumConns
  /\ IsFiniteSet(Fds) /\ Cardinality(Fds) = 2 * NumConns
<1> DEFINE f == [s \in Socks |-> IF s[2] = "client" THEN 2 * s[1] ELSE 2 * s[1] - 1]
<1>1. f \in [Socks -> Fds]
  BY DEF Socks, Conns, Fds
<1>2. \A s, t \in Socks : f[s] = f[t] => s = t
  <2> SUFFICES ASSUME NEW s \in Socks, NEW t \in Socks, f[s] = f[t] PROVE s = t
    OBVIOUS
  <2>1. s[1] \in Int /\ t[1] \in Int /\ s[2] \in {"client", "target"} /\ t[2] \in {"client", "target"}
    BY DEF Socks, Conns
  <2>2. s[1] = t[1] /\ s[2] = t[2]
    BY <2>1
  <2> QED BY <2>2 DEF Socks
<1>3. f \in Injection(Socks, Fds)
  <2> HIDE DEF f
  <2> QED BY <1>1, <1>2 DEF Injection, IsInjective
<1>4. IsFiniteSet(Fds) /\ Cardinality(Fds) = 2 * NumConns
  BY FS_Interval DEF Fds
<1> HIDE DEF f
<1> QED BY <1>3, <1>4, FS_Injection

(* While the two sockets of c are closed there are two free numbers, and   *)
(* Lowest finds them.                                                      *)
LEMMA LowestIsFree ==
  ASSUME NEW c \in Conns, fdOf \in [Socks -> Fds \cup {ListenFd}],
         ~IsOpen(Client(c)), ~IsOpen(Target(c))
  PROVE  LET used == {fdOf[s] : s \in Socks}
         IN  /\ Lowest(used) \in Fds \ used
             /\ Lowest(used \cup {Lowest(used)}) \in Fds \ (used \cup {Lowest(used)})
<1> DEFINE used == {fdOf[s] : s \in Socks}
           rest == Socks \ {Client(c), Target(c)}
           g == [s \in rest |-> fdOf[s]]
           image == {g[s] : s \in rest}
<1>1. IsFiniteSet(rest) /\ Cardinality(rest) <= 2 * NumConns - 2
  <2>1. /\ IsFiniteSet(Socks \ {Client(c)})
        /\ Cardinality(Socks \ {Client(c)}) = Cardinality(Socks) - 1
    BY SocksArePairs, SocksAreCounted, FS_RemoveElement
  <2>2. /\ IsFiniteSet((Socks \ {Client(c)}) \ {Target(c)})
        /\ Cardinality((Socks \ {Client(c)}) \ {Target(c)}) = Cardinality(Socks) - 2
    <3>1. Target(c) \in Socks \ {Client(c)}
      BY SocksArePairs
    <3>2. Cardinality(Socks) \in Nat
      BY SocksAreCounted, FS_CardinalityType
    <3> DEFINE A == Socks \ {Client(c)}
    <3> HIDE DEF A
    <3>3. IsFiniteSet(A \ {Target(c)}) /\ Cardinality(A \ {Target(c)}) = Cardinality(A) - 1
      BY <2>1, <3>1, FS_RemoveElement DEF A
    <3> QED BY <2>1, <3>2, <3>3 DEF A
  <2>3. rest = (Socks \ {Client(c)}) \ {Target(c)}
    OBVIOUS
  <2>4. Cardinality(Socks) \in Nat
    BY SocksAreCounted, FS_CardinalityType
  <2> QED BY <2>2, <2>3, <2>4, SocksAreCounted
<1>2. IsFiniteSet(image) /\ Cardinality(image) <= 2 * NumConns - 2
  <2>1. g \in Surjection(rest, image)
    BY DEF Surjection
  <2>2. IsFiniteSet(image) /\ Cardinality(image) <= Cardinality(rest)
    BY <1>1, <2>1, FS_Surjection
  <2>3. Cardinality(image) \in Nat /\ Cardinality(rest) \in Nat
    BY <1>1, <2>2, FS_CardinalityType
  <2> QED BY <1>1, <2>2, <2>3
<1>3. used \cap Fds \subseteq image
  BY SocksArePairs DEF IsOpen, Fds, ListenFd
<1>4. ASSUME NEW U, IsFiniteSet(U), Cardinality(U) < 2 * NumConns, NEW V, V \cap Fds \subseteq U
      PROVE  Lowest(V) \in Fds \ V
  <2>1. Fds \ V # {}
    <3> SUFFICES ASSUME Fds \subseteq V PROVE FALSE
      OBVIOUS
    <3>1. Fds \subseteq U
      BY <1>4
    <3>2. Cardinality(Fds) <= Cardinality(U) /\ Cardinality(U) \in Nat
      BY <1>4, <3>1, FS_Subset, FS_CardinalityType
    <3> QED BY <1>4, <3>2, SocksAreCounted
  <2>2. IsFiniteSet(Fds \ V) /\ Fds \ V \in SUBSET Nat
    <3>1. Fds \ V \in SUBSET Fds /\ Fds \subseteq Nat
      BY DEF Fds
    <3> QED BY <3>1, SocksAreCounted, FS_Subset
  <2> QED BY <2>1, <2>2, MinIsIn DEF Lowest
<1> HIDE DEF used, image
<1>5. Cardinality(image) \in Nat
  BY <1>2, FS_CardinalityType
<1>6. Lowest(used) \in Fds \ used
  BY <1>2, <1>3, <1>4, <1>5
<1>7. Lowest(used \cup {Lowest(used)}) \in Fds \ (used \cup {Lowest(used)})
  <2> DEFINE l == Lowest(used)
  <2> HIDE DEF l
  <2>1. /\ IsFiniteSet(image \cup {l})
        /\ Cardinality(image \cup {l}) < 2 * NumConns
    BY <1>2, <1>5, FS_AddElement
  <2>2. (used \cup {l}) \cap Fds \subseteq image \cup {l}
    BY <1>3
  <2>3. Lowest(used \cup {l}) \in Fds \ (used \cup {l})
    BY <1>4, <2>1, <2>2
  <2> QED BY <2>3 DEF l
<1> QED BY <1>6, <1>7 DEF used
----------------------------------------------------------------------------
(* The inductive invariant of EpollProxy.                                  *)

Forwarding == {"splice", "move", "poll"}

LoopTypes ==
  /\ fdOf \in [Socks -> Fds \cup {ListenFd}]
  /\ sent \in [Socks -> Nat] /\ taken \in [Socks -> Nat]
  /\ out \in [Socks -> Seq(Socks \X Nat)]

(* No number is used twice; a connection has both sockets or neither.      *)
OwnNumbers ==
  /\ \A s, t \in Socks : IsOpen(s) /\ fdOf[s] = fdOf[t] => s = t
  /\ \A s \in Socks : IsOpen(s) => IsOpen(Other(s))

(* connections_ has exactly the open sockets, each with its own entry.     *)
OwnEntries ==
  /\ DOMAIN connections = {fdOf[s] : s \in {t \in Socks : IsOpen(t)}}
  /\ \A s \in Socks : IsOpen(s) =>
       connections[fdOf[s]] = [peer |-> fdOf[Other(s)], isClient |-> s[2] = "client"]

(* active_connections_ counts pairs; the pool never outgrows its bound.    *)
Counted ==
  /\ IsFiniteSet(DOMAIN connections) /\ active \in Nat
  /\ 2 * active = Cardinality(DOMAIN connections)
PoolFits ==
  pool \in Nat /\ pool <= MaxEvents /\ (pc \in Forwarding => pool < MaxEvents)

(* Clients arrive once, and are accepted before they are open.             *)
Arrivals ==
  /\ \E n \in 0 .. NumConns : came = 1 .. n
  /\ backlog \subseteq came
  /\ \A s \in Socks : IsOpen(s) => s[1] \in came \ backlog

(* forward_data works on an entry of the table; what it has taken from a   *)
(* socket has reached the other side, but for the chunk in the pipe.       *)
Working == pc \in Forwarding => cur.fd \in DOMAIN connections
InHand(s) == pc \in {"move", "poll"} /\ fdOf[s] = cur.fd
Carried ==
  /\ \A s \in Socks : taken[s] <= sent[s]
  /\ \A s \in Socks : IsOpen(s) => taken[s] = Len(out[Other(s)]) + (IF InHand(s) THEN 1 ELSE 0)
  /\ \A s \in Socks : s[1] \notin came \ backlog => taken[s] = 0 /\ out[s] = <<>>
  /\ \A s \in Socks : InHand(s) => pipe = <<s, taken[s]>>

(* The inductive invariant of EpollProxy.                                  *)
EpollInv ==
  LoopTypes /\ OwnNumbers /\ OwnEntries /\ Counted /\ PoolFits /\ Arrivals /\ Working /\ Carried

(* The socket that forward_data reads from.                                *)
LEMMA FromIsOpen ==
  ASSUME EpollInv, pc \in Forwarding
  PROVE  From \in Socks /\ IsOpen(From) /\ fdOf[From] = cur.fd /\ To = Other(From)
<1>1. PICK s \in Socks : IsOpen(s) /\ fdOf[s] = cur.fd
  BY DEF EpollInv, Working, OwnEntries
<1>2. From \in Socks /\ fdOf[From] = cur.fd
  BY <1>1 DEF From, SockAt
<1> QED BY <1>1, <1>2 DEF IsOpen, To

(* What close_connection does with a descriptor of the table.              *)
LEMMA CloseConnectionCloses ==
  ASSUME EpollInv, NEW fd \in DOMAIN connections, CloseConnection(fd)
  PROVE  \E s \in Socks :
           /\ IsOpen(s) /\ fdOf[s] = fd
           /\ fdOf' = [t \in Socks |-> IF t \in {s, Other(s)} THEN ListenFd ELSE fdOf[t]]
           /\ connections' = [f \in DOMAIN connections \ {fdOf[s], fdOf[Other(s)]} |-> connections[f]]
           /\ active' = active - 1
<1>1. PICK s \in Socks : IsOpen(s) /\ fdOf[s] = fd
  BY DEF EpollInv, OwnEntries
<1>2. connections[fd].peer = fdOf[Other(s)]
  <2>1. connections[fd] = [peer |-> fdOf[Other(s)], isClient |-> s[2] = "client"]
    BY <1>1 DEF EpollInv, OwnEntries
  <2>2. PICK b : connections[fd] = [peer |-> fdOf[Other(s)], isClient |-> b]
    BY <2>1
  <2> QED BY <2>2
<1>3. {t \in Socks : fdOf[t] \in {fd, connections[fd].peer}} = {s, Other(s)}
  BY <1>1, <1>2, SocksArePairs DEF EpollInv, OwnNumbers
<1>4. /\ CloseSocks({s, Other(s)})
      /\ connections' = [f \in DOMAIN connections \ {fd, connections[fd].peer} |-> connections[f]]
      /\ active' = active - 1
  BY <1>3 DEF CloseConnection
<1> QED BY <1>1, <1>2, <1>4 DEF CloseSocks

(* The tables after close_connection, of any descriptor.                   *)
LEMMA CloseConnectionKeepsTables ==
  ASSUME EpollInv, NEW fd, CloseConnection(fd)
  PROVE  /\ fdOf' \in [Socks -> Fds \cup {ListenFd}] /\ OwnNumbers' /\ OwnEntries' /\ Counted'
         /\ \A s \in Socks : fdOf'[s] # ListenFd => fdOf'[s] = fdOf[s]
<1> USE DEF EpollInv
<1>1. CASE fd \notin DOMAIN connections
  BY <1>1 DEF CloseConnection, LoopTypes, OwnNumbers, OwnEntries, Counted, IsOpen
<1>2. CASE fd \in DOMAIN connections
  <2>1. PICK s \in Socks :
           /\ IsOpen(s) /\ fdOf[s] = fd
           /\ fdOf' = [t \in Socks |-> IF t \in {s, Other(s)} THEN ListenFd ELSE fdOf[t]]
           /\ connections' = [f \in DOMAIN connections \ {fdOf[s], fdOf[Other(s)]} |-> connections[f]]
           /\ active' = active - 1
    BY <1>2, CloseConnectionCloses
  <2>2. fdOf' \in [Socks -> Fds \cup {ListenFd}]
    BY <2>1 DEF LoopTypes
  <2>3. \A t \in Socks : /\ IsOpen(t)' <=> IsOpen(t) /\ t \notin {s, Other(s)}
                         /\ IsOpen(t)' => fdOf'[t] = fdOf[t]
    BY <2>1 DEF IsOpen
  <2>4. \A t \in Socks : t \notin {s, Other(s)} => Other(t) \in Socks \ {s, Other(s)}
    BY <2>1, SocksArePairs
  <2>5. OwnNumbers'
    <3>1. ASSUME NEW t \in Socks, NEW u \in Socks, IsOpen(t)', fdOf'[t] = fdOf'[u] PROVE t = u
      <4>1. IsOpen(u)'
        BY <3>1 DEF IsOpen
      <4> QED BY <2>3, <3>1, <4>1 DEF OwnNumbers
    <3>2. \A t \in Socks : IsOpen(t)' => IsOpen(Other(t))'
      BY <2>3, <2>4, SocksArePairs DEF OwnNumbers
    <3> QED BY <3>1, <3>2 DEF OwnNumbers
  <2>6. OwnEntries'
    <3>1. DOMAIN connections' = {fdOf'[t] : t \in {u \in Socks : IsOpen(u)'}}
      <4>1. \A t \in Socks : IsOpen(t) /\ fdOf[t] \in {fdOf[s], fdOf[Other(s)]} => t \in {s, Other(s)}
        BY <2>1, SocksArePairs DEF OwnNumbers
      <4>2. DOMAIN connections' = DOMAIN connections \ {fdOf[s], fdOf[Other(s)]}
        BY <2>1
      <4> QED BY <2>3, <4>1, <4>2 DEF OwnEntries
    <3>2. ASSUME NEW t \in Socks, IsOpen(t)'
          PROVE  connections'[fdOf'[t]] = [peer |-> fdOf'[Other(t)], isClient |-> t[2] = "client"]
      <4>1. IsOpen(t) /\ fdOf'[t] = fdOf[t] /\ fdOf'[Other(t)] = fdOf[Other(t)]
        BY <2>1, <2>3, <2>4, <3>2
      <4>2. fdOf[t] \in DOMAIN connections'
        BY <3>1, <3>2, <4>1
      <4> QED BY <2>1, <3>2, <4>1, <4>2 DEF OwnEntries
    <3> QED BY <3>1, <3>2 DEF OwnEntries
  <2>7. Counted'
    <3> DEFINE D == DOMAIN connections
    <3>1. fdOf[s] \in D /\ fdOf[Other(s)] \in D \ {fdOf[s]}
      BY <2>1, SocksArePairs DEF OwnNumbers, OwnEntries
    <3>2. IsFiniteSet(D) /\ Cardinality(D) = 2 * active /\ active \in Nat
      BY DEF Counted
    <3>3. DOMAIN connections' = (D \ {fdOf[s]}) \ {fdOf[Other(s)]}
      BY <2>1
    <3> HIDE DEF D
    <3>4. IsFiniteSet(D \ {fdOf[s]}) /\ Cardinality(D \ {fdOf[s]}) = 2 * active - 1
      BY <3>1, <3>2, FS_RemoveElement
    <3>5. /\ IsFiniteSet(DOMAIN connections')
          /\ Cardinality(DOMAIN connections') = 2 * active - 1 - 1
      <4> DEFINE E == D \ {fdOf[s]}
      <4> HIDE DEF E
      <4>1. /\ IsFiniteSet(E \ {fdOf[Other(s)]})
            /\ Cardinality(E \ {fdOf[Other(s)]}) = Cardinality(E) - 1
        BY <3>1, <3>4, FS_RemoveElement DEF E
      <4> QED BY <3>3, <3>4, <4>1 DEF E
    <3>6. active' \in Nat
      <4>1. Cardinality(DOMAIN connections') \in Nat
        BY <3>5, FS_CardinalityType
      <4> QED BY <2>1, <3>2, <3>5, <4>1
    <3> QED BY <2>1, <3>2, <3>5, <3>6 DEF Counted
  <2> QED BY <2>2, <2>3, <2>5, <2>6, <2>7 DEF IsOpen
<1> QED BY <1>1, <1>2
----------------------------------------------------------------------------
(* Steps that touch no descriptor and no chunk in hand.                    *)
LEMMA QuietStepsKeepEpollInv ==
  ASSUME EpollInv,
         \/ (Run \/ Wait \/ BatchEnds \/ DispatchListen \/ AcceptEnds) /\ UNCHANGED epollVars
         \/ (Remote \/ Stop) /\ UNCHANGED epollVars
         \/ \E c \in Conns : EpollAcceptFails(c)
  PROVE  EpollInv'
<1> USE DEF EpollInv
<1>1. UNCHANGED <<fdOf, connections, active, pool, pipe, taken, out>>
  BY DEF Run, Wait, WaitListen, WaitSock, WaitReturns, BatchEnds, DispatchListen, AcceptEnds, Stop,
     EpollAcceptFails, Remote, ClientConnects, RemoteSends, RemoteReads, RemoteEnds, epollVars, bytes
<1>2. (pc' = pc /\ cur' = cur) \/ (pc \notin Forwarding /\ pc' \notin Forwarding)
  BY DEF Run, Wait, WaitListen, WaitSock, WaitReturns, BatchEnds, DispatchListen, Takes, AcceptEnds,
     Stop, EpollAcceptFails, Remote, ClientConnects, RemoteSends, RemoteReads, RemoteEnds, Forwarding
<1>3. sent' \in [Socks -> Nat] /\ \A s \in Socks : sent[s] <= sent'[s]
  <2>1. CASE UNCHANGED sent
    BY <2>1 DEF LoopTypes
  <2>2. CASE \E s \in Socks : RemoteSends(s)
    BY <2>2 DEF RemoteSends, LoopTypes
  <2> QED
    BY <2>1, <2>2 DEF Run, Wait, WaitListen, WaitSock, WaitReturns, BatchEnds, DispatchListen,
       AcceptEnds, Stop, EpollAcceptFails, Remote, ClientConnects, RemoteReads, RemoteEnds, remotes
<1>4. /\ \E n \in 0 .. NumConns : came' = 1 .. n
      /\ backlog' \subseteq came'
      /\ came \ backlog \subseteq came' \ backlog'
  <2>1. CASE UNCHANGED <<came, backlog>>
    BY <2>1 DEF Arrivals
  <2>2. ASSUME NEW c \in Conns, EpollAcceptFails(c)
        PROVE  came' = came /\ backlog' = backlog \ {c}
    BY <2>2 DEF EpollAcceptFails, remotes
  <2>3. ASSUME NEW c \in Conns, ClientConnects(c)
        PROVE  /\ \E n \in 0 .. NumConns : came' = 1 .. n
               /\ c \notin came /\ came' = came \cup {c} /\ backlog' = backlog \cup {c}
    <3>1. PICK n \in 0 .. NumConns : came = 1 .. n
      BY DEF Arrivals
    <3>2. Cardinality(came) = n
      BY <3>1, FS_Interval
    <3>3. c = n + 1
      BY <2>3, <3>2 DEF ClientConnects
    <3>4. came' = 1 .. (n + 1) /\ n + 1 \in 0 .. NumConns /\ c \notin came
      BY <2>3, <3>1, <3>3 DEF ClientConnects, Conns
    <3> QED BY <2>3, <3>4 DEF ClientConnects
  <2>4. \/ UNCHANGED <<came, backlog>> \/ \E c \in Conns : ClientConnects(c) \/ EpollAcceptFails(c)
    BY DEF Run, Wait, WaitListen, WaitSock, WaitReturns, BatchEnds, DispatchListen, AcceptEnds, Stop,
       Remote, RemoteSends, RemoteReads, RemoteEnds, remotes, listener
  <2> QED BY <2>1, <2>2, <2>3, <2>4 DEF Arrivals
<1>5. LoopTypes' /\ OwnNumbers' /\ OwnEntries' /\ Counted'
  BY <1>1, <1>3 DEF LoopTypes, OwnNumbers, OwnEntries, Counted, IsOpen
<1>6. PoolFits' /\ Working'
  BY <1>1, <1>2 DEF PoolFits, Working
<1>7. Arrivals'
  BY <1>1, <1>4 DEF Arrivals, IsOpen
<1>8. \A s \in Socks : InHand(s)' <=> InHand(s)
  BY <1>1, <1>2 DEF InHand, Forwarding
<1>9. Carried'
  <2>1. \A s \in Socks : taken'[s] <= sent'[s]
    BY <1>1, <1>3 DEF LoopTypes, Carried
  <2>2. \A s \in Socks : IsOpen(s)' =>
           taken'[s] = Len(out'[Other(s)]) + (IF InHand(s)' THEN 1 ELSE 0)
    BY <1>1, <1>8 DEF Carried, IsOpen
  <2>3. \A s \in Socks : s[1] \notin came' \ backlog' => taken'[s] = 0 /\ out'[s] = <<>>
    BY <1>1, <1>4 DEF Carried
  <2>4. \A s \in Socks : InHand(s)' => pipe' = <<s, taken'[s]>>
    BY <1>1, <1>8 DEF Carried
  <2> QED BY <2>1, <2>2, <2>3, <2>4 DEF Carried
<1> QED BY <1>5, <1>6, <1>7, <1>9

(* accept_connection: both sockets of the pair get a free number.          *)
LEMMA AcceptKeepsEpollInv ==
  ASSUME EpollInv, NEW c \in Conns, EpollAccept(c)
  PROVE  EpollInv'
<1> USE DEF EpollInv
<1> DEFINE used == {fdOf[s] : s \in Socks}
           cfd == Lowest(used)
           tfd == Lowest(used \cup {cfd})
<1>1. ~IsOpen(Client(c)) /\ ~IsOpen(Target(c)) /\ c \in backlog /\ c \in came
  BY SocksArePairs DEF EpollAccept, Arrivals
<1>2. cfd \in Fds \ used /\ tfd \in Fds \ (used \cup {cfd})
  BY <1>1, LowestIsFree DEF LoopTypes
<1>3. /\ fdOf' = [fdOf EXCEPT ![Client(c)] = cfd, ![Target(c)] = tfd]
      /\ connections' = [fd \in DOMAIN connections \cup {cfd, tfd} |->
                           CASE fd = cfd -> [peer |-> tfd, isClient |-> TRUE]
                             [] fd = tfd -> [peer |-> cfd, isClient |-> FALSE]
                             [] OTHER -> connections[fd]]
      /\ active' = active + 1 /\ backlog' = backlog \ {c} /\ pc = "accept"
      /\ UNCHANGED <<came, sent, taken, out, pc, cur, pool, pipe>>
  BY DEF EpollAccept, remotes, bytes
<1> HIDE DEF cfd, tfd
<1>4. cfd \in Fds /\ tfd \in Fds /\ cfd # tfd /\ \A s \in Socks : fdOf[s] \notin {cfd, tfd}
  BY <1>2
<1> HIDE DEF used
<1>5. /\ fdOf'[Client(c)] = cfd /\ fdOf'[Target(c)] = tfd
      /\ \A s \in Socks : s[1] # c => fdOf'[s] = fdOf[s]
  BY <1>3, SocksArePairs DEF LoopTypes
<1>6. \A s \in Socks : s[1] = c => s \in {Client(c), Target(c)}
  BY SocksArePairs
<1>7. ListenFd \notin Fds
  BY DEF Fds, ListenFd
<1>8. \A s \in Socks : IsOpen(s)' <=> IsOpen(s) \/ s[1] = c
  BY <1>4, <1>5, <1>6, <1>7, <1>1, SocksArePairs DEF IsOpen
<1>9. LoopTypes'
  BY <1>3, <1>4 DEF LoopTypes
<1>10. OwnNumbers'
  <2>1. ASSUME NEW s \in Socks, NEW t \in Socks, IsOpen(s)', fdOf'[s] = fdOf'[t] PROVE s = t
    <3>1. CASE s[1] # c /\ t[1] # c
      BY <2>1, <3>1, <1>5, <1>8 DEF OwnNumbers
    <3>2. CASE s[1] = c /\ t[1] # c
      BY <2>1, <3>2, <1>4, <1>5, <1>6
    <3>3. CASE s[1] # c /\ t[1] = c
      BY <2>1, <3>3, <1>4, <1>5, <1>6
    <3>4. CASE s[1] = c /\ t[1] = c
      BY <2>1, <3>4, <1>4, <1>5, <1>6
    <3> QED BY <3>1, <3>2, <3>3, <3>4
  <2>2. \A s \in Socks : IsOpen(s)' => IsOpen(Other(s))'
    BY <1>8, SocksArePairs DEF OwnNumbers
  <2> QED BY <2>1, <2>2 DEF OwnNumbers
<1>11. OwnEntries'
  <2>1. DOMAIN connections' = {fdOf'[s] : s \in {t \in Socks : IsOpen(t)'}}
    <3>1. DOMAIN connections' = DOMAIN connections \cup {cfd, tfd}
      BY <1>3
    <3>2. \A fd \in DOMAIN connections : \E s \in Socks : IsOpen(s)' /\ fdOf'[s] = fd
      BY <1>1, <1>5, <1>6, <1>8 DEF OwnEntries
    <3>3. \A s \in Socks : IsOpen(s)' => fdOf'[s] \in DOMAIN connections \cup {cfd, tfd}
      BY <1>5, <1>6, <1>8 DEF OwnEntries
    <3>4. \A fd \in {cfd, tfd} : \E s \in Socks : IsOpen(s)' /\ fdOf'[s] = fd
      BY <1>5, <1>8, SocksArePairs
    <3> QED BY <3>1, <3>2, <3>3, <3>4
  <2>2. ASSUME NEW s \in Socks, IsOpen(s)'
        PROVE  connections'[fdOf'[s]] = [peer |-> fdOf'[Other(s)], isClient |-> s[2] = "client"]
    <3>1. CASE s = Client(c)
      <4>1. connections'[cfd] = [peer |-> tfd, isClient |-> TRUE]
        BY <1>3, <1>4
      <4>2. Other(s) = Target(c) /\ (s[2] = "client") = TRUE
        BY <3>1, SocksArePairs
      <4> QED BY <1>5, <3>1, <4>1, <4>2
    <3>2. CASE s = Target(c)
      <4>1. connections'[tfd] = [peer |-> cfd, isClient |-> FALSE]
        BY <1>3, <1>4
      <4>2. Other(s) = Client(c) /\ (s[2] = "client") = FALSE
        BY <3>2, SocksArePairs
      <4> QED BY <1>5, <3>2, <4>1, <4>2
    <3>3. CASE s[1] # c
      <4>1. IsOpen(s) /\ fdOf'[s] = fdOf[s] /\ fdOf'[Other(s)] = fdOf[Other(s)]
        BY <1>5, <1>8, <2>2, <3>3, SocksArePairs
      <4>2. fdOf[s] \in DOMAIN connections /\ fdOf[s] \notin {cfd, tfd}
        BY <1>4, <4>1 DEF OwnEntries
      <4>3. connections'[fdOf[s]] = connections[fdOf[s]]
        BY <1>3, <4>2
      <4> QED BY <4>1, <4>3 DEF OwnEntries
    <3> QED BY <1>6, <3>1, <3>2, <3>3
  <2> QED BY <2>1, <2>2 DEF OwnEntries
<1>12. Counted'
  <2> DEFINE D == DOMAIN connections
             E == D \cup {cfd}
  <2>1. cfd \notin D /\ tfd \notin E
    BY <1>4 DEF OwnEntries
  <2>2. IsFiniteSet(D) /\ Cardinality(D) = 2 * active /\ active \in Nat
    BY DEF Counted
  <2>3. DOMAIN connections' = E \cup {tfd}
    BY <1>3
  <2> HIDE DEF D
  <2>4. IsFiniteSet(E) /\ Cardinality(E) = 2 * active + 1
    BY <2>1, <2>2, FS_AddElement
  <2> HIDE DEF E
  <2>5. IsFiniteSet(E \cup {tfd}) /\ Cardinality(E \cup {tfd}) = 2 * active + 1 + 1
    BY <2>1, <2>4, FS_AddElement
  <2>6. active' \in Nat /\ 2 * active' = 2 * active + 1 + 1
    BY <1>3, <2>2
  <2> QED BY <2>3, <2>5, <2>6 DEF Counted
<1>13. PoolFits' /\ Working'
  BY <1>3 DEF PoolFits, Working, Forwarding
<1>14. Arrivals'
  <2>1. \A s \in Socks : IsOpen(s)' => s[1] \in came' \ backlog'
    <3> SUFFICES ASSUME NEW s \in Socks, IsOpen(s)' PROVE s[1] \in came \ (backlog \ {c})
      BY <1>3
    <3>1. CASE s[1] = c
      BY <1>1, <3>1
    <3>2. CASE IsOpen(s)
      BY <3>2 DEF Arrivals
    <3> QED BY <1>8, <3>1, <3>2
  <2> QED BY <1>3, <2>1 DEF Arrivals
<1>15. Carried'
  <2>1. \A s \in Socks : ~InHand(s) /\ ~InHand(s)'
    BY <1>3 DEF InHand
  <2>2. \A s \in Socks : s[1] = c => taken[s] = 0 /\ out[s] = <<>> /\ out[Other(s)] = <<>>
    BY <1>1, SocksArePairs DEF Carried
  <2>3. \A s \in Socks : IsOpen(s)' => taken[s] = Len(out[Other(s)]) + 0
    <3> SUFFICES ASSUME NEW s \in Socks, IsOpen(s)' PROVE taken[s] = Len(out[Other(s)]) + 0
      OBVIOUS
    <3>1. CASE s[1] = c
      BY <2>2, <3>1
    <3>2. CASE IsOpen(s)
      BY <2>1, <3>2 DEF Carried
    <3> QED BY <1>8, <3>1, <3>2
  <2>4. \A s \in Socks : s[1] \notin came' \ backlog' => taken[s] = 0 /\ out[s] = <<>>
    BY <1>3 DEF Carried
  <2> QED BY <1>3, <2>1, <2>3, <2>4 DEF Carried
<1> QED BY <1>9, <1>10, <1>11, <1>12, <1>13, <1>14, <1>15

(* A connection is closed: by an event, or at the end of a forwarding.     *)
LEMMA ClosingKeepsEpollInv ==
  ASSUME EpollInv, EpollHangup \/ SpliceEnds \/ MoveFails \/ PollTimeout
  PROVE  EpollInv'
<1> USE DEF EpollInv
<1>1. PICK fd : CloseConnection(fd)
  BY DEF EpollHangup, SpliceEnds, MoveFails, PollTimeout
<1>2. /\ fdOf' \in [Socks -> Fds \cup {ListenFd}] /\ OwnNumbers' /\ OwnEntries' /\ Counted'
      /\ \A s \in Socks : fdOf'[s] # ListenFd => fdOf'[s] = fdOf[s]
  BY <1>1, CloseConnectionKeepsTables
<1>3. pc' = "dispatch" /\ UNCHANGED <<came, backlog, sent, taken, out, pool>>
  BY DEF EpollHangup, SpliceEnds, MoveFails, PollTimeout, Takes, Returns, remotes, listener, bytes
<1>4. LoopTypes' /\ PoolFits' /\ Working'
  BY <1>2, <1>3 DEF LoopTypes, PoolFits, Working, Forwarding
<1>5. Arrivals'
  BY <1>2, <1>3 DEF Arrivals, IsOpen
<1>6. Carried'
  <2>1. \A s \in Socks : IsOpen(s)' => ~InHand(s)
    <3>1. CASE EpollHangup \/ SpliceEnds
      BY <3>1 DEF EpollHangup, SpliceEnds, Takes, InHand
    <3>2. CASE MoveFails \/ PollTimeout
      <4>1. CloseConnection(cur.fd) /\ pc \in Forwarding
        BY <3>2 DEF MoveFails, PollTimeout, Forwarding
      <4>2. cur.fd \in DOMAIN connections
        BY <4>1 DEF Working
      <4>3. PICK s \in Socks :
              /\ IsOpen(s) /\ fdOf[s] = cur.fd
              /\ fdOf' = [t \in Socks |-> IF t \in {s, Other(s)} THEN ListenFd ELSE fdOf[t]]
        BY <4>1, <4>2, CloseConnectionCloses
      <4> QED BY <4>3 DEF OwnNumbers, InHand, IsOpen
    <3> QED BY <3>1, <3>2
  <2>2. \A s \in Socks : IsOpen(s)' => IsOpen(s)
    BY <1>2 DEF IsOpen
  <2>3. \A s \in Socks : ~InHand(s)'
    BY <1>3 DEF InHand
  <2>4. \A s \in Socks : IsOpen(s)' => taken'[s] = Len(out'[Other(s)]) + 0
    BY <1>3, <2>1, <2>2 DEF Carried
  <2> QED BY <1>3, <2>3, <2>4 DEF Carried
<1> QED BY <1>2, <1>4, <1>5, <1>6
(* The steps of forward_data that leave the connection open.               *)
LEMMA ForwardingKeepsEpollInv ==
  ASSUME EpollInv, EpollInput \/ SpliceIn \/ SpliceDrained \/ MoveOut \/ MoveAgain \/ PollReady
  PROVE  EpollInv'
<1> USE DEF EpollInv
<1>1. UNCHANGED <<fdOf, connections, active, came, backlog, sent>>
  BY DEF EpollInput, SpliceIn, SpliceDrained, MoveOut, MoveAgain, PollReady, epollVars, remotes,
     listener
<1>2. OwnNumbers' /\ OwnEntries' /\ Counted' /\ Arrivals'
  BY <1>1 DEF OwnNumbers, OwnEntries, Counted, Arrivals, IsOpen
<1>3. CASE EpollInput
  <2>1. /\ pc = "dispatch" /\ pc' \in {"splice", "dispatch"} /\ UNCHANGED <<taken, out, pipe>>
        /\ pc' = "splice" => cur'.fd \in DOMAIN connections
        /\ (pc' = "dispatch" /\ pool' = pool) \/ pool' = IF pool > 0 THEN pool - 1 ELSE pool
    <3>1. CASE Head(batch).fd \in DOMAIN connections
      BY <1>3, <3>1 DEF EpollInput, Takes, bytes
    <3>2. CASE Head(batch).fd \notin DOMAIN connections
      BY <1>3, <3>2 DEF EpollInput, Takes, bytes
    <3> QED BY <3>1, <3>2
  <2>2. LoopTypes' /\ Working'
    BY <1>1, <2>1 DEF LoopTypes, Working, Forwarding
  <2>3. PoolFits'
    BY <2>1 DEF PoolFits, Forwarding
  <2>4. \A s \in Socks : ~InHand(s) /\ ~InHand(s)'
    BY <2>1 DEF InHand
  <2>5. Carried'
    BY <1>1, <2>1, <2>4 DEF Carried, IsOpen
  <2> QED BY <1>2, <2>2, <2>3, <2>5
<1>4. CASE SpliceIn
  <2>1. /\ pc = "splice" /\ pc' = "move" /\ UNCHANGED <<cur, pool, out>>
        /\ taken[From] < sent[From] /\ pipe' = <<From, taken[From] + 1>>
        /\ taken' = [taken EXCEPT ![From] = taken[From] + 1]
    BY <1>4 DEF SpliceIn, Unread
  <2>2. From \in Socks /\ IsOpen(From) /\ fdOf[From] = cur.fd
    BY <2>1, FromIsOpen DEF Forwarding
  <2>3. LoopTypes' /\ Working' /\ PoolFits'
    BY <1>1, <2>1, <2>2 DEF LoopTypes, Working, PoolFits, Forwarding
  <2> DEFINE f == From
  <2>4. \A s \in Socks : ~InHand(s) /\ (InHand(s)' <=> s = f)
    BY <1>1, <2>1, <2>2 DEF InHand, OwnNumbers
  <2>5. /\ taken' = [taken EXCEPT ![f] = taken[f] + 1] /\ taken[f] < sent[f]
        /\ f \in Socks /\ IsOpen(f) /\ pipe' = <<f, taken[f] + 1>>
    BY <2>1, <2>2
  <2> HIDE DEF f
  <2>6. \A s \in Socks : taken'[s] = IF s = f THEN taken[s] + 1 ELSE taken[s]
    BY <2>5 DEF LoopTypes
  <2>7. \A s \in Socks : taken'[s] <= sent'[s]
    BY <1>1, <2>5, <2>6 DEF LoopTypes, Carried
  <2>8. \A s \in Socks : IsOpen(s)' =>
           taken'[s] = Len(out'[Other(s)]) + (IF InHand(s)' THEN 1 ELSE 0)
    <3> SUFFICES ASSUME NEW s \in Socks, IsOpen(s)
                 PROVE  taken'[s] = Len(out[Other(s)]) + (IF s = f THEN 1 ELSE 0)
      BY <1>1, <2>1, <2>4 DEF IsOpen
    <3>1. taken[s] = Len(out[Other(s)]) + 0
      BY <2>4 DEF Carried
    <3>2. Len(out[Other(s)]) \in Nat
      BY SocksArePairs DEF LoopTypes
    <3>3. taken[s] = Len(out[Other(s)])
      BY <3>1, <3>2
    <3>4. CASE s = f
      BY <2>6, <3>3, <3>4
    <3>5. CASE s # f
      BY <2>6, <3>2, <3>3, <3>5
    <3> QED BY <3>4, <3>5
  <2>9. \A s \in Socks : s[1] \notin came' \ backlog' => taken'[s] = 0 /\ out'[s] = <<>>
    BY <1>1, <2>1, <2>5, <2>6 DEF Carried, Arrivals
  <2>10. \A s \in Socks : InHand(s)' => pipe' = <<s, taken'[s]>>
    BY <2>4, <2>5, <2>6
  <2> QED BY <1>2, <2>3, <2>7, <2>8, <2>9, <2>10 DEF Carried
<1>5. CASE SpliceDrained
  <2>1. pc = "splice" /\ pc' = "dispatch" /\ UNCHANGED <<taken, out, pipe>> /\ pool' = pool + 1
    BY <1>5 DEF SpliceDrained, Returns, bytes
  <2>2. LoopTypes' /\ Working' /\ PoolFits'
    BY <1>1, <2>1 DEF LoopTypes, Working, PoolFits, Forwarding
  <2>3. \A s \in Socks : ~InHand(s) /\ ~InHand(s)'
    BY <2>1 DEF InHand
  <2>4. Carried'
    BY <1>1, <2>1, <2>3 DEF Carried, IsOpen
  <2> QED BY <1>2, <2>2, <2>4
<1>6. CASE MoveOut
  <2>1. /\ pc = "move" /\ pc' = "splice" /\ UNCHANGED <<cur, pool, taken>>
        /\ out' = [out EXCEPT ![To] = Append(out[To], pipe)]
    BY <1>6 DEF MoveOut
  <2>2. From \in Socks /\ IsOpen(From) /\ fdOf[From] = cur.fd /\ To = Other(From)
    BY <2>1, FromIsOpen DEF Forwarding
  <2> DEFINE f == From
             t == To
  <2>3. /\ out' = [out EXCEPT ![t] = Append(out[t], pipe)] /\ f \in Socks /\ t \in Socks
        /\ IsOpen(f) /\ t = Other(f) /\ f = Other(t) /\ f # t
    BY <2>1, <2>2, SocksArePairs
  <2>4. \A s \in Socks : (InHand(s) <=> s = f) /\ ~InHand(s)'
    BY <1>1, <2>1, <2>2 DEF InHand, OwnNumbers
  <2> HIDE DEF f, t
  <2>5. pipe = <<f, taken[f]>> /\ pipe \in Socks \X Nat
    BY <2>3, <2>4 DEF Carried, LoopTypes
  <2>6. LoopTypes' /\ Working' /\ PoolFits'
    <3>1. Append(out[t], pipe) \in Seq(Socks \X Nat)
      BY <2>3, <2>5 DEF LoopTypes
    <3>2. out' \in [Socks -> Seq(Socks \X Nat)]
      BY <2>3, <3>1 DEF LoopTypes
    <3> QED BY <1>1, <2>1, <3>2 DEF LoopTypes, Working, PoolFits, Forwarding
  <2>7. \A s \in Socks : out'[s] = IF s = t THEN Append(out[s], pipe) ELSE out[s]
    BY <2>3 DEF LoopTypes
  <2>8. \A s \in Socks : IsOpen(s)' =>
           taken'[s] = Len(out'[Other(s)]) + (IF InHand(s)' THEN 1 ELSE 0)
    <3> SUFFICES ASSUME NEW s \in Socks, IsOpen(s)
                 PROVE  taken[s] = Len(out'[Other(s)]) + 0
      BY <1>1, <2>1, <2>4 DEF IsOpen
    <3>1. Other(s) \in Socks /\ out[Other(s)] \in Seq(Socks \X Nat) /\ Len(out[Other(s)]) \in Nat
      BY SocksArePairs DEF LoopTypes
    <3>2. CASE s = f
      <4>1. Len(out'[Other(s)]) = Len(out[Other(s)]) + 1
        <5>1. Other(s) = t /\ out'[t] = Append(out[t], pipe)
          BY <2>3, <2>7, <3>2
        <5>2. out[t] \in Seq(Socks \X Nat)
          BY <2>3 DEF LoopTypes
        <5>3. Len(Append(out[t], pipe)) = Len(out[t]) + 1
          BY <5>2, <2>5
        <5> QED BY <5>1, <5>3
      <4>2. taken[s] = Len(out[Other(s)]) + 1
        BY <2>4, <3>2 DEF Carried
      <4> QED BY <3>1, <4>1, <4>2
    <3>3. CASE s # f
      <4>1. Other(s) # t
        BY <2>3, <3>3, SocksArePairs
      <4>2. taken[s] = Len(out[Other(s)]) + 0
        BY <2>4, <3>3 DEF Carried
      <4> QED BY <2>7, <3>1, <4>1, <4>2
    <3> QED BY <3>2, <3>3
  <2>9. \A s \in Socks : s[1] \notin came' \ backlog' => taken'[s] = 0 /\ out'[s] = <<>>
    <3>1. t[1] \in came \ backlog
      BY <2>3, SocksArePairs DEF Arrivals
    <3> QED BY <1>1, <2>1, <2>7, <3>1 DEF Carried
  <2>10. \A s \in Socks : taken'[s] <= sent'[s]
    BY <1>1, <2>1 DEF Carried
  <2> QED BY <1>2, <2>4, <2>6, <2>8, <2>9, <2>10 DEF Carried
<1>7. CASE MoveAgain \/ PollReady
  <2>1. /\ pc \in {"move", "poll"} /\ pc' \in {"move", "poll"}
        /\ UNCHANGED <<taken, out, pipe, pool, cur>>
    BY <1>7 DEF MoveAgain, PollReady, bytes, epollVars
  <2>2. LoopTypes' /\ Working' /\ PoolFits'
    BY <1>1, <2>1 DEF LoopTypes, Working, PoolFits, Forwarding
  <2>3. \A s \in Socks : InHand(s)' <=> InHand(s)
    BY <1>1, <2>1 DEF InHand
  <2>4. Carried'
    BY <1>1, <2>1, <2>3 DEF Carried, IsOpen
  <2> QED BY <1>2, <2>2, <2>4
<1> QED BY <1>3, <1>4, <1>5, <1>6, <1>7

(* Nothing is connected before run().                                      *)
LEMMA EpollInitInv == EpollInit => EpollInv
<1> SUFFICES ASSUME EpollInit PROVE EpollInv
  OBVIOUS
<1>1. \A s \in Socks : ~IsOpen(s)
  BY DEF EpollInit, LoopInit, IsOpen
<1>2. LoopTypes /\ OwnNumbers
  BY <1>1 DEF EpollInit, LoopInit, LoopTypes, OwnNumbers
<1>3. OwnEntries /\ Counted
  <2>1. connections = <<>> /\ active = 0 /\ DOMAIN connections = {}
    BY DEF EpollInit, LoopInit
  <2> QED BY <1>1, <2>1, FS_EmptySet DEF OwnEntries, Counted
<1>4. PoolFits /\ Working
  BY DEF EpollInit, LoopInit, PoolFits, Working, Forwarding
<1>5. Arrivals
  <2>1. came = 1 .. 0 /\ 0 \in 0 .. NumConns /\ backlog = {}
    BY DEF EpollInit, LoopInit
  <2> QED BY <1>1, <2>1 DEF Arrivals
<1>6. Carried
  BY <1>1 DEF EpollInit, LoopInit, Carried, InHand
<1> QED BY <1>2, <1>3, <1>4, <1>5, <1>6 DEF EpollInv

(* Every step of EpollProxy and of the world around it keeps EpollInv.     *)
LEMMA EpollNextKeepsInv ==
  ASSUME EpollInv, EpollNext
  PROVE  EpollInv'
<1>1. CASE (Remote \/ Stop) /\ UNCHANGED epollVars
  BY <1>1, QuietStepsKeepEpollInv
<1>2. CASE (Run \/ Wait \/ BatchEnds \/ DispatchListen \/ AcceptEnds) /\ UNCHANGED epollVars
  BY <1>2, QuietStepsKeepEpollInv
<1>3. CASE \E c \in Conns : EpollAccept(c) \/ EpollAcceptFails(c)
  BY <1>3, AcceptKeepsEpollInv, QuietStepsKeepEpollInv
<1>4. CASE EpollHangup \/ EpollInput \/ EpollForward
  BY <1>4, ClosingKeepsEpollInv, ForwardingKeepsEpollInv DEF EpollForward
<1> QED BY <1>1, <1>2, <1>3, <1>4 DEF EpollNext, EpollLoop

----------------------------------------------------------------------------
(* In every state of EpollProxy the invariant holds.                       *)
ProxiesInv == part \in {"epoll", "tls"} /\ (part = "epoll" => EpollInv)

(* Whatever clients, targets and stop() do, every state of EpollProxy      *)
(* satisfies its inductive invariant.                                      *)
THEOREM EpollInvariant == Spec => []ProxiesInv
<1>1. Init => ProxiesInv
  BY EpollInitInv DEF Init, ProxiesInv
<1>2. ProxiesInv /\ [Next]_vars => ProxiesInv'
  <2> SUFFICES ASSUME ProxiesInv, [Next]_vars PROVE ProxiesInv'
    OBVIOUS
  <2>1. CASE RunsEpoll
    BY <2>1, EpollNextKeepsInv DEF RunsEpoll, ProxiesInv
  <2>2. CASE RunsTls
    BY <2>2 DEF RunsTls, ProxiesInv
  <2>3. CASE UNCHANGED vars
    <3>1. /\ part' = part /\ UNCHANGED <<fdOf, connections, active, pool, pipe, came, backlog>>
          /\ UNCHANGED <<sent, taken, out, pc, cur>>
      BY <2>3 DEF vars, loopVars, epollVars, remotes, listener, bytes
    <3>2. EpollInv => EpollInv'
      BY <3>1 DEF EpollInv, LoopTypes, OwnNumbers, OwnEntries, Counted, PoolFits, Arrivals, Working,
         Carried, InHand, IsOpen
    <3> QED BY <3>1, <3>2 DEF ProxiesInv
  <2> QED BY <2>1, <2>2, <2>3 DEF Next
<1> QED BY <1>1, <1>2, PTL DEF Spec

(* Tables, sockets, counter and pipe pool of EpollProxy agree.             *)
THEOREM EpollTablesAgree == Spec => [](part = "epoll" => EpollTables)
<1>1. ProxiesInv => (part = "epoll" => EpollTables)
  <2> SUFFICES ASSUME EpollInv PROVE EpollTables
    BY DEF ProxiesInv
  <2> USE DEF EpollInv
  <2>1. PairsMatch
    <3>1. ASSUME NEW fd \in DOMAIN connections
          PROVE  \E s \in Socks :
                   /\ fdOf[s] = fd /\ IsOpen(Other(s))
                   /\ connections[fd] = [peer |-> fdOf[Other(s)], isClient |-> s[2] = "client"]
      <4>1. PICK s \in Socks : IsOpen(s) /\ fdOf[s] = fd
        BY DEF OwnEntries
      <4> QED BY <4>1 DEF OwnEntries, OwnNumbers
    <3> QED BY <3>1 DEF PairsMatch, OwnNumbers
  <2> QED BY <2>1 DEF EpollTables, OwnEntries, Counted, PoolFits
<1> QED BY EpollInvariant, <1>1, PTL

----------------------------------------------------------------------------
(* EpollProxy implements the abstract relay.                               *)

(* What a step of EpollProxy does to the connections Relay sees.           *)
RelayStep ==
  \/ \E c \in Conns : /\ EpollState[c] = "new" /\ EpollState' = [EpollState EXCEPT ![c] = "open"]
                      /\ UNCHANGED <<sent, out>>
  \/ \E c \in Conns : /\ EpollState[c] # "closed"
                      /\ EpollState' = [EpollState EXCEPT ![c] = "closed"]
                      /\ UNCHANGED <<sent, out>>
  \/ \E s \in Socks : sent' = [sent EXCEPT ![s] = @ + 1] /\ UNCHANGED <<EpollState, out>>
  \/ \E s \in Socks : /\ EpollState[s[1]] = "open" /\ Len(out[s]) < sent[Other(s)]
                      /\ out' = [out EXCEPT ![s] = Append(@, <<Other(s), Len(@) + 1>>)]
                      /\ UNCHANGED <<EpollState, sent>>
  \/ UNCHANGED <<EpollState, sent, out>>

(* An open connection is one whose client is open.                         *)
LEMMA StateOfOpen ==
  ASSUME EpollInv, NEW s \in Socks, IsOpen(s)
  PROVE  EpollState[s[1]] = "open" /\ s[1] \in came \ backlog
<1>1. IsOpen(Client(s[1])) /\ s[1] \in Conns
  BY SocksArePairs DEF EpollInv, OwnNumbers
<1> QED BY <1>1 DEF EpollInv, EpollState, Arrivals

(* The quiet steps show a chunk sent, a client refused, or nothing.        *)
LEMMA QuietStepsRelay ==
  ASSUME EpollInv,
         \/ (Run \/ Wait \/ BatchEnds \/ DispatchListen \/ AcceptEnds) /\ UNCHANGED epollVars
         \/ (Remote \/ Stop) /\ UNCHANGED epollVars
         \/ \E c \in Conns : EpollAcceptFails(c)
  PROVE  RelayStep
<1>1. UNCHANGED <<fdOf, out>>
  BY DEF Run, Wait, WaitListen, WaitSock, WaitReturns, BatchEnds, DispatchListen, AcceptEnds, Stop,
     EpollAcceptFails, Remote, ClientConnects, RemoteSends, RemoteReads, RemoteEnds, bytes
<1>2. ASSUME NEW c \in Conns, EpollAcceptFails(c) PROVE RelayStep
  <2>1. /\ c \in backlog /\ backlog' = backlog \ {c} /\ UNCHANGED <<came, sent>> /\ c \in came
        /\ ~IsOpen(Client(c))
    BY <1>2, SocksArePairs DEF EpollAcceptFails, remotes, EpollInv, Arrivals
  <2>2. EpollState[c] = "new" /\ EpollState' = [EpollState EXCEPT ![c] = "closed"]
    BY <1>1, <2>1 DEF EpollState, IsOpen
  <2> QED BY <1>1, <2>1, <2>2 DEF RelayStep
<1>3. ASSUME NEW c \in Conns, ClientConnects(c) PROVE RelayStep
  <2>1. came' = came \cup {c} /\ backlog' = backlog \cup {c} /\ sent' = sent
    BY <1>3 DEF ClientConnects
  <2>2. c \notin came
    <3>1. PICK n \in 0 .. NumConns : came = 1 .. n
      BY DEF EpollInv, Arrivals
    <3>2. Cardinality(came) = n
      BY <3>1, FS_Interval
    <3> QED BY <1>3, <3>1, <3>2 DEF ClientConnects
  <2>3. EpollState' = EpollState
    BY <1>1, <2>1, <2>2 DEF EpollState, IsOpen
  <2> QED BY <1>1, <2>1, <2>3 DEF RelayStep
<1>4. ASSUME NEW s \in Socks, RemoteSends(s) PROVE RelayStep
  <2>1. sent' = [sent EXCEPT ![s] = @ + 1] /\ UNCHANGED <<came, backlog>>
    BY <1>4 DEF RemoteSends, listener
  <2>2. EpollState' = EpollState
    BY <1>1, <2>1 DEF EpollState, IsOpen
  <2> QED BY <1>1, <2>1, <2>2 DEF RelayStep
<1>5. CASE UNCHANGED <<came, backlog, sent>>
  <2>1. EpollState' = EpollState
    BY <1>1, <1>5 DEF EpollState, IsOpen
  <2> QED BY <1>1, <1>5, <2>1 DEF RelayStep
<1> QED
  BY <1>2, <1>3, <1>4, <1>5 DEF Run, Wait, WaitListen, WaitSock, WaitReturns, BatchEnds,
     DispatchListen, AcceptEnds, Stop, Remote, RemoteReads, RemoteEnds, remotes, listener

(* accept_connection opens the pair.                                       *)
LEMMA AcceptRelays ==
  ASSUME EpollInv, NEW c \in Conns, EpollAccept(c)
  PROVE  RelayStep
<1>1. /\ ~IsOpen(Client(c)) /\ ~IsOpen(Target(c)) /\ c \in backlog /\ c \in came
      /\ UNCHANGED <<came, sent, out>> /\ backlog' = backlog \ {c}
  BY SocksArePairs DEF EpollAccept, EpollInv, Arrivals, remotes, bytes
<1>2. PICK cfd \in Fds, tfd \in Fds : fdOf' = [fdOf EXCEPT ![Client(c)] = cfd, ![Target(c)] = tfd]
  <2> DEFINE used == {fdOf[s] : s \in Socks}
             cfd == Lowest(used)
             tfd == Lowest(used \cup {cfd})
  <2>1. cfd \in Fds /\ tfd \in Fds
    BY <1>1, LowestIsFree DEF EpollInv, LoopTypes
  <2>2. fdOf' = [fdOf EXCEPT ![Client(c)] = cfd, ![Target(c)] = tfd]
    BY DEF EpollAccept
  <2> HIDE DEF cfd, tfd
  <2> QED BY <2>1, <2>2
<1>3. \A d \in Conns : IsOpen(Client(d))' <=> IsOpen(Client(d)) \/ d = c
  <2>1. cfd # ListenFd
    BY <1>2 DEF Fds, ListenFd
  <2>2. fdOf'[Client(c)] = cfd
    BY <1>2, SocksArePairs DEF EpollInv, LoopTypes
  <2>3. \A d \in Conns : d # c => fdOf'[Client(d)] = fdOf[Client(d)]
    <3> SUFFICES ASSUME NEW d \in Conns, d # c PROVE fdOf'[Client(d)] = fdOf[Client(d)]
      OBVIOUS
    <3>1. Client(d) \in Socks \ {Client(c), Target(c)}
      BY SocksArePairs
    <3> QED BY <1>2, <3>1 DEF EpollInv, LoopTypes
  <2> QED BY <2>1, <2>2, <2>3 DEF IsOpen
<1>4. EpollState[c] = "new" /\ EpollState' = [EpollState EXCEPT ![c] = "open"]
  BY <1>1, <1>3 DEF EpollState
<1> QED BY <1>1, <1>4 DEF RelayStep

(* close_connection closes one pair, or knows the descriptor no more.      *)
LEMMA ClosingRelays ==
  ASSUME EpollInv, EpollHangup \/ SpliceEnds \/ MoveFails \/ PollTimeout
  PROVE  RelayStep
<1>1. PICK fd : CloseConnection(fd)
  BY DEF EpollHangup, SpliceEnds, MoveFails, PollTimeout
<1>2. UNCHANGED <<came, backlog, sent, out>>
  BY DEF EpollHangup, SpliceEnds, MoveFails, PollTimeout, remotes, listener, bytes
<1>3. CASE fd \notin DOMAIN connections
  <2>1. fdOf' = fdOf
    BY <1>1, <1>3 DEF CloseConnection
  <2>2. EpollState' = EpollState
    BY <1>2, <2>1 DEF EpollState, IsOpen
  <2> QED BY <1>2, <2>2 DEF RelayStep
<1>4. CASE fd \in DOMAIN connections
  <2>1. PICK s \in Socks :
           /\ IsOpen(s)
           /\ fdOf' = [t \in Socks |-> IF t \in {s, Other(s)} THEN ListenFd ELSE fdOf[t]]
    BY <1>1, <1>4, CloseConnectionCloses
  <2>2. EpollState[s[1]] = "open" /\ s[1] \in came \ backlog /\ s[1] \in Conns
    BY <2>1, StateOfOpen, SocksArePairs
  <2>3. \A d \in Conns : IsOpen(Client(d))' <=> IsOpen(Client(d)) /\ d # s[1]
    <3> SUFFICES ASSUME NEW d \in Conns PROVE IsOpen(Client(d))' <=> IsOpen(Client(d)) /\ d # s[1]
      OBVIOUS
    <3>1. Client(d) \in Socks /\ (Client(d) \in {s, Other(s)} <=> d = s[1])
      BY <2>1, SocksArePairs
    <3> QED BY <2>1, <3>1 DEF IsOpen
  <2>4. EpollState' = [EpollState EXCEPT ![s[1]] = "closed"]
    BY <1>2, <2>2, <2>3 DEF EpollState
  <2> QED BY <1>2, <2>2, <2>4 DEF RelayStep
<1> QED BY <1>3, <1>4

(* splice() out of the pipe delivers the next chunk; the rest shows        *)
(* nothing.                                                                *)
LEMMA ForwardingRelays ==
  ASSUME EpollInv, EpollInput \/ SpliceIn \/ SpliceDrained \/ MoveOut \/ MoveAgain \/ PollReady
  PROVE  RelayStep
<1>1. UNCHANGED <<fdOf, came, backlog, sent>>
  BY DEF EpollInput, SpliceIn, SpliceDrained, MoveOut, MoveAgain, PollReady, remotes, listener
<1>2. EpollState' = EpollState
  BY <1>1 DEF EpollState, IsOpen
<1>3. CASE MoveOut
  <2>1. pc = "move" /\ out' = [out EXCEPT ![To] = Append(out[To], pipe)]
    BY <1>3 DEF MoveOut
  <2>2. /\ From \in Socks /\ IsOpen(From) /\ fdOf[From] = cur.fd /\ To = Other(From)
        /\ InHand(From)
    BY <2>1, FromIsOpen DEF Forwarding, InHand
  <2>3. To \in Socks /\ Other(To) = From /\ EpollState[To[1]] = "open"
    BY <2>2, SocksArePairs, StateOfOpen
  <2>4. pipe = <<From, taken[From]>> /\ taken[From] <= sent[From]
    BY <2>2 DEF EpollInv, Carried
  <2>5. taken[From] = Len(out[To]) + 1 /\ Len(out[To]) \in Nat /\ sent[From] \in Nat
    <3> DEFINE f == From
               t == To
    <3>1. f \in Socks /\ t \in Socks /\ IsOpen(f) /\ InHand(f) /\ t = Other(f)
      BY <2>2, <2>3
    <3> HIDE DEF f, t
    <3>2. taken[f] = Len(out[t]) + 1
      BY <3>1 DEF EpollInv, Carried
    <3>3. Len(out[t]) \in Nat /\ sent[f] \in Nat
      BY <3>1 DEF EpollInv, LoopTypes
    <3> QED BY <3>2, <3>3 DEF f, t
  <2>6. Len(out[To]) < sent[Other(To)] /\ pipe = <<Other(To), Len(out[To]) + 1>>
    BY <2>3, <2>4, <2>5
  <2> DEFINE t == To
  <2>7. /\ t \in Socks /\ EpollState[t[1]] = "open" /\ Len(out[t]) < sent[Other(t)]
        /\ out' = [out EXCEPT ![t] = Append(out[t], <<Other(t), Len(out[t]) + 1>>)]
    BY <2>1, <2>3, <2>6
  <2> HIDE DEF t
  <2> QED BY <1>1, <1>2, <2>7 DEF RelayStep
<1>4. CASE EpollInput \/ SpliceIn \/ SpliceDrained \/ MoveAgain \/ PollReady
  <2>1. out' = out
    BY <1>4 DEF EpollInput, SpliceIn, SpliceDrained, MoveAgain, PollReady, bytes
  <2> QED BY <1>1, <1>2, <2>1 DEF RelayStep
<1> QED BY <1>3, <1>4

(* Every step of EpollProxy is one of Relay, or shows it nothing.          *)
LEMMA EpollNextRelays ==
  ASSUME EpollInv, EpollNext
  PROVE  RelayStep
<1>1. CASE (Remote \/ Stop) /\ UNCHANGED epollVars
  BY <1>1, QuietStepsRelay
<1>2. CASE (Run \/ Wait \/ BatchEnds \/ DispatchListen \/ AcceptEnds) /\ UNCHANGED epollVars
  BY <1>2, QuietStepsRelay
<1>3. CASE \E c \in Conns : EpollAccept(c) \/ EpollAcceptFails(c)
  BY <1>3, AcceptRelays, QuietStepsRelay
<1>4. CASE EpollHangup \/ EpollInput \/ EpollForward
  BY <1>4, ClosingRelays, ForwardingRelays DEF EpollForward
<1> QED BY <1>1, <1>2, <1>3, <1>4 DEF EpollNext, EpollLoop
=============================================================================
