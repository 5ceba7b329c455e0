--------------------------- MODULE TunnelAgentProofs ---------------------------
(***************************************************************************)
(* The target sockets of TunnelAgent, proved for any number of server      *)
(* connections, sessions, ids and descriptors.                             *)
(*                                                                         *)
(* Four kinds of thread close descriptors and two of them number what they *)
(* close.  The invariant ties the two together: Session::target_fd and the *)
(* open target sockets are one to one (Targets), server_fd_ never denotes  *)
(* a target (ServerFdIsLink), and a new session finds no old one under its *)
(* id, because the map is empty between two connections (EmptyOutside) and *)
(* holds only ids of this one (SessionsOpened).                            *)
(***************************************************************************)
EXTENDS TunnelAgent, TLAPS

USE SocketsAssumption, NoFdAssumption, NoIdAssumption, MaxDelayAssumption

(* target_fd of a session denotes its socket, and nothing else does.       *)
Targets == \A f \in Fds, r \in Readers : fdTab[f] = r <=> tfd[r] = f

ServerFdIsLink == serverFd # None => fdTab[serverFd] \in Links

(* A reader has an id from its start, a session a descriptor only then.    *)
Started ==
  \A r \in Readers : /\ rpc[r] = "none" => rid[r] = None /\ tfd[r] = None
                     /\ rpc[r] # "none" => rid[r] \in Ids

SessionsOpened == \A s \in Ids : sessions[s] # None => s \in opened

(* The main thread between two connections, joining included.              *)
OutsideLoop == {"idle", "attempt", "connect", "hello", "ack", "joinHb", "after", "sleep", "returned"}
EmptyOutside ==
  /\ mpc \in OutsideLoop => \A s \in Ids : sessions[s] = None
  /\ mpc \in OutsideLoop \ {"joinHb"} => hb = "none"

(* What the handlers hold in their local variables.                        *)
Locals ==
  /\ mpc \in {"open", "insert", "reply", "write", "close"} => ms \in Ids
  /\ mpc \in {"open", "insert"} => sessions[ms] = None /\ ms \in opened
  /\ mpc = "insert" => mr \in Readers /\ rid[mr] = ms /\ tfd[mr] \in Fds
  /\ mpc = "write" => mfd \in Fds

(* The inductive invariant.                                                *)
IInv == /\ TypeOK /\ SessionOwnsTarget /\ DataToOwnTarget /\ NoTargetLeak
        /\ Targets /\ ServerFdIsLink /\ Started /\ SessionsOpened /\ EmptyOutside /\ Locals

(* Nothing is open before run().                                           *)
LEMMA InitIInv == Init => IInv
<1> SUFFICES ASSUME Init PROVE IInv
  OBVIOUS
<1>1. TypeOK
  <2>1. delay \in 1 .. MaxDelay /\ reported \in 0 .. MaxDelay
    BY DEF Init
  <2>2. /\ sessions \in [Ids -> Readers \cup {None}] /\ fdTab \in [Fds -> Links \cup Readers \cup {None}]
        /\ rpc \in [Readers -> {"none", "recv", "send", "erase", "done"}]
        /\ rid \in [Readers -> Ids \cup {None}]
        /\ rfd \in [Readers -> Fds \cup {None}] /\ tfd \in [Readers -> Fds \cup {None}]
    BY DEF Init
  <2> QED BY <2>1, <2>2 DEF Init, TypeOK, MainPcs
<1>2. SessionOwnsTarget /\ DataToOwnTarget /\ SessionsOpened /\ Locals
  BY DEF Init, SessionOwnsTarget, DataToOwnTarget, SessionsOpened, Locals
<1>3. NoTargetLeak /\ Targets
  BY DEF Init, NoTargetLeak, Targets
<1>4. ServerFdIsLink /\ Started /\ EmptyOutside
  BY DEF Init, ServerFdIsLink, Started, EmptyOutside, OutsideLoop
<1> QED BY <1>1, <1>2, <1>3, <1>4 DEF IInv

(* A session that is in the map is not the one being inserted.             *)
LEMMA SessionsAreIn ==
  ASSUME IInv, NEW s \in Ids, sessions[s] # None
  PROVE  /\ sessions[s] \in Readers /\ rid[sessions[s]] = s
         /\ tfd[sessions[s]] \in Fds /\ fdTab[tfd[sessions[s]]] = sessions[s]
         /\ mpc = "insert" => sessions[s] # mr
         /\ tfd[sessions[s]] # serverFd
  BY DEF IInv, TypeOK, SessionOwnsTarget, Locals, ServerFdIsLink

(* CloseTargets frees the descriptors of the given sessions and no other.  *)
LEMMA CloseTargetsFrees ==
  ASSUME IInv, NEW S \in SUBSET Readers, CloseTargets(S)
  PROVE  /\ tfd' \in [Readers -> Fds \cup {None}]
         /\ fdTab' \in [Fds -> Links \cup Readers \cup {None}]
         /\ ended' \subseteq Links \cup Readers
         /\ Targets'
         /\ \A r \in Readers : tfd'[r] = IF r \in S THEN None ELSE tfd[r]
         /\ \A f \in Fds : fdTab'[f] = IF fdTab[f] \in S THEN None ELSE fdTab[f]
<1>1. /\ tfd \in [Readers -> Fds \cup {None}] /\ fdTab \in [Fds -> Links \cup Readers \cup {None}]
      /\ ended \subseteq Links \cup Readers /\ Targets
  BY DEF IInv, TypeOK
<1>2. \A f \in Fds : fdTab'[f] = IF fdTab[f] \in S THEN None ELSE fdTab[f]
  BY <1>1 DEF CloseTargets, Targets
<1>3. Targets'
  BY <1>1, <1>2 DEF CloseTargets, Targets
<1> QED BY <1>1, <1>2, <1>3 DEF CloseTargets

----------------------------------------------------------------------------
(* Steps of the main thread that touch no session and no descriptor.       *)
LEMMA MainMovesKeepIInv ==
  ASSUME IInv,
         \/ RunStart \/ Attempt \/ ConnectFails \/ SendHello \/ SendHelloFails \/ HelloAck
         \/ AfterAttempt \/ Backoff \/ RecvFails \/ RecvHeartbeatAck \/ OpenFails \/ ReplyOpen
         \/ WriteTarget \/ JoinReader
         \/ \E s \in Ids : RecvOpen(s) \/ RecvData(s) \/ RecvClose(s)
  PROVE  IInv'
<1> USE DEF IInv, sess, readers, others, kernel, LoopTest
<1>1. UNCHANGED <<sessions, tfd, rid, rpc, rfd, serverFd, fdTab>>
  BY DEF RunStart, Attempt, ConnectFails, SendHello, SendHelloFails, HelloAck, AfterAttempt,
         Backoff, RecvFails, RecvHeartbeatAck, OpenFails, ReplyOpen, WriteTarget, JoinReader,
         RecvOpen, RecvData, RecvClose
<1>2. Targets' /\ ServerFdIsLink' /\ Started' /\ SessionOwnsTarget'
  BY <1>1 DEF Targets, ServerFdIsLink, Started, SessionOwnsTarget
<1>3. CASE RunStart
  BY <1>1, <1>2, <1>3 DEF RunStart, TypeOK, MainPcs, DataToOwnTarget, NoTargetLeak, SessionsOpened,
     EmptyOutside, OutsideLoop, Locals
<1>4. CASE Attempt \/ ConnectFails \/ SendHello \/ SendHelloFails \/ AfterAttempt
  BY <1>1, <1>2, <1>4 DEF Attempt, ConnectFails, SendHello, SendHelloFails, AfterAttempt, TypeOK,
     MainPcs, DataToOwnTarget, NoTargetLeak, SessionsOpened, EmptyOutside, OutsideLoop, Locals
<1>5. CASE Backoff
  BY <1>1, <1>2, <1>5 DEF Backoff, TypeOK, MainPcs, DataToOwnTarget, NoTargetLeak, SessionsOpened,
     EmptyOutside, OutsideLoop, Locals
<1>6. CASE HelloAck \/ RecvFails \/ RecvHeartbeatAck
  <2>1. mpc' \in {"recv", "clean"} /\ UNCHANGED <<opened, mr>> /\ mpc # "insert"
    BY <1>6 DEF HelloAck, RecvFails, RecvHeartbeatAck
  <2>2. TypeOK'
    <3>1. /\ hb' \in {"none", "run", "exited"} /\ overdue' \in BOOLEAN
          /\ UNCHANGED <<running, ms, mfd, delay, reported, link, cleaner, spc, fresh, ended>>
      BY <1>6 DEF HelloAck, RecvFails, RecvHeartbeatAck, TypeOK
    <3> QED BY <1>1, <2>1, <3>1 DEF TypeOK, MainPcs
  <2>3. DataToOwnTarget' /\ NoTargetLeak'
    BY <1>1, <2>1 DEF DataToOwnTarget, NoTargetLeak
  <2>4. SessionsOpened' /\ EmptyOutside' /\ Locals'
    BY <1>1, <2>1 DEF SessionsOpened, EmptyOutside, OutsideLoop, Locals
  <2> QED BY <1>2, <2>2, <2>3, <2>4
<1>7. CASE OpenFails \/ ReplyOpen \/ WriteTarget \/ JoinReader
  BY <1>1, <1>2, <1>7 DEF OpenFails, ReplyOpen, WriteTarget, JoinReader, TypeOK, MainPcs,
     DataToOwnTarget, NoTargetLeak, SessionsOpened, EmptyOutside, OutsideLoop, Locals
<1>8. ASSUME NEW s \in Ids, RecvOpen(s) \/ RecvClose(s) PROVE IInv'
  BY <1>1, <1>2, <1>8 DEF RecvOpen, RecvClose, TypeOK, MainPcs, DataToOwnTarget, NoTargetLeak,
     SessionsOpened, EmptyOutside, OutsideLoop, Locals
<1>9. ASSUME NEW s \in Ids, RecvData(s) PROVE IInv'
  <2>1. sessions[s] # None => /\ tfd[sessions[s]] \in Fds /\ rid[sessions[s]] = s
                              /\ fdTab[tfd[sessions[s]]] = sessions[s] /\ sessions[s] \in Readers
    BY DEF SessionOwnsTarget, TypeOK
  <2>2. TypeOK' /\ DataToOwnTarget' /\ NoTargetLeak'
    BY <1>1, <1>9, <2>1 DEF RecvData, TypeOK, MainPcs, DataToOwnTarget, NoTargetLeak
  <2>3. SessionsOpened' /\ EmptyOutside' /\ Locals'
    BY <1>1, <1>9, <2>1 DEF RecvData, TypeOK, SessionsOpened, EmptyOutside, OutsideLoop, Locals
  <2> QED BY <1>2, <2>2, <2>3
<1> QED BY <1>3, <1>4, <1>5, <1>6, <1>7, <1>8, <1>9

(* A server connection gets a free number.                                 *)
LEMMA ConnectServerKeepsIInv ==
  ASSUME IInv, NEW l \in Links, NEW f \in Fds, ConnectServer(l, f)
  PROVE  IInv'
<1> USE DEF IInv, sess, readers, others
<1>1. /\ UNCHANGED <<sessions, tfd, rid, rpc, rfd>>
      /\ mpc = "connect" /\ mpc' = "hello" /\ serverFd' = f
      /\ fdTab' = [fdTab EXCEPT ![f] = l] /\ fdTab[f] = None
  BY DEF ConnectServer
<1>2. TypeOK' /\ Started' /\ ServerFdIsLink'
  BY <1>1 DEF ConnectServer, TypeOK, MainPcs, Started, ServerFdIsLink
<1>3. Targets' /\ NoTargetLeak'
  BY <1>1 DEF TypeOK, Targets, NoTargetLeak
<1>4. SessionOwnsTarget' /\ SessionsOpened' /\ EmptyOutside'
  BY <1>1 DEF ConnectServer, SessionOwnsTarget, SessionsOpened, EmptyOutside, OutsideLoop
<1>5. DataToOwnTarget' /\ Locals'
  BY <1>1 DEF DataToOwnTarget, Locals
<1> QED BY <1>2, <1>3, <1>4, <1>5

(* A session in the making gets a free number and its reader.              *)
LEMMA ConnectTargetKeepsIInv ==
  ASSUME IInv, NEW r \in Readers, NEW f \in Fds, ConnectTarget(r, f)
  PROVE  IInv'
<1> USE DEF IInv, others
<1>1. /\ UNCHANGED <<sessions, ms, mfd, opened, serverFd>> /\ mpc = "open" /\ mpc' = "insert" /\ mr' = r
      /\ rpc[r] = "none" /\ fdTab[f] = None
      /\ fdTab' = [fdTab EXCEPT ![f] = r] /\ tfd' = [tfd EXCEPT ![r] = f]
      /\ rid' = [rid EXCEPT ![r] = ms] /\ rpc' = [rpc EXCEPT ![r] = rpc'[r]]
      /\ rpc'[r] \in {"recv", "erase"}
  BY DEF ConnectTarget, TypeOK
<1>2. \A s \in Ids : sessions[s] # r
  BY <1>1 DEF SessionOwnsTarget, Started, TypeOK
<1>3. TypeOK'
  BY <1>1 DEF ConnectTarget, TypeOK, MainPcs, Locals
<1>4. Targets' /\ ServerFdIsLink' /\ Started'
  BY <1>1 DEF TypeOK, Targets, ServerFdIsLink, Started, Locals
<1>5. SessionOwnsTarget'
  BY <1>1, <1>2 DEF TypeOK, SessionOwnsTarget
<1>6. NoTargetLeak'
  BY <1>1, <1>2 DEF TypeOK, NoTargetLeak
<1>7. SessionsOpened' /\ EmptyOutside' /\ DataToOwnTarget' /\ Locals'
  BY <1>1 DEF TypeOK, SessionsOpened, EmptyOutside, OutsideLoop, DataToOwnTarget, Locals
<1> QED BY <1>3, <1>4, <1>5, <1>6, <1>7

(* The session enters a free place of the map.                             *)
LEMMA InsertKeepsIInv ==
  ASSUME IInv, InsertSession
  PROVE  IInv'
<1> USE DEF IInv, readers, others, kernel
<1>1. /\ mpc = "insert" /\ mpc' = "reply" /\ mr' = None
      /\ sessions' = [sessions EXCEPT ![ms] = mr] /\ sessions[ms] = None
      /\ ms \in Ids /\ mr \in Readers /\ rid[mr] = ms /\ tfd[mr] \in Fds /\ ms \in opened
      /\ UNCHANGED <<ms, mfd, opened, serverFd, tfd, rid, rpc, rfd, fdTab, hb>>
  BY DEF InsertSession, Locals
<1>2. TypeOK'
  BY <1>1 DEF InsertSession, TypeOK, MainPcs
<1>3. Targets' /\ ServerFdIsLink' /\ Started'
  BY <1>1 DEF Targets, ServerFdIsLink, Started
<1>4. SessionOwnsTarget' /\ NoTargetLeak'
  BY <1>1 DEF TypeOK, Targets, SessionOwnsTarget, NoTargetLeak
<1>5. SessionsOpened' /\ EmptyOutside' /\ DataToOwnTarget' /\ Locals'
  BY <1>1 DEF TypeOK, SessionsOpened, EmptyOutside, OutsideLoop, DataToOwnTarget, Locals
<1> QED BY <1>2, <1>3, <1>4, <1>5
(* A refused or ended HELLO closes the link's own descriptor.              *)
LEMMA HelloAckFailsKeepsIInv ==
  ASSUME IInv, HelloAckFails
  PROVE  IInv'
<1> USE DEF IInv, sess, readers, others
<1>1. /\ UNCHANGED <<sessions, tfd, rid, rpc, rfd, ms, mr, mfd, opened, hb>>
      /\ mpc = "ack" /\ mpc' = "after" /\ serverFd' = None
      /\ \A f \in Fds : fdTab'[f] = IF f = serverFd THEN None ELSE fdTab[f]
  BY DEF HelloAckFails
<1>2. TypeOK'
  BY DEF HelloAckFails, TypeOK, MainPcs
<1>3. \A f \in Fds, r \in Readers : fdTab'[f] = r <=> fdTab[f] = r
  BY <1>1 DEF ServerFdIsLink
<1>4. Targets' /\ ServerFdIsLink' /\ Started' /\ NoTargetLeak'
  BY <1>1, <1>3 DEF Targets, ServerFdIsLink, Started, NoTargetLeak
<1>5. SessionOwnsTarget' /\ SessionsOpened' /\ EmptyOutside' /\ DataToOwnTarget' /\ Locals'
  BY <1>1 DEF SessionOwnsTarget, SessionsOpened, EmptyOutside, OutsideLoop, DataToOwnTarget, Locals
<1> QED BY <1>2, <1>4, <1>5

(* close_session: out of the map and closed in one step.                   *)
LEMMA CloseSessionKeepsIInv ==
  ASSUME IInv, CloseSession
  PROVE  IInv'
<1> USE DEF IInv, readers, others
<1>1. /\ UNCHANGED <<serverFd, opened, rid, rpc, rfd, mfd, hb>> /\ mpc = "close" /\ ms \in Ids
      /\ mpc' \in {"recv", "clean", "join"}
  BY DEF CloseSession, LoopTest, Locals
<1>2. CASE sessions[ms] = None
  <2>1. UNCHANGED <<sessions, tfd, fdTab, mr>>
    BY <1>2 DEF CloseSession, sess
  <2>2. TypeOK'
    BY <1>1, <1>2 DEF CloseSession, sess, TypeOK, MainPcs
  <2>3. Targets' /\ ServerFdIsLink' /\ Started' /\ NoTargetLeak' /\ SessionOwnsTarget'
    BY <1>1, <2>1 DEF Targets, ServerFdIsLink, Started, NoTargetLeak, SessionOwnsTarget
  <2>4. SessionsOpened' /\ EmptyOutside' /\ DataToOwnTarget' /\ Locals'
    BY <1>1, <2>1 DEF SessionsOpened, EmptyOutside, OutsideLoop, DataToOwnTarget, Locals
  <2> QED BY <2>2, <2>3, <2>4
<1>3. CASE sessions[ms] # None
  <2> DEFINE x == sessions[ms]
  <2>1. /\ x = sessions[ms] /\ x \in Readers /\ rid[x] = ms /\ mpc' = "join" /\ mr' = x
        /\ sessions' = [sessions EXCEPT ![ms] = None] /\ CloseTargets({x})
    BY <1>1, <1>3, SessionsAreIn DEF CloseSession
  <2>2. /\ tfd' \in [Readers -> Fds \cup {None}]
        /\ fdTab' \in [Fds -> Links \cup Readers \cup {None}]
        /\ ended' \subseteq Links \cup Readers
        /\ Targets'
        /\ \A r \in Readers : tfd'[r] = IF r = x THEN None ELSE tfd[r]
        /\ \A f \in Fds : fdTab'[f] = IF fdTab[f] = x THEN None ELSE fdTab[f]
    BY <2>1, CloseTargetsFrees
  <2> HIDE DEF x
  <2>3. TypeOK'
    BY <1>1, <2>1, <2>2 DEF CloseSession, TypeOK, MainPcs
  <2>4. \A s \in Ids : sessions'[s] # None => sessions'[s] = sessions[s] /\ s # ms
    BY <2>1 DEF TypeOK
  <2>5. SessionOwnsTarget' /\ SessionsOpened' /\ EmptyOutside'
    BY <1>1, <2>1, <2>2, <2>4 DEF TypeOK, SessionOwnsTarget, SessionsOpened, EmptyOutside, OutsideLoop
  <2>6. ServerFdIsLink' /\ Started'
    BY <1>1, <2>1, <2>2 DEF TypeOK, ServerFdIsLink, Started
  <2>7. NoTargetLeak'
    BY <1>1, <2>1, <2>2 DEF TypeOK, NoTargetLeak, Targets, Started
  <2>8. DataToOwnTarget' /\ Locals'
    BY <1>1, <2>1 DEF DataToOwnTarget, Locals
  <2> QED BY <2>2, <2>3, <2>5, <2>6, <2>7, <2>8
<1> QED BY <1>2, <1>3

(* cleanup_connection takes every session, in the main thread at the end   *)
(* of a connection or in stop() at any moment.                             *)
LEMMA TakeSessionsKeepsIInv ==
  ASSUME IInv, MainCleanup \/ StopCleanup
  PROVE  IInv'
<1> USE DEF IInv, readers
<1> DEFINE S == {r \in Readers : \E s \in Ids : sessions[s] = r}
<1>1. /\ UNCHANGED <<serverFd, opened, rid, rpc, rfd, mfd, ms, mr, hb>>
      /\ CloseTargets(S) /\ sessions' = [s \in Ids |-> None]
      /\ mpc' = mpc \/ (mpc = "clean" /\ mpc' = "joinHb")
  BY DEF MainCleanup, StopCleanup, TakeSessions, mainVars
<1>2. /\ tfd' \in [Readers -> Fds \cup {None}]
      /\ fdTab' \in [Fds -> Links \cup Readers \cup {None}]
      /\ ended' \subseteq Links \cup Readers
      /\ Targets'
      /\ \A r \in Readers : tfd'[r] = IF r \in S THEN None ELSE tfd[r]
      /\ \A f \in Fds : fdTab'[f] = IF fdTab[f] \in S THEN None ELSE fdTab[f]
  BY <1>1, CloseTargetsFrees
<1>3. TypeOK'
  BY <1>1, <1>2 DEF MainCleanup, StopCleanup, TakeSessions, mainVars, TypeOK, MainPcs
<1>4. SessionOwnsTarget' /\ SessionsOpened' /\ EmptyOutside'
  BY <1>1 DEF SessionOwnsTarget, SessionsOpened, EmptyOutside, OutsideLoop
<1>5. ServerFdIsLink' /\ Started'
  BY <1>1, <1>2 DEF TypeOK, ServerFdIsLink, Started
<1>6. NoTargetLeak'
  <2>1. ASSUME NEW f \in Fds, NEW r \in Readers, fdTab'[f] = r
        PROVE  mpc' = "insert" /\ mr' = r
    <3>1. fdTab[f] = r /\ r \notin S
      BY <1>2, <2>1
    <3>2. rid[r] \in Ids /\ sessions[rid[r]] # r
      BY <3>1 DEF TypeOK, Targets, Started
    <3> QED BY <1>1, <3>1, <3>2 DEF NoTargetLeak
  <2> QED BY <2>1 DEF NoTargetLeak
<1>7. mpc = "insert" => mr \notin S
  BY DEF Locals, SessionOwnsTarget
<1>8. DataToOwnTarget' /\ Locals'
  BY <1>1, <1>2, <1>7 DEF TypeOK, DataToOwnTarget, Locals
<1> QED BY <1>2, <1>3, <1>4, <1>5, <1>6, <1>8

(* ... joins the heartbeat thread and closes the server connection.        *)
LEMMA JoinHeartbeatKeepsIInv ==
  ASSUME IInv, MainCleanupEnd \/ StopCleanupEnd
  PROVE  IInv'
<1> USE DEF IInv, readers, sess
<1>1. /\ UNCHANGED <<sessions, tfd, opened, rid, rpc, rfd, mfd, ms, mr>>
      /\ serverFd' = None /\ hb' = "none"
      /\ \A f \in Fds : fdTab'[f] = IF f = serverFd THEN None ELSE fdTab[f]
      /\ mpc' = mpc \/ (mpc = "joinHb" /\ mpc' = "after")
  BY DEF MainCleanupEnd, StopCleanupEnd, JoinHeartbeat, mainVars
<1>2. TypeOK'
  BY DEF MainCleanupEnd, StopCleanupEnd, JoinHeartbeat, mainVars, TypeOK, MainPcs
<1>3. \A f \in Fds, r \in Readers : fdTab'[f] = r <=> fdTab[f] = r
  BY <1>1 DEF ServerFdIsLink
<1>4. Targets' /\ ServerFdIsLink' /\ Started'
  BY <1>1, <1>3 DEF Targets, ServerFdIsLink, Started
<1>5. NoTargetLeak' /\ SessionOwnsTarget'
  BY <1>1, <1>3 DEF TypeOK, NoTargetLeak, SessionOwnsTarget
<1>6. SessionsOpened' /\ EmptyOutside' /\ DataToOwnTarget' /\ Locals'
  BY <1>1 DEF SessionsOpened, EmptyOutside, OutsideLoop, DataToOwnTarget, Locals
<1> QED BY <1>2, <1>4, <1>5, <1>6

(* A reader that goes on receiving and sending.                            *)
LEMMA ReaderMovesKeepIInv ==
  ASSUME IInv, NEW r \in Readers, ReaderRecv(r) \/ ReaderEof(r) \/ ReaderSend(r)
  PROVE  IInv'
<1> USE DEF IInv, sess, others, kernel, mainVars
<1>1. /\ UNCHANGED <<mpc, ms, mr, mfd, hb, serverFd, opened, sessions, tfd, rid, rfd, fdTab>>
      /\ rpc[r] # "none" /\ rpc' = [rpc EXCEPT ![r] = rpc'[r]]
      /\ rpc'[r] \in {"recv", "send", "erase"}
  BY DEF ReaderRecv, ReaderEof, ReaderSend, TypeOK
<1>2. TypeOK'
  BY <1>1 DEF ReaderRecv, ReaderEof, ReaderSend, TypeOK
<1>3. Targets' /\ ServerFdIsLink' /\ Started' /\ NoTargetLeak' /\ SessionOwnsTarget'
  BY <1>1 DEF TypeOK, Targets, ServerFdIsLink, Started, NoTargetLeak, SessionOwnsTarget
<1>4. SessionsOpened' /\ EmptyOutside' /\ DataToOwnTarget' /\ Locals'
  BY <1>1 DEF SessionsOpened, EmptyOutside, DataToOwnTarget, Locals
<1> QED BY <1>2, <1>3, <1>4

(* A reader that ends takes whatever session has its id: its own, or, if   *)
(* it was detached, none or that of a later connection.                    *)
LEMMA ReaderEraseKeepsIInv ==
  ASSUME IInv, NEW r \in Readers, ReaderErase(r)
  PROVE  IInv'
<1> USE DEF IInv, others, mainVars
<1> DEFINE x == sessions[rid[r]]
<1>1. /\ UNCHANGED <<mpc, ms, mr, mfd, hb, serverFd, opened, rid>> /\ rpc[r] = "erase"
      /\ rid[r] \in Ids /\ rpc' = [rpc EXCEPT ![r] = "done"]
      /\ sessions' = [sessions EXCEPT ![rid[r]] = None]
  BY DEF ReaderErase, Started
<1>2. \A s \in Ids : sessions'[s] # None => sessions'[s] = sessions[s] /\ s # rid[r]
  BY <1>1 DEF TypeOK
<1>3. CASE x = None
  <2>1. UNCHANGED <<tfd, fdTab, ended, fresh>> /\ sessions' = sessions
    BY <1>1, <1>3 DEF ReaderErase, TypeOK
  <2>2. TypeOK'
    BY <1>1, <2>1 DEF ReaderErase, TypeOK
  <2>3. Targets' /\ ServerFdIsLink' /\ Started' /\ NoTargetLeak' /\ SessionOwnsTarget'
    BY <1>1, <2>1 DEF TypeOK, Targets, ServerFdIsLink, Started, NoTargetLeak, SessionOwnsTarget
  <2>4. SessionsOpened' /\ EmptyOutside' /\ DataToOwnTarget' /\ Locals'
    BY <1>1, <2>1 DEF SessionsOpened, EmptyOutside, DataToOwnTarget, Locals
  <2> QED BY <2>2, <2>3, <2>4
<1>4. CASE x # None
  <2>1. /\ x \in Readers /\ rid[x] = rid[r] /\ tfd[x] \in Fds /\ fdTab[tfd[x]] = x
        /\ mpc = "insert" => x # mr
        /\ tfd[x] # serverFd
    BY <1>1, <1>4, SessionsAreIn
  <2>2. fdTab' = [fdTab EXCEPT ![tfd[x]] = None] /\ tfd' = [tfd EXCEPT ![x] = None]
    BY <1>4 DEF ReaderErase
  <2>3. x = sessions[rid[r]]
    OBVIOUS
  <2> HIDE DEF x
  <2>4. TypeOK'
    BY <1>1, <2>1, <2>2 DEF ReaderErase, TypeOK
  <2>5. Targets' /\ ServerFdIsLink' /\ Started'
    BY <1>1, <2>1, <2>2 DEF TypeOK, Targets, ServerFdIsLink, Started
  <2>6. SessionOwnsTarget' /\ NoTargetLeak'
    BY <1>1, <1>2, <2>1, <2>2, <2>3 DEF TypeOK, SessionOwnsTarget, NoTargetLeak, Targets
  <2>7. SessionsOpened' /\ EmptyOutside'
    BY <1>1, <1>2 DEF SessionsOpened, EmptyOutside
  <2>8. DataToOwnTarget' /\ Locals'
    BY <1>1, <1>2, <2>1, <2>2 DEF TypeOK, DataToOwnTarget, Locals
  <2> QED BY <2>4, <2>5, <2>6, <2>7, <2>8
<1> QED BY <1>3, <1>4

(* Steps that only move the heartbeat thread or stop(), or end a socket.   *)
LEMMA OtherMovesKeepIInv ==
  ASSUME IInv,
         \/ HeartbeatEnds \/ HeartbeatTimeout \/ StopFlag \/ StopShutdown \/ Expire
         \/ \E o \in Links \cup Readers : PeerEnds(o)
         \/ UNCHANGED vars
  PROVE  IInv'
<1> USE DEF IInv, sess, readers, others, kernel, mainVars
<1>1. UNCHANGED <<mpc, ms, mr, mfd, serverFd, opened, sessions, tfd, rid, rpc, rfd, fdTab>>
  BY DEF HeartbeatEnds, HeartbeatTimeout, StopFlag, StopShutdown, Expire, PeerEnds, vars
<1>2. hb = "none" => hb' = "none"
  BY DEF HeartbeatEnds, HeartbeatTimeout, StopFlag, StopShutdown, Expire, PeerEnds, vars
<1>3. serverFd # None => SockOf(serverFd) \in Links
  BY DEF ServerFdIsLink, SockOf
<1>4. TypeOK'
  <2>1. CASE HeartbeatEnds \/ StopFlag \/ Expire
    BY <2>1 DEF HeartbeatEnds, StopFlag, Expire, TypeOK
  <2>2. CASE HeartbeatTimeout
    BY <2>2, <1>3 DEF HeartbeatTimeout, TypeOK, SockOf
  <2>3. CASE StopShutdown
    BY <2>3, <1>3 DEF StopShutdown, TypeOK, SockOf
  <2>4. CASE \E o \in Links \cup Readers : PeerEnds(o)
    BY <2>4 DEF PeerEnds, TypeOK
  <2>5. CASE UNCHANGED vars
    BY <2>5 DEF vars, TypeOK
  <2> QED BY <2>1, <2>2, <2>3, <2>4, <2>5
<1>5. Targets' /\ ServerFdIsLink' /\ Started' /\ NoTargetLeak' /\ SessionOwnsTarget'
  BY <1>1 DEF Targets, ServerFdIsLink, Started, NoTargetLeak, SessionOwnsTarget
<1>6. SessionsOpened' /\ EmptyOutside' /\ DataToOwnTarget' /\ Locals'
  BY <1>1, <1>2 DEF SessionsOpened, EmptyOutside, DataToOwnTarget, Locals
<1> QED BY <1>4, <1>5, <1>6

----------------------------------------------------------------------------
(* The invariant holds in every state the agent reaches, whichever of the  *)
(* main thread, stop() and the readers close a target.                     *)
THEOREM AgentInvariant == Spec => []IInv
<1>1. IInv /\ [Next]_vars => IInv'
  <2> SUFFICES ASSUME IInv, [Next]_vars PROVE IInv'
    OBVIOUS
  <2>1. CASE MainStep \/ RecvStep \/ RunStart \/ HelloAck \/ HelloAckFails
    BY <2>1, MainMovesKeepIInv, InsertKeepsIInv, CloseSessionKeepsIInv, TakeSessionsKeepsIInv,
       JoinHeartbeatKeepsIInv, HelloAckFailsKeepsIInv DEF MainStep, RecvStep
  <2>2. CASE \E l \in Links, f \in Fds : ConnectServer(l, f)
    BY <2>2, ConnectServerKeepsIInv
  <2>3. CASE \E r \in Readers, f \in Fds : ConnectTarget(r, f)
    BY <2>3, ConnectTargetKeepsIInv
  <2>4. CASE \E r \in Readers : ReaderStep(r)
    BY <2>4, ReaderMovesKeepIInv, ReaderEraseKeepsIInv DEF ReaderStep
  <2>5. CASE HeartbeatStep \/ StopFlag \/ StopStep \/ Expire
    BY <2>5, OtherMovesKeepIInv, TakeSessionsKeepsIInv, JoinHeartbeatKeepsIInv
       DEF HeartbeatStep, StopStep
  <2>6. CASE \E o \in Links \cup Readers : PeerEnds(o)
    BY <2>6, OtherMovesKeepIInv
  <2>7. CASE UNCHANGED vars
    BY <2>7, OtherMovesKeepIInv
  <2> QED BY <2>1, <2>2, <2>3, <2>4, <2>5, <2>6, <2>7 DEF Next
<1> QED BY InitIInv, <1>1, PTL DEF Spec

(* Every variable of the agent keeps its type; the backoff delay stays     *)
(* between 1 and MAX_RECONNECT_DELAY_S, the reported one not above it.     *)
THEOREM AgentTypeOK == Spec => []TypeOK
<1>1. IInv => TypeOK
  BY DEF IInv
<1> QED BY AgentInvariant, <1>1, PTL

(* A session in sessions_ was opened under its own id, and its target_fd   *)
(* is open and its own, whatever close_session, cleanup_connection and     *)
(* ~Session close meanwhile.                                               *)
THEOREM AgentSessionsOwnTargets == Spec => []SessionOwnsTarget
<1>1. IInv => SessionOwnsTarget
  BY DEF IInv
<1> QED BY AgentInvariant, <1>1, PTL

(* The descriptor handle_data copied under the lock is closed or still the *)
(* session's own when it writes to it.                                     *)
THEOREM AgentDataToOwnTarget == Spec => []DataToOwnTarget
<1>1. IInv => DataToOwnTarget
  BY DEF IInv
<1> QED BY AgentInvariant, <1>1, PTL

(* An open target socket is in sessions_ or handle_open is about to put    *)
(* it there.                                                               *)
THEOREM AgentLeaksNoTarget == Spec => []NoTargetLeak
<1>1. IInv => NoTargetLeak
  BY DEF IInv
<1> QED BY AgentInvariant, <1>1, PTL

(* When run() returns no session, target socket or heartbeat thread of     *)
(* the agent is left: the map is empty, so no target can be open.          *)
THEOREM AgentReturnedClean == Spec => []ReturnedIsClean
<1>1. IInv => ReturnedIsClean
  <2> SUFFICES ASSUME IInv, mpc = "returned" PROVE ReturnedIsClean
    BY DEF ReturnedIsClean
  <2>1. (\A s \in Ids : sessions[s] = None) /\ hb = "none"
    BY DEF IInv, EmptyOutside, OutsideLoop
  <2>2. ASSUME NEW f \in Fds, fdTab[f] \in Readers PROVE FALSE
    <3>1. tfd[fdTab[f]] = f /\ sessions[rid[fdTab[f]]] = fdTab[f]
      BY <2>2 DEF IInv, Targets, NoTargetLeak
    <3>2. rid[fdTab[f]] \in Ids
      BY <2>2, <3>1 DEF IInv, TypeOK, Started
    <3> QED BY <2>1, <2>2, <3>1, <3>2
  <2> QED BY <2>1, <2>2 DEF ReturnedIsClean
<1> QED BY AgentInvariant, <1>1, PTL
=============================================================================
