------------------------- MODULE ServerSessionsProofs -------------------------
(***************************************************************************)
(* The session maps of TunnelServer, proved for any number of clients,     *)
(* descriptors and session ids, also when the id counter wraps around and  *)
(* two sessions meet under one id.                                         *)
(*                                                                         *)
(* SessionFdIsOwn and PendingIsAwaited need that a thread between accept() *)
(* and close() is the only owner of its descriptor (OwnsFd) and that its   *)
(* session_id is set from open_session on (HasId).  NoOrphanSession is not *)
(* inductive: a thread whose promise was broken closes its socket and not  *)
(* its session.  It keeps no session alive (HasKeeper): whoever broke the  *)
(* promise took over the same session id, or is stop().                    *)
(***************************************************************************)
EXTENDS ServerSessions, TLAPS

Holding == {"target", "check", "insert", "open", "promise", "wait", "unpend",
            "attach", "forward", "erase", "close"}
Opened == {"open", "promise", "wait", "unpend", "attach", "forward", "erase"}

(* A thread owns one descriptor from accept() to close().                  *)
OwnsFd ==
  \A x \in Clients :
    /\ pc[x] \in Holding => fd[x] \in Fds /\ fdTab[fd[x]] = x
    /\ pc[x] \in {"new", "done"} => \A f \in Fds : fdTab[f] # x
    /\ \A f \in Fds : fdTab[f] = x => fd[x] = f

(* A thread knows its session id from generate_session_id on.              *)
HasId ==
  \A x \in Clients : /\ pc[x] \in Opened => sid[x] \in Ids
                     /\ pc[x] \in {"new", "target", "check", "insert", "done"} => sid[x] = 0

(* While DATA is written, the per-agent thread has a descriptor and an id. *)
HasData == hpc = "send" => hid \in Ids /\ hfd \in Fds

(* Every session has a thread that will erase it.                          *)
Keeps(y, s) == sid[y] = s /\ pc[y] \in Opened /\ ~(pc[y] = "wait" /\ promise[y] = "exception")
HasKeeper ==
  \A s \in Ids : sessions[s] # NoSession =>
    (\E y \in Clients : Keeps(y, s)) \/ stopPc \in {"failed", "cleared"}

(* The inductive invariant.                                                *)
IInv == /\ TypeOK /\ OwnsFd /\ HasId /\ HasData
        /\ SessionFdIsOwn /\ PendingIsAwaited /\ HasKeeper

USE GatewayAssumption, MaxIdAssumption, NoClientAssumption, NoFdAssumption

(* Nothing is open or pending initially.                                   *)
LEMMA InitIInv == Init => IInv
<1> SUFFICES ASSUME Init PROVE IInv
  OBVIOUS
<1>1. TypeOK
  <2>1. inbox \in Seq(Frames)
    BY DEF Init
  <2>2. nextId \in 0 .. MaxId /\ hid \in 0 .. MaxId /\ sid \in [Clients -> 0 .. MaxId]
    BY DEF Init
  <2> QED BY <2>1, <2>2 DEF Init, TypeOK, PCs
<1>2. OwnsFd /\ HasId /\ HasData
  BY DEF Init, OwnsFd, HasId, HasData, Holding, Opened
<1>3. SessionFdIsOwn /\ PendingIsAwaited /\ HasKeeper
  BY DEF Init, SessionFdIsOwn, PendingIsAwaited, HasKeeper
<1> QED BY <1>1, <1>2, <1>3 DEF IInv

(* generate_session_id yields a valid id, and so does the counter after it *)
(* wraps.                                                                  *)
LEMMA GeneratedIdRange ==
  ASSUME TypeOK
  PROVE  GeneratedId \in Ids /\ NextIdAfter \in 0 .. MaxId
<1>1. GeneratedId \in Nat /\ GeneratedId \in Ids
  BY DEF TypeOK, GeneratedId, Ids
<1>2. \A a, b \in Nat : b > 0 => a % b \in 0 .. b - 1
  OBVIOUS
<1> QED BY <1>1, <1>2 DEF NextIdAfter

(* The frame at the head of the inbox names a session id.                  *)
LEMMA HeadIsFrame ==
  ASSUME TypeOK, inbox # <<>>
  PROVE  Head(inbox).id \in Ids /\ Tail(inbox) \in Seq(Frames)
<1>1. inbox \in Seq(Frames) /\ inbox # <<>>
  BY DEF TypeOK
<1>2. Head(inbox) \in Frames /\ Tail(inbox) \in Seq(Frames)
  BY <1>1
<1> QED BY <1>2 DEF Frames

(* A move of a client thread that changes none of the maps.                *)
Moves == {<<"target", "check">>, <<"target", "close">>, <<"check", "insert">>, <<"check", "close">>,
          <<"open", "promise">>, <<"wait", "attach">>, <<"wait", "erase">>, <<"wait", "close">>,
          <<"wait", "unpend">>, <<"forward", "erase">>}

LEMMA MoveInv ==
  ASSUME IInv, TypeOK', NEW x \in Clients, NEW p, NEW q, <<p, q>> \in Moves, pc[x] = p, Goto(x, q),
         UNCHANGED <<maps, fdTab, sid, fd, hpc, hfd, hid, stopPc>>,
         p = "wait" /\ q # "unpend" => promise[x] # "unset",
         q = "close" /\ p = "wait" => promise[x] = "exception"
  PROVE  IInv'
<1> USE DEF IInv, Goto, maps, Moves
<1>1. OwnsFd'
  BY DEF TypeOK, OwnsFd, Holding
<1>2. HasId' /\ HasData'
  BY DEF TypeOK, HasId, HasData, Opened
<1>3. SessionFdIsOwn'
  BY DEF TypeOK, SessionFdIsOwn
<1>4. PendingIsAwaited'
  BY DEF TypeOK, PendingIsAwaited
<1>5. HasKeeper'
  <2> SUFFICES ASSUME NEW s \in Ids, sessions'[s] # NoSession, stopPc' \notin {"failed", "cleared"}
               PROVE  \E y \in Clients : Keeps(y, s)'
    BY DEF HasKeeper
  <2>1. PICK y \in Clients : Keeps(y, s)
    BY DEF HasKeeper
  <2>2. Keeps(y, s)'
    BY <2>1 DEF Keeps, Opened, TypeOK, HasId
  <2> QED BY <2>2
<1> QED BY <1>1, <1>2, <1>3, <1>4, <1>5

(* Type correctness of a single step.                                      *)
LEMMA NextTypeOK == TypeOK /\ HasId /\ HasData /\ [Next]_vars => TypeOK'
<1> SUFFICES ASSUME TypeOK, HasId, HasData, [Next]_vars PROVE TypeOK'
  OBVIOUS
<1> USE DEF TypeOK, Goto, server, agentVars, maps, threads
<1>1. ASSUME NEW x \in Clients, NEW f \in Fds, Accept(x, f) PROVE TypeOK'
  BY <1>1 DEF Accept, PCs
<1>2. ASSUME NEW x \in Clients, ReadTarget(x) \/ OpenCheck(x) \/ WaitStep(x) PROVE TypeOK'
  <2>1. CASE ReadTarget(x)
    BY <2>1 DEF ReadTarget, PCs
  <2>2. CASE OpenCheck(x)
    BY <2>2 DEF OpenCheck, PCs
  <2>3. CASE WaitValue(x)
    BY <2>3 DEF WaitValue, PCs
  <2>4. CASE WaitException(x)
    BY <2>4 DEF WaitException, PCs
  <2>5. CASE WaitTimeout(x)
    BY <2>5 DEF WaitTimeout, PCs
  <2> QED BY <1>2, <2>1, <2>2, <2>3, <2>4, <2>5 DEF WaitStep
<1>3. ASSUME NEW x \in Clients, ForwardEnd(x) \/ ForwardBreaks(x) \/ Disconnect(x) PROVE TypeOK'
  <2>1. CASE ForwardEnd(x)
    BY <2>1 DEF ForwardEnd, PCs
  <2>2. CASE ForwardBreaks(x)
    BY <2>2 DEF ForwardBreaks, PCs
  <2>3. CASE Disconnect(x)
    BY <2>3 DEF Disconnect, PCs
  <2> QED BY <1>3, <2>1, <2>2, <2>3
<1>4. ASSUME NEW x \in Clients, OpenInsert(x) PROVE TypeOK'
  <2>1. GeneratedId \in Ids /\ GeneratedId \in 0 .. MaxId /\ NextIdAfter \in 0 .. MaxId
    BY GeneratedIdRange DEF Ids
  <2> QED BY <1>4, <2>1 DEF OpenInsert, PCs
<1>5. ASSUME NEW x \in Clients, OpenSend(x) PROVE TypeOK'
  BY <1>5 DEF OpenSend, PCs, HasId, Opened
<1>6. ASSUME NEW x \in Clients, OpenSendFails(x) \/ CloseSession(x) \/ AttachFd(x) PROVE TypeOK'
  <2>1. CASE OpenSendFails(x)
    BY <2>1 DEF OpenSendFails, PCs
  <2>2. CASE CloseSession(x)
    BY <2>2 DEF CloseSession, PCs
  <2>3. CASE AttachFd(x)
    BY <2>3 DEF AttachFd, PCs
  <2> QED BY <1>6, <2>1, <2>2, <2>3
<1>7. ASSUME NEW x \in Clients, RegisterPromise(x) PROVE TypeOK'
  BY <1>7 DEF RegisterPromise, PCs
<1>8. ASSUME NEW x \in Clients, ErasePromise(x) PROVE TypeOK'
  BY <1>8 DEF ErasePromise, PCs
<1>9. ASSUME NEW x \in Clients, CloseFd(x) PROVE TypeOK'
  <2>1. pc' \in [Clients -> PCs] /\ gone' \subseteq Clients
    BY <1>9 DEF CloseFd, PCs
  <2>2. /\ fdTab' \in [Fds -> Clients \cup {NoClient}]
        /\ fd' \in [Clients -> Fds \cup {NoFd}]
        /\ promise' \in [Clients -> {"none", "unset", "value", "exception"}]
    BY <1>9 DEF CloseFd
  <2>3. sid' \in [Clients -> 0 .. MaxId]
    BY <1>9 DEF CloseFd
  <2> QED BY <1>9, <2>1, <2>2, <2>3 DEF CloseFd
<1>10. ASSUME NEW s \in Ids, NEW type \in {"OPEN_ACK", "DATA", "CLOSE"}, AgentSends(s, type)
       PROVE TypeOK'
  <2>1. [type |-> type, id |-> s] \in Frames
    BY DEF Frames
  <2>2. inbox' \in Seq(Frames)
    BY <1>10, <2>1 DEF AgentSends
  <2> QED BY <1>10, <2>2 DEF AgentSends
<1>11. CASE AgentConnect \/ LeaveLoop \/ Unregister \/ PurgeSessions
            \/ LateUnregister \/ LatePurge
  <2>1. CASE AgentConnect
    BY <2>1 DEF AgentConnect, LoopTest
  <2>2. CASE LeaveLoop
    BY <2>2 DEF LeaveLoop, LoopTest
  <2>3. CASE Unregister
    BY <2>3 DEF Unregister, LoopTest
  <2>4. CASE PurgeSessions
    BY <2>4 DEF PurgeSessions, LoopTest
  <2>5. CASE LateUnregister
    BY <2>5 DEF LateUnregister, LoopTest
  <2>6. CASE LatePurge
    BY <2>6 DEF LatePurge, LoopTest
  <2> QED BY <1>11, <2>1, <2>2, <2>3, <2>4, <2>5, <2>6
<1>12. CASE HandleOpenAck
  BY <1>12, HeadIsFrame DEF HandleOpenAck, Receives, LoopTest
<1>13. CASE HandleData
  <2>1. Head(inbox).id \in Ids /\ Head(inbox).id \in 0 .. MaxId /\ Tail(inbox) \in Seq(Frames)
    BY <1>13, HeadIsFrame DEF HandleData, Receives, Ids
  <2> QED BY <1>13, <2>1 DEF HandleData, LoopTest
<1>14. CASE HandleClose
  BY <1>14, HeadIsFrame DEF HandleClose, Receives, LoopTest
<1>15. CASE DataSent \/ DataSendFails
  BY <1>15 DEF DataSent, DataSendFails, LoopTest
<1>16. CASE SetForwardTarget \/ StopFlag \/ StopStep
  BY <1>16 DEF SetForwardTarget, StopFlag, StopStep, StopPending, StopAgents, StopSessions
<1>17. CASE UNCHANGED vars
  BY <1>17 DEF vars
<1> QED
  BY <1>1, <1>2, <1>3, <1>4, <1>5, <1>6, <1>7, <1>8, <1>9, <1>10, <1>11, <1>12, <1>13,
     <1>14, <1>15, <1>16, <1>17 DEF Next, ClientStep, OpenStep, AgentStep

(* A step that at most erases sessions: those of the agent, of its thread, *)
(* and of stop() after the promises have been failed.                      *)
LEMMA ErasingInv ==
  ASSUME IInv, TypeOK', HasData',
         UNCHANGED <<pending, promise, fdTab, threads>>,
         \A s \in Ids : sessions'[s] = sessions[s] \/ sessions'[s] = NoSession,
         stopPc \in {"failed", "cleared"} =>
           stopPc' \in {"failed", "cleared"} \/ \A s \in Ids : sessions'[s] = NoSession
  PROVE  IInv'
<1> USE DEF IInv, threads
<1>1. OwnsFd' /\ HasId'
  BY DEF OwnsFd, HasId
<1>2. SessionFdIsOwn'
  BY DEF SessionFdIsOwn
<1>3. PendingIsAwaited'
  BY DEF PendingIsAwaited
<1>4. HasKeeper'
  BY DEF HasKeeper, Keeps
<1> QED BY <1>1, <1>2, <1>3, <1>4

(* accept() gives a new thread a descriptor nobody owns.                   *)
LEMMA AcceptInv ==
  ASSUME IInv, TypeOK', NEW x \in Clients, NEW f \in Fds, Accept(x, f)
  PROVE  IInv'
<1> USE DEF IInv, TypeOK, Accept, Goto, server, agentVars, maps
<1>1. pc[x] = "new" /\ sid[x] = 0 /\ fdTab[f] = NoClient /\ \A g \in Fds : fdTab[g] # x
  BY DEF OwnsFd, HasId
<1>2. OwnsFd'
  BY <1>1 DEF OwnsFd, Holding
<1>3. HasId' /\ HasData'
  BY <1>1 DEF HasId, HasData, Opened
<1>4. SessionFdIsOwn'
  BY <1>1 DEF SessionFdIsOwn
<1>5. PendingIsAwaited'
  BY <1>1 DEF PendingIsAwaited
<1>6. HasKeeper'
  <2> SUFFICES ASSUME NEW s \in Ids, sessions'[s] # NoSession, stopPc' \notin {"failed", "cleared"}
               PROVE  \E y \in Clients : Keeps(y, s)'
    BY DEF HasKeeper
  <2>1. PICK y \in Clients : Keeps(y, s)
    BY DEF HasKeeper
  <2>2. Keeps(y, s)'
    BY <1>1, <2>1 DEF Keeps, Opened
  <2> QED BY <2>2
<1> QED BY <1>2, <1>3, <1>4, <1>5, <1>6

(* close() releases the descriptor of a thread that no map refers to.      *)
LEMMA CloseFdInv ==
  ASSUME IInv, TypeOK', NEW x \in Clients, CloseFd(x)
  PROVE  IInv'
<1> USE DEF IInv, TypeOK, CloseFd, Goto, server, agentVars
<1>1. pc[x] = "close" /\ fd[x] \in Fds /\ fdTab[fd[x]] = x
  BY DEF OwnsFd, Holding
<1>2. OwnsFd'
  BY <1>1 DEF OwnsFd, Holding
<1>3. HasId' /\ HasData'
  BY <1>1 DEF HasId, HasData, Opened
<1>4. SessionFdIsOwn'
  BY <1>1 DEF SessionFdIsOwn
<1>5. PendingIsAwaited'
  BY <1>1 DEF PendingIsAwaited
<1>6. HasKeeper'
  <2> SUFFICES ASSUME NEW s \in Ids, sessions'[s] # NoSession, stopPc' \notin {"failed", "cleared"}
               PROVE  \E y \in Clients : Keeps(y, s)'
    BY DEF HasKeeper
  <2>1. PICK y \in Clients : Keeps(y, s)
    BY DEF HasKeeper
  <2>2. Keeps(y, s)'
    BY <1>1, <2>1 DEF Keeps, Opened
  <2> QED BY <2>2
<1> QED BY <1>2, <1>3, <1>4, <1>5, <1>6

(* open_session inserts a session for which the thread then answers, even  *)
(* if the id was taken.                                                    *)
LEMMA OpenInsertInv ==
  ASSUME IInv, TypeOK', NEW x \in Clients, OpenInsert(x)
  PROVE  IInv'
<1> DEFINE g == GeneratedId
<1>1. g \in Ids
  BY GeneratedIdRange DEF IInv
<1>2. /\ pc[x] = "insert" /\ pc' = [pc EXCEPT ![x] = "open"]
      /\ sessions' = [sessions EXCEPT ![g] = NoFd]
      /\ sid' = [sid EXCEPT ![x] = g]
      /\ UNCHANGED <<server, agentVars, pending, promise, fdTab, gone, fd>>
  BY DEF OpenInsert, Goto
<1> HIDE DEF g
<1> USE <1>1, <1>2 DEF IInv, TypeOK, server, agentVars
<1>3. OwnsFd'
  BY DEF OwnsFd, Holding
<1>4. HasId' /\ HasData'
  BY DEF HasId, HasData, Opened
<1>5. SessionFdIsOwn'
  BY DEF SessionFdIsOwn
<1>6. PendingIsAwaited'
  BY DEF PendingIsAwaited
<1>7. HasKeeper'
  <2> SUFFICES ASSUME NEW s \in Ids, sessions'[s] # NoSession, stopPc' \notin {"failed", "cleared"}
               PROVE  \E y \in Clients : Keeps(y, s)'
    BY DEF HasKeeper
  <2>1. CASE s = g
    <3>1. Keeps(x, s)'
      BY <2>1 DEF Keeps, Opened
    <3> QED BY <3>1
  <2>2. CASE s # g
    <3>1. PICK y \in Clients : Keeps(y, s)
      BY <2>2 DEF HasKeeper
    <3>2. Keeps(y, s)'
      BY <3>1 DEF Keeps, Opened
    <3> QED BY <3>2
  <2> QED BY <2>1, <2>2
<1> QED BY <1>3, <1>4, <1>5, <1>6, <1>7

(* A thread that leaves for close() with its session erased: a failed      *)
(* OPEN, close_session, and set_session_external_fd on a session that has  *)
(* gone.                                                                   *)
LEMMA LeaveInv ==
  ASSUME IInv, TypeOK', NEW x \in Clients, pc[x] \in {"open", "attach", "erase"}, Goto(x, "close"),
         sessions' = [sessions EXCEPT ![sid[x]] = NoSession],
         UNCHANGED <<server, agentVars, nextId, pending, promise, fdTab, gone, sid, fd>>
  PROVE  IInv'
<1> USE DEF IInv, TypeOK, Goto, server, agentVars
<1>1. sid[x] \in Ids
  BY DEF HasId, Opened
<1>2. OwnsFd'
  BY DEF OwnsFd, Holding
<1>3. HasId' /\ HasData'
  BY DEF HasId, HasData, Opened
<1>4. SessionFdIsOwn'
  BY <1>1 DEF SessionFdIsOwn
<1>5. PendingIsAwaited'
  BY DEF PendingIsAwaited
<1>6. HasKeeper'
  <2> SUFFICES ASSUME NEW s \in Ids, sessions'[s] # NoSession, stopPc' \notin {"failed", "cleared"}
               PROVE  \E y \in Clients : Keeps(y, s)'
    BY DEF HasKeeper
  <2>1. s # sid[x] /\ sessions[s] # NoSession
    BY <1>1
  <2>2. PICK y \in Clients : Keeps(y, s)
    BY <2>1 DEF HasKeeper
  <2>3. Keeps(y, s)'
    BY <2>1, <2>2 DEF Keeps, Opened
  <2> QED BY <2>3
<1> QED BY <1>2, <1>3, <1>4, <1>5, <1>6

(* set_session_external_fd ties the session to its thread's descriptor.    *)
LEMMA AttachFdInv ==
  ASSUME IInv, TypeOK', NEW x \in Clients, AttachFd(x)
  PROVE  IInv'
<1> USE DEF IInv, TypeOK, AttachFd, Goto, server, agentVars
<1>1. sid[x] \in Ids /\ fd[x] \in Fds /\ fdTab[fd[x]] = x
  BY DEF HasId, Opened, OwnsFd, Holding
<1>2. CASE sessions[sid[x]] = NoSession
  <2>1. sessions' = [sessions EXCEPT ![sid[x]] = NoSession]
    BY <1>1, <1>2
  <2> QED BY <1>2, <2>1, LeaveInv
<1>3. CASE sessions[sid[x]] # NoSession
  <2>1. OwnsFd'
    BY <1>3 DEF OwnsFd, Holding
  <2>2. HasId' /\ HasData'
    BY <1>3 DEF HasId, HasData, Opened
  <2>3. SessionFdIsOwn'
    BY <1>1, <1>3 DEF SessionFdIsOwn
  <2>4. PendingIsAwaited'
    BY <1>3 DEF PendingIsAwaited
  <2>5. HasKeeper'
    <3> SUFFICES ASSUME NEW s \in Ids, sessions'[s] # NoSession,
                        stopPc' \notin {"failed", "cleared"}
                 PROVE  \E y \in Clients : Keeps(y, s)'
      BY DEF HasKeeper
    <3>1. sessions[s] # NoSession
      BY <1>1, <1>3
    <3>2. PICK y \in Clients : Keeps(y, s)
      BY <3>1 DEF HasKeeper
    <3>3. Keeps(y, s)'
      BY <1>3, <3>2 DEF Keeps, Opened
    <3> QED BY <3>3
  <2> QED BY <2>1, <2>2, <2>3, <2>4, <2>5
<1> QED BY <1>2, <1>3

(* Registering a promise may break one of the same id: the thread that     *)
(* loses it stops answering for the session, the new one takes over.       *)
LEMMA RegisterPromiseInv ==
  ASSUME IInv, TypeOK', NEW x \in Clients, RegisterPromise(x)
  PROVE  IInv'
<1> USE DEF IInv, TypeOK, RegisterPromise, Goto, server, agentVars
<1>1. sid[x] \in Ids /\ pc[x] = "promise" /\ \A s \in Ids : pending[s] # x
  <2>1. pc[x] = "promise"
    OBVIOUS
  <2>2. sid[x] \in Ids
    BY <2>1 DEF HasId, Opened
  <2>3. ASSUME NEW s \in Ids PROVE pending[s] # x
    BY <2>1, <2>3, x # NoClient DEF PendingIsAwaited
  <2> QED BY <2>1, <2>2, <2>3
<1>2. OwnsFd'
  BY <1>1 DEF OwnsFd, Holding
<1>3. HasId' /\ HasData'
  BY <1>1 DEF HasId, HasData, Opened
<1>4. SessionFdIsOwn'
  BY <1>1 DEF SessionFdIsOwn
<1>5. PendingIsAwaited'
  <2> SUFFICES ASSUME NEW s \in Ids, pending'[s] # NoClient
               PROVE  /\ sid'[pending'[s]] = s /\ promise'[pending'[s]] = "unset"
                      /\ pc'[pending'[s]] \in {"wait", "unpend"}
    BY DEF PendingIsAwaited
  <2>1. CASE s = sid[x]
    BY <1>1, <2>1
  <2>2. CASE s # sid[x]
    <3> DEFINE y == pending[s]
    <3>1. pending'[s] = y /\ y \in Clients /\ y # x
      BY <1>1, <2>2
    <3>2. sid[y] = s /\ promise[y] = "unset" /\ pc[y] \in {"wait", "unpend"}
      BY <3>1 DEF PendingIsAwaited
    <3>3. pending[sid[x]] # y
      BY <1>1, <2>2, <3>1, <3>2 DEF PendingIsAwaited
    <3> QED BY <3>1, <3>2, <3>3
  <2> QED BY <2>1, <2>2
<1>6. HasKeeper'
  <2> SUFFICES ASSUME NEW s \in Ids, sessions'[s] # NoSession, stopPc' \notin {"failed", "cleared"}
               PROVE  \E y \in Clients : Keeps(y, s)'
    BY DEF HasKeeper
  <2>1. CASE s = sid[x]
    <3>1. Keeps(x, s)'
      BY <1>1, <2>1 DEF Keeps, Opened
    <3> QED BY <3>1
  <2>2. CASE s # sid[x]
    <3>1. PICK y \in Clients : Keeps(y, s)
      BY <2>2 DEF HasKeeper
    <3>2. pending[sid[x]] # y
      BY <1>1, <2>2, <3>1 DEF Keeps, PendingIsAwaited
    <3>3. Keeps(y, s)'
      BY <1>1, <3>1, <3>2 DEF Keeps, Opened
    <3> QED BY <3>3
  <2> QED BY <2>1, <2>2
<1> QED BY <1>2, <1>3, <1>4, <1>5, <1>6

(* After a timeout the thread removes whatever promise its id has, and     *)
(* goes on to erase the session.                                           *)
LEMMA ErasePromiseInv ==
  ASSUME IInv, TypeOK', NEW x \in Clients, ErasePromise(x)
  PROVE  IInv'
<1> USE DEF IInv, TypeOK, ErasePromise, Goto, server, agentVars
<1>1. sid[x] \in Ids /\ pc[x] = "unpend"
  BY DEF HasId, Opened
<1>2. OwnsFd'
  BY <1>1 DEF OwnsFd, Holding
<1>3. HasId' /\ HasData'
  BY <1>1 DEF HasId, HasData, Opened
<1>4. SessionFdIsOwn'
  BY <1>1 DEF SessionFdIsOwn
<1>5. PendingIsAwaited'
  BY <1>1 DEF PendingIsAwaited
<1>6. HasKeeper'
  <2> SUFFICES ASSUME NEW s \in Ids, sessions'[s] # NoSession, stopPc' \notin {"failed", "cleared"}
               PROVE  \E y \in Clients : Keeps(y, s)'
    BY DEF HasKeeper
  <2>1. CASE s = sid[x]
    <3>1. Keeps(x, s)'
      BY <1>1, <2>1 DEF Keeps, Opened
    <3> QED BY <3>1
  <2>2. CASE s # sid[x]
    <3>1. PICK y \in Clients : Keeps(y, s)
      BY <2>2 DEF HasKeeper
    <3>2. pending[sid[x]] # y
      BY <1>1, <2>2, <3>1 DEF Keeps, PendingIsAwaited
    <3>3. Keeps(y, s)'
      BY <1>1, <3>1, <3>2 DEF Keeps, Opened
    <3> QED BY <3>3
  <2> QED BY <2>1, <2>2
<1> QED BY <1>2, <1>3, <1>4, <1>5, <1>6

(* OPEN_ACK completes the promise and takes it out of the map.             *)
LEMMA HandleOpenAckInv ==
  ASSUME IInv, TypeOK', HandleOpenAck
  PROVE  IInv'
<1> DEFINE s0 == Head(inbox).id
<1>1. s0 \in Ids
  BY HeadIsFrame DEF IInv, HandleOpenAck, Receives
<1>2. /\ promise' = [y \in Clients |-> IF pending[s0] = y THEN "value" ELSE promise[y]]
      /\ pending' = [pending EXCEPT ![s0] = NoClient]
      /\ hpc' \in {"recv", "leave"}
      /\ UNCHANGED <<stopPc, hfd, hid, sessions, fdTab, threads>>
  BY DEF HandleOpenAck, LoopTest, server
<1> HIDE DEF s0
<1> USE <1>1, <1>2 DEF IInv, TypeOK, threads
<1>3. OwnsFd'
  BY DEF OwnsFd
<1>4. HasId' /\ HasData'
  BY DEF HasId, HasData
<1>5. SessionFdIsOwn'
  BY DEF SessionFdIsOwn
<1>6. PendingIsAwaited'
  BY DEF PendingIsAwaited
<1>7. HasKeeper'
  BY DEF HasKeeper, Keeps
<1> QED BY <1>3, <1>4, <1>5, <1>6, <1>7

(* stop() fails every promise; it clears the sessions later.               *)
LEMMA StopPendingInv ==
  ASSUME IInv, TypeOK', StopPending
  PROVE  IInv'
<1> USE DEF IInv, TypeOK, StopPending, agentVars, threads
<1>1. OwnsFd'
  BY DEF OwnsFd
<1>2. HasId' /\ HasData'
  BY DEF HasId, HasData
<1>3. SessionFdIsOwn'
  BY DEF SessionFdIsOwn
<1>4. PendingIsAwaited'
  BY DEF PendingIsAwaited
<1>5. HasKeeper'
  BY DEF HasKeeper
<1> QED BY <1>1, <1>2, <1>3, <1>4, <1>5

(* Every step preserves the invariant.                                     *)
LEMMA NextIInv == IInv /\ [Next]_vars => IInv'
<1> SUFFICES ASSUME IInv, [Next]_vars PROVE IInv'
  OBVIOUS
<1> USE DEF server, agentVars, maps, threads
<1>t. TypeOK'
  BY NextTypeOK DEF IInv
<1>1. ASSUME NEW x \in Clients, NEW f \in Fds, Accept(x, f) PROVE IInv'
  BY <1>t, <1>1, AcceptInv
<1>2. ASSUME NEW x \in Clients, ReadTarget(x) PROVE IInv'
  BY <1>t, <1>2, MoveInv DEF ReadTarget, Moves
<1>3. ASSUME NEW x \in Clients, OpenStep(x) PROVE IInv'
  <2>1. CASE OpenCheck(x)
    BY <1>t, <2>1, MoveInv DEF OpenCheck, Moves
  <2>2. CASE OpenInsert(x)
    BY <1>t, <2>2, OpenInsertInv
  <2>3. CASE OpenSend(x)
    BY <1>t, <2>3, MoveInv DEF OpenSend, Moves
  <2>4. CASE OpenSendFails(x)
    BY <1>t, <2>4, LeaveInv DEF OpenSendFails
  <2> QED BY <1>3, <2>1, <2>2, <2>3, <2>4 DEF OpenStep
<1>4. ASSUME NEW x \in Clients, WaitStep(x) PROVE IInv'
  <2>1. CASE WaitValue(x)
    BY <1>t, <2>1, MoveInv DEF WaitValue, Moves
  <2>2. CASE WaitException(x)
    BY <1>t, <2>2, MoveInv DEF WaitException, Moves
  <2>3. CASE WaitTimeout(x)
    BY <1>t, <2>3, MoveInv DEF WaitTimeout, Moves
  <2> QED BY <1>4, <2>1, <2>2, <2>3 DEF WaitStep
<1>5. ASSUME NEW x \in Clients, ForwardEnd(x) \/ ForwardBreaks(x) PROVE IInv'
  BY <1>t, <1>5, MoveInv DEF ForwardEnd, ForwardBreaks, Moves
<1>6. ASSUME NEW x \in Clients, RegisterPromise(x) \/ ErasePromise(x) \/ AttachFd(x) \/ CloseFd(x)
      PROVE IInv'
  BY <1>t, <1>6, RegisterPromiseInv, ErasePromiseInv, AttachFdInv, CloseFdInv
<1>7. ASSUME NEW x \in Clients, CloseSession(x) PROVE IInv'
  BY <1>t, <1>7, LeaveInv DEF CloseSession
<1>8. ASSUME NEW x \in Clients, Disconnect(x) PROVE IInv'
  BY <1>t, <1>8, ErasingInv DEF Disconnect, IInv, HasData
<1>9. ASSUME NEW s \in Ids, NEW type \in {"OPEN_ACK", "DATA", "CLOSE"}, AgentSends(s, type)
      PROVE IInv'
  BY <1>t, <1>9, ErasingInv DEF AgentSends, IInv, HasData
<1>10. CASE AgentConnect \/ LeaveLoop \/ Unregister \/ LateUnregister
  BY <1>t, <1>10, ErasingInv DEF AgentConnect, LeaveLoop, Unregister, LateUnregister,
                                 LoopTest, IInv, HasData
<1>11. CASE PurgeSessions \/ LatePurge
  BY <1>t, <1>11, ErasingInv DEF PurgeSessions, LatePurge, IInv, HasData
<1>12. CASE HandleOpenAck
  BY <1>t, <1>12, HandleOpenAckInv
<1>13. CASE HandleData
  <2>1. Head(inbox).id \in Ids
    BY <1>13, HeadIsFrame DEF IInv, HandleData, Receives
  <2>2. HasData'
    BY <1>13, <2>1 DEF HandleData, LoopTest, HasData
  <2> QED BY <1>t, <1>13, <2>2, ErasingInv DEF HandleData
<1>14. CASE HandleClose
  <2>1. HasData'
    BY <1>14 DEF HandleClose, LoopTest, HasData
  <2>2. \A s \in Ids : sessions'[s] = sessions[s] \/ sessions'[s] = NoSession
    BY <1>14 DEF HandleClose, IInv, TypeOK
  <2> QED BY <1>t, <1>14, <2>1, <2>2, ErasingInv DEF HandleClose
<1>15. CASE DataSent \/ DataSendFails
  <2>1. HasData'
    BY <1>15 DEF DataSent, DataSendFails, LoopTest, HasData
  <2>2. \A s \in Ids : sessions'[s] = sessions[s] \/ sessions'[s] = NoSession
    BY <1>15 DEF DataSent, DataSendFails, IInv, TypeOK
  <2> QED BY <1>t, <1>15, <2>1, <2>2, ErasingInv DEF DataSent, DataSendFails
<1>16. CASE SetForwardTarget \/ StopFlag
  BY <1>t, <1>16, ErasingInv DEF SetForwardTarget, StopFlag, IInv, HasData
<1>17. CASE StopStep
  <2>1. CASE StopPending
    BY <1>t, <2>1, StopPendingInv
  <2>2. CASE StopAgents
    BY <1>t, <2>2, ErasingInv DEF StopAgents, IInv, HasData
  <2>3. CASE StopSessions
    BY <1>t, <2>3, ErasingInv DEF StopSessions, IInv, HasData
  <2> QED BY <1>17, <2>1, <2>2, <2>3 DEF StopStep
<1>18. CASE UNCHANGED vars
  BY <1>t, <1>18, ErasingInv DEF vars, IInv, HasData
<1> QED
  BY <1>1, <1>2, <1>3, <1>4, <1>5, <1>6, <1>7, <1>8, <1>9, <1>10, <1>11, <1>12, <1>13,
     <1>14, <1>15, <1>16, <1>17, <1>18 DEF Next, ClientStep, AgentStep

(* The inductive invariant holds in every reachable state.                 *)
LEMMA SessionsInvariant == Spec => []IInv
  BY InitIInv, NextIInv, PTL DEF Spec

(* Type correctness of the session state, for every size of the instance.  *)
THEOREM SessionsTypeOK == Spec => []TypeOK
<1>1. IInv => TypeOK
  BY DEF IInv
<1> QED BY <1>1, SessionsInvariant, PTL

(* The external_fd in sessions_ is never stale: the number still denotes   *)
(* the socket of a thread of that session (set_session_external_fd,        *)
(* close_session before close()), even when session ids collide.           *)
THEOREM SessionsFdsAreOwn == Spec => []SessionFdIsOwn
<1>1. IInv => SessionFdIsOwn
  BY DEF IInv
<1> QED BY <1>1, SessionsInvariant, PTL

(* A promise in pending_open_ belongs to a thread that waits for it and    *)
(* has not been completed: set_value is never called twice.                *)
THEOREM SessionsPendingAwaited == Spec => []PendingIsAwaited
<1>1. IInv => PendingIsAwaited
  BY DEF IInv
<1> QED BY <1>1, SessionsInvariant, PTL

(* sessions_ has no entry without a thread that will erase it, although    *)
(* the exception path of handle_external_connection does not call          *)
(* close_session.                                                          *)
THEOREM SessionsNotOrphaned == Spec => []NoOrphanSession
<1>1. IInv => NoOrphanSession
  <2> SUFFICES ASSUME IInv, NEW s \in Ids, sessions[s] # NoSession,
                      stopPc \notin {"failed", "cleared"}
               PROVE  \E x \in Clients : sid[x] = s /\ pc[x] \notin {"close", "done"}
    BY DEF NoOrphanSession
  <2>1. PICK y \in Clients : Keeps(y, s)
    BY DEF IInv, HasKeeper
  <2> QED BY <2>1 DEF Keeps, Opened
<1> QED BY <1>1, SessionsInvariant, PTL
=============================================================================
