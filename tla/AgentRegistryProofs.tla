------------------------- MODULE AgentRegistryProofs -------------------------
(***************************************************************************)
(* The descriptor discipline of the agent registry, proved for any number  *)
(* of agents, connections, senders and descriptors.                        *)
(*                                                                         *)
(* ConnFdIsOwn, RegisteredIsOpen and NoDescriptorLeak are not inductive by *)
(* themselves.  What they need is who may hold a descriptor at each point  *)
(* of a thread's life: before registration the thread alone (Fresh), later *)
(* the AgentConn alone; that a send holds its reference only while it      *)
(* runs (HoldsInSend); and that stop() works on connections that have left *)
(* the registry for good (CopyIsOut).                                      *)
(***************************************************************************)
EXTENDS AgentRegistry, TLAPS

(* A connection that is not accepted has no descriptor; one that waits for *)
(* HELLO has exactly the one its thread was given, and no AgentConn.       *)
Fresh ==
  \A c \in Conns :
    /\ pc[c] \in {"none", "hello"} => connFd[c] = NoFd
    /\ pc[c] = "none" => \A f \in Fds : fdTab[f] # c
    /\ pc[c] = "hello" => /\ agentFd[c] \in Fds
                          /\ \A f \in Fds : fdTab[f] = c <=> f = agentFd[c]

(* A thread between registration and its end knows its agent id and has a  *)
(* descriptor number, and only a registered id can be overdue.             *)
KnowsId ==
  /\ \A c \in Conns : pc[c] \in ConnPc
  /\ \A c \in Conns : pc[c] \notin {"none", "hello", "done"} =>
        agentId[c] \in Agents /\ agentFd[c] \in Fds
  /\ \A a \in stale : agents[a] # NoConn

(* A shared_ptr is held only inside send_to_agent.                         *)
HoldsInSend ==
  \A t \in Threads : held[t] # NoConn => pc[t] \in {"ackSend", "beatSend", "send"}

(* The connections stop() has taken are out of the registry.               *)
CopyIsOut ==
  /\ stopPc # "closing" => stopCopy = {}
  /\ \A c \in stopCopy : /\ pc[c] \notin {"none", "hello"}
                         /\ \A a \in Agents : agents[a] # c

(* The inductive invariant.                                                *)
IInv ==
  /\ TypeOK /\ ConnFdIsOwn /\ RegisteredIsOpen /\ NoDescriptorLeak
  /\ Fresh /\ KnowsId /\ HoldsInSend /\ CopyIsOut

USE NoConnAssumption, NoFdAssumption, NoAgentAssumption, SendersAssumption

(* Nothing is registered, open or held initially.                          *)
LEMMA InitIInv == Init => IInv
  BY DEF Init, IInv, TypeOK, ConnFdIsOwn, RegisteredIsOpen, NoDescriptorLeak, Fresh,
         KnowsId, HoldsInSend, CopyIsOut, Threads, ConnPc

(* Type correctness of a single step.                                      *)
LEMMA NextTypeOK == TypeOK /\ KnowsId /\ [Next]_vars => TypeOK'
<1> SUFFICES ASSUME TypeOK, KnowsId, [Next]_vars PROVE TypeOK'
  OBVIOUS
<1> USE DEF TypeOK, Threads, ConnPc, Goto, stopVars, objects, kernel, threads, watchdog
<1>1. ASSUME NEW c \in Conns, NEW f \in Fds, Accept(c, f) PROVE TypeOK'
  BY <1>1 DEF Accept
<1>2. ASSUME NEW c \in Conns, PeerClose(c) PROVE TypeOK'
  BY <1>2 DEF PeerClose
<1>3. ASSUME NEW c \in Conns, NEW a \in Agents, RegisterAgent(c, a) PROVE TypeOK'
  BY <1>3 DEF RegisterAgent, ShutdownFds, CloseFds
<1>4. ASSUME NEW c \in Conns, RejectHello(c) PROVE TypeOK'
  BY <1>4 DEF RejectHello
<1>5. ASSUME NEW t \in Threads, NEW a \in Agents, NEW n \in {"ackSend", "beatSend", "send"},
             NEW m \in {"loop", "idle"}, SendLookup(t, a, n, m) PROVE TypeOK'
  BY <1>5 DEF SendLookup
<1>6. ASSUME NEW t \in Threads, NEW n \in {"loop", "unregister", "idle"}, SendFinish(t, n)
      PROVE TypeOK'
  BY <1>6 DEF SendFinish, CloseFds, ForgetFds
<1>7. ASSUME NEW c \in Conns, EnterRecv(c) \/ LeaveLoop(c) \/ RecvFail(c) \/ Heartbeat(c)
                              \/ RecvFrame(c, "beat") \/ RecvFrame(c, "loop") PROVE TypeOK'
  <2>1. CASE EnterRecv(c)
    BY <2>1 DEF EnterRecv, KnowsId
  <2>2. CASE LeaveLoop(c) \/ RecvFail(c) \/ RecvFrame(c, "beat") \/ RecvFrame(c, "loop")
    BY <2>2 DEF LeaveLoop, RecvFail, RecvFrame
  <2>3. CASE Heartbeat(c)
    BY <2>3 DEF Heartbeat
  <2> QED BY <1>7, <2>1, <2>2, <2>3
<1>8. ASSUME NEW c \in Conns, Unregister(c) PROVE TypeOK'
  BY <1>8 DEF Unregister, CloseFds, ForgetFds, KnowsId
<1>9. ASSUME NEW a \in Agents, Expire(a) PROVE TypeOK'
  BY <1>9 DEF Expire
<1>10. CASE WatchdogStep
  <2>1. CASE WatchdogWake
    BY <2>1 DEF WatchdogWake
  <2>2. CASE WatchdogCollect
    <3>1. \A a \in stale : connFd[agents[a]] \in Fds \cup {NoFd}
      BY DEF KnowsId
    <3> QED BY <2>2, <3>1 DEF WatchdogCollect
  <2>3. CASE WatchdogShutdown
    <3> DEFINE F == {p[2] : p \in timedOut} \ {NoFd}
    <3>1. /\ ShutdownFds(F)
          /\ timedOut' = {} /\ wdPc' = "top"
          /\ UNCHANGED <<stopVars, objects, fdTab, threads>>
      BY <2>3 DEF WatchdogShutdown
    <3> HIDE DEF F
    <3>2. sock' \in [Conns -> {"unused", "open", "ended"}]
      BY <3>1 DEF ShutdownFds
    <3> QED BY <3>1, <3>2
  <2> QED BY <1>10, <2>1, <2>2, <2>3 DEF WatchdogStep
<1>11. CASE StopFlag \/ StopStep
  <2>1. CASE StopFlag \/ StopJoin \/ StopReturn
    BY <2>1 DEF StopFlag, StopJoin, StopReturn
  <2>2. CASE StopTake
    BY <2>2 DEF StopTake
  <2>3. ASSUME NEW c \in Conns, StopClose(c) PROVE TypeOK'
    BY <2>3 DEF StopClose, ShutdownFds, CloseFds, ForgetFds
  <2> QED BY <1>11, <2>1, <2>2, <2>3 DEF StopStep
<1>12. CASE UNCHANGED vars
  BY <1>12 DEF vars
<1> QED
  BY <1>1, <1>2, <1>3, <1>4, <1>5, <1>6, <1>7, <1>8, <1>9, <1>10, <1>11, <1>12
     DEF Next, ThreadStep, HelloAck, HelloAckSent, HelloAckFailed, HeartbeatAck,
         HeartbeatAckSent, SenderLookup, SenderFinish, KnowsId

(* The safety part of the invariant under every action.                    *)
Safe == ConnFdIsOwn /\ RegisteredIsOpen /\ NoDescriptorLeak /\ Fresh /\ KnowsId
        /\ HoldsInSend /\ CopyIsOut

(* accept() hands out a number that no AgentConn refers to.                *)
LEMMA AcceptSafe ==
  ASSUME IInv, TypeOK', NEW c \in Conns, NEW f \in Fds, Accept(c, f)
  PROVE  Safe'
<1> USE DEF IInv, TypeOK, Accept, Goto, Threads, stopVars, objects, watchdog
<1>1. pc[c] = "none" /\ connFd[c] = NoFd /\ (\A g \in Fds : fdTab[g] # c) /\ fdTab[f] = NoConn
  BY DEF Fresh
<1>2. ConnFdIsOwn' /\ RegisteredIsOpen'
  BY <1>1 DEF ConnFdIsOwn, RegisteredIsOpen
<1>3. NoDescriptorLeak'
  BY <1>1 DEF NoDescriptorLeak, Referenced
<1>4. Fresh'
  BY <1>1 DEF Fresh
<1>5. KnowsId' /\ HoldsInSend' /\ CopyIsOut'
  BY <1>1 DEF KnowsId, HoldsInSend, CopyIsOut, ConnPc
<1> QED BY <1>2, <1>3, <1>4, <1>5 DEF Safe

(* Rejecting a HELLO closes the thread's own descriptor.                   *)
LEMMA RejectSafe ==
  ASSUME IInv, TypeOK', NEW c \in Conns, RejectHello(c)
  PROVE  Safe'
<1> USE DEF IInv, TypeOK, RejectHello, Goto, Threads, stopVars, objects, watchdog
<1>1. /\ pc[c] = "hello" /\ connFd[c] = NoFd /\ agentFd[c] \in Fds
      /\ \A g \in Fds : fdTab[g] = c <=> g = agentFd[c]
  BY DEF Fresh
<1>2. ConnFdIsOwn' /\ RegisteredIsOpen'
  BY <1>1 DEF ConnFdIsOwn, RegisteredIsOpen
<1>3. NoDescriptorLeak'
  BY <1>1 DEF NoDescriptorLeak, Referenced
<1>4. Fresh'
  BY <1>1 DEF Fresh
<1>5. KnowsId' /\ HoldsInSend' /\ CopyIsOut'
  BY <1>1 DEF KnowsId, HoldsInSend, CopyIsOut, ConnPc
<1> QED BY <1>2, <1>3, <1>4, <1>5 DEF Safe

(* Registration: the replaced object is the only one whose descriptor is   *)
(* closed, and it was registered under this id only.                       *)
LEMMA RegisterSafe ==
  ASSUME IInv, TypeOK', NEW c \in Conns, NEW a \in Agents, RegisterAgent(c, a)
  PROVE  Safe'
<1> DEFINE old == {d \in Conns : agents[a] = d /\ connFd[d] # NoFd}
<1> USE DEF IInv, TypeOK, Threads, stopVars, watchdog
<1>1. /\ pc[c] = "hello" /\ connFd[c] = NoFd /\ agentFd[c] \in Fds
      /\ \A g \in Fds : fdTab[g] = c <=> g = agentFd[c]
      /\ \A b \in Agents : agents[b] # c
      /\ c \notin old /\ c \notin stopCopy
  BY DEF Fresh, RegisterAgent, RegisteredIsOpen, CopyIsOut
<1>2. /\ fdTab' = [g \in Fds |-> IF \E d \in old : connFd[d] = g THEN NoConn ELSE fdTab[g]]
      /\ connFd' = [d \in Conns |-> IF d = c THEN agentFd[c]
                                    ELSE IF d \in old THEN NoFd ELSE connFd[d]]
      /\ agents' = [agents EXCEPT ![a] = c]
      /\ agentId' = [agentId EXCEPT ![c] = a]
      /\ pc' = [pc EXCEPT ![c] = "ack"]
      /\ UNCHANGED <<stopVars, agentFd, held>>
      /\ stale' = stale \ {a}
  BY DEF RegisterAgent, CloseFds, Goto
<1>3. \A d \in old : connFd[d] \in Fds /\ fdTab[connFd[d]] = d /\ agentId[d] = a
  BY DEF ConnFdIsOwn, RegisteredIsOpen
<1> HIDE DEF old
<1>4. ConnFdIsOwn'
  BY <1>1, <1>2, <1>3 DEF ConnFdIsOwn
<1>5. RegisteredIsOpen'
  <2> SUFFICES ASSUME NEW b \in Agents, agents'[b] # NoConn
               PROVE  connFd'[agents'[b]] # NoFd /\ agentId'[agents'[b]] = b
    BY DEF RegisteredIsOpen
  <2>1. CASE b = a
    BY <2>1, <1>1, <1>2
  <2>2. CASE b # a
    <3>1. agents'[b] = agents[b] /\ agents[b] \in Conns /\ agents[b] # c
      BY <2>2, <1>1, <1>2
    <3>2. agents[b] \notin old
      BY <3>1, <2>2, <1>3 DEF RegisteredIsOpen
    <3> QED BY <3>1, <3>2, <1>2 DEF RegisteredIsOpen
  <2> QED BY <2>1, <2>2
<1>6. NoDescriptorLeak'
  <2> SUFFICES ASSUME NEW g \in Fds, fdTab'[g] # NoConn
               PROVE  \/ pc'[fdTab'[g]] = "hello"
                      \/ /\ Referenced(fdTab'[g], agents', held', stopCopy')
                         /\ connFd'[fdTab'[g]] = g
    BY DEF NoDescriptorLeak
  <2>1. fdTab'[g] = fdTab[g] /\ fdTab[g] \in Conns /\ (\A d \in old : connFd[d] # g)
    BY <1>2
  <2>2. CASE fdTab[g] = c
    BY <2>1, <2>2, <1>1, <1>2 DEF Referenced
  <2>3. CASE fdTab[g] # c /\ pc[fdTab[g]] = "hello"
    BY <2>1, <2>3, <1>2
  <2>4. CASE fdTab[g] # c /\ Referenced(fdTab[g], agents, held, stopCopy) /\ connFd[fdTab[g]] = g
    <3>1. fdTab[g] \notin old
      BY <2>1, <2>4
    <3>2. agents[a] # fdTab[g]
      BY <3>1, <2>1, <2>4 DEF old
    <3> QED BY <2>1, <2>4, <3>1, <3>2, <1>2 DEF Referenced
  <2> QED BY <2>1, <2>2, <2>3, <2>4 DEF NoDescriptorLeak
<1>7. Fresh'
  BY <1>1, <1>2, <1>3 DEF Fresh
<1>8. KnowsId' /\ HoldsInSend' /\ CopyIsOut'
  BY <1>1, <1>2 DEF KnowsId, HoldsInSend, CopyIsOut, ConnPc
<1> QED BY <1>4, <1>5, <1>6, <1>7, <1>8 DEF Safe

(* The objects in D lose their last reference: none of them is registered  *)
(* and each descriptor that is closed is the object's own.                 *)
LEMMA DestroyOwn ==
  ASSUME TypeOK, ConnFdIsOwn, NEW D \in SUBSET Conns, CloseFds(D), ForgetFds(D),
         \A d \in D : connFd[d] # NoFd
  PROVE  /\ \A c \in Conns : connFd'[c] = IF c \in D THEN NoFd ELSE connFd[c]
         /\ \A f \in Fds : fdTab'[f] = IF fdTab[f] \in D /\ connFd[fdTab[f]] = f
                                       THEN NoConn ELSE fdTab[f]
         /\ ConnFdIsOwn'
<1>1. \A c \in Conns : connFd'[c] = IF c \in D THEN NoFd ELSE connFd[c]
  BY DEF ForgetFds
<1>2. \A f \in Fds : fdTab'[f] = IF fdTab[f] \in D /\ connFd[fdTab[f]] = f
                                THEN NoConn ELSE fdTab[f]
  BY DEF CloseFds, TypeOK, ConnFdIsOwn
<1>3. ConnFdIsOwn'
  BY <1>1, <1>2 DEF ConnFdIsOwn, TypeOK
<1> QED BY <1>1, <1>2, <1>3

(* send_to_agent keeps a reference to a registered connection.             *)
LEMMA LookupSafe ==
  ASSUME IInv, TypeOK', NEW t \in Threads, NEW a \in Agents,
         NEW n \in {"ackSend", "beatSend", "send"}, NEW m \in {"loop", "idle"},
         pc[t] \in {"ack", "beatAck", "idle"},
         t \in Conns => pc[t] # "idle" /\ n # "send" /\ m # "idle",
         SendLookup(t, a, n, m)
  PROVE  Safe'
<1> USE DEF IInv, TypeOK, SendLookup, Goto, Threads, stopVars, objects, kernel, watchdog
<1>1. held[t] = NoConn
  BY DEF HoldsInSend
<1>2. ConnFdIsOwn' /\ RegisteredIsOpen'
  BY DEF ConnFdIsOwn, RegisteredIsOpen
<1>3. NoDescriptorLeak'
  BY <1>1 DEF NoDescriptorLeak, Referenced
<1>4. Fresh'
  BY DEF Fresh
<1>5. KnowsId' /\ CopyIsOut'
  BY DEF KnowsId, CopyIsOut, ConnPc
<1>6. HoldsInSend'
  BY <1>1 DEF HoldsInSend
<1> QED BY <1>2, <1>3, <1>4, <1>5, <1>6 DEF Safe

(* A send that ends may destroy the object it used, which is then closed.  *)
LEMMA FinishSafe ==
  ASSUME IInv, TypeOK', NEW t \in Threads, NEW n \in {"loop", "unregister", "idle"},
         pc[t] \in {"ackSend", "beatSend", "send"},
         t \in Conns => n # "idle" /\ pc[t] # "send",
         SendFinish(t, n)
  PROVE  Safe'
<1> DEFINE hl == [held EXCEPT ![t] = NoConn]
           D  == Destroyed(agents, hl, stopCopy)
<1> USE DEF IInv, TypeOK, Threads
<1>1. /\ held' = hl /\ CloseFds(D) /\ ForgetFds(D)
      /\ pc' = [pc EXCEPT ![t] = n]
      /\ UNCHANGED <<agents, stale, agentFd, agentId, stopPc, stopCopy>>
  BY DEF SendFinish, Goto, stopVars
<1>2. /\ D \in SUBSET Conns /\ \A d \in D : connFd[d] # NoFd
      /\ \A d \in D : ~Referenced(d, agents, hl, stopCopy)
      /\ \A c \in Conns : c \notin D /\ connFd[c] # NoFd => Referenced(c, agents, hl, stopCopy)
  BY DEF Destroyed
<1> HIDE DEF D
<1>3. /\ \A c \in Conns : connFd'[c] = IF c \in D THEN NoFd ELSE connFd[c]
      /\ \A f \in Fds : fdTab'[f] = IF fdTab[f] \in D /\ connFd[fdTab[f]] = f
                                    THEN NoConn ELSE fdTab[f]
      /\ ConnFdIsOwn'
  BY <1>1, <1>2, DestroyOwn
<1>4. RegisteredIsOpen'
  BY <1>1, <1>2, <1>3 DEF RegisteredIsOpen, Referenced
<1>5. NoDescriptorLeak'
  <2> SUFFICES ASSUME NEW f \in Fds, fdTab'[f] # NoConn
               PROVE  \/ pc'[fdTab'[f]] = "hello"
                      \/ /\ Referenced(fdTab'[f], agents', held', stopCopy')
                         /\ connFd'[fdTab'[f]] = f
    BY DEF NoDescriptorLeak
  <2>1. fdTab'[f] = fdTab[f] /\ fdTab[f] \in Conns /\ ~(fdTab[f] \in D /\ connFd[fdTab[f]] = f)
    BY <1>3
  <2>2. CASE pc[fdTab[f]] = "hello"
    BY <1>1, <2>1, <2>2
  <2>3. CASE connFd[fdTab[f]] = f
    <3>1. Referenced(fdTab[f], agents, hl, stopCopy) /\ fdTab[f] \notin D
      BY <1>2, <2>1, <2>3
    <3>2. connFd'[fdTab'[f]] = f
      BY <1>3, <2>1, <2>3, <3>1
    <3> QED BY <1>1, <2>1, <3>1, <3>2
  <2> QED BY <2>1, <2>2, <2>3 DEF NoDescriptorLeak
<1>6. Fresh'
  BY <1>1, <1>2, <1>3 DEF Fresh
<1>7. KnowsId' /\ HoldsInSend' /\ CopyIsOut'
  BY <1>1 DEF KnowsId, HoldsInSend, CopyIsOut, ConnPc
<1> QED BY <1>3, <1>4, <1>5, <1>6, <1>7 DEF Safe

(* unregister_agent may erase the entry of another connection; what it     *)
(* closes is the descriptor of the connection it erased, never another.    *)
LEMMA UnregisterSafe ==
  ASSUME IInv, TypeOK', NEW c \in Conns, Unregister(c)
  PROVE  Safe'
<1> DEFINE ag == [agents EXCEPT ![agentId[c]] = NoConn]
           D  == Destroyed(ag, held, stopCopy)
<1> USE DEF IInv, TypeOK, Threads
<1>1. /\ pc[c] = "unregister" /\ agents' = ag /\ CloseFds(D) /\ ForgetFds(D)
      /\ stale' = stale \ {agentId[c]}
      /\ pc' = [pc EXCEPT ![c] = "done"]
      /\ agentFd' = [agentFd EXCEPT ![c] = NoFd]
      /\ agentId' = [agentId EXCEPT ![c] = NoAgent]
      /\ UNCHANGED <<held, stopPc, stopCopy>>
  BY DEF Unregister, Goto, stopVars
<1>2. /\ D \in SUBSET Conns /\ \A d \in D : connFd[d] # NoFd
      /\ \A d \in D : ~Referenced(d, ag, held, stopCopy)
      /\ \A d \in Conns : d \notin D /\ connFd[d] # NoFd => Referenced(d, ag, held, stopCopy)
  BY DEF Destroyed
<1> HIDE DEF D
<1>3. /\ \A d \in Conns : connFd'[d] = IF d \in D THEN NoFd ELSE connFd[d]
      /\ \A f \in Fds : fdTab'[f] = IF fdTab[f] \in D /\ connFd[fdTab[f]] = f
                                    THEN NoConn ELSE fdTab[f]
      /\ ConnFdIsOwn'
  BY <1>1, <1>2, DestroyOwn
<1>4. agentId[c] \in Agents
  BY <1>1 DEF KnowsId
<1>5. RegisteredIsOpen'
  BY <1>1, <1>2, <1>3, <1>4 DEF RegisteredIsOpen, Referenced
<1>6. NoDescriptorLeak'
  <2> SUFFICES ASSUME NEW f \in Fds, fdTab'[f] # NoConn
               PROVE  \/ pc'[fdTab'[f]] = "hello"
                      \/ /\ Referenced(fdTab'[f], agents', held', stopCopy')
                         /\ connFd'[fdTab'[f]] = f
    BY DEF NoDescriptorLeak
  <2>1. fdTab'[f] = fdTab[f] /\ fdTab[f] \in Conns /\ ~(fdTab[f] \in D /\ connFd[fdTab[f]] = f)
    BY <1>3
  <2>2. CASE pc[fdTab[f]] = "hello"
    BY <1>1, <2>1, <2>2
  <2>3. CASE connFd[fdTab[f]] = f
    <3>1. Referenced(fdTab[f], ag, held, stopCopy) /\ fdTab[f] \notin D
      BY <1>2, <2>1, <2>3
    <3>2. connFd'[fdTab'[f]] = f
      BY <1>3, <2>1, <2>3, <3>1
    <3> QED BY <1>1, <2>1, <3>1, <3>2
  <2> QED BY <2>1, <2>2, <2>3 DEF NoDescriptorLeak
<1>7. Fresh'
  BY <1>1, <1>2, <1>3 DEF Fresh
<1>8. KnowsId' /\ HoldsInSend' /\ CopyIsOut'
  BY <1>1, <1>4 DEF KnowsId, HoldsInSend, CopyIsOut, ConnPc
<1> QED BY <1>3, <1>5, <1>6, <1>7, <1>8 DEF Safe

(* Steps that neither open nor close a descriptor nor change a reference.  *)
LEMMA QuietSafe ==
  ASSUME IInv, TypeOK',
         UNCHANGED <<agents, connFd, fdTab, held, stopCopy, agentId, agentFd>>,
         stale' \subseteq stale \cup {a \in Agents : agents[a] # NoConn},
         stopPc' = "closing" => stopPc = "closing" , stopPc = "closing" => stopPc' = "closing",
         \/ pc' = pc
         \/ \E c \in Conns : /\ pc[c] \in {"loop", "recv", "beat"}
                            /\ \E n \in {"loop", "recv", "beat", "beatAck", "unregister"} :
                                  pc' = [pc EXCEPT ![c] = n]
  PROVE  Safe'
<1> USE DEF IInv, TypeOK, Threads
<1>1. ConnFdIsOwn' /\ RegisteredIsOpen' /\ CopyIsOut'
  BY DEF ConnFdIsOwn, RegisteredIsOpen, CopyIsOut
<1>2. NoDescriptorLeak'
  BY DEF NoDescriptorLeak, Referenced
<1>3. Fresh' /\ HoldsInSend'
  BY DEF Fresh, HoldsInSend
<1>4. KnowsId'
  BY DEF KnowsId, ConnPc
<1> QED BY <1>1, <1>2, <1>3, <1>4 DEF Safe

(* The steps of stop().                                                    *)
LEMMA StopSafe ==
  ASSUME IInv, TypeOK', StopTake \/ StopReturn \/ \E c \in Conns : StopClose(c)
  PROVE  Safe'
<1> USE DEF IInv, TypeOK, Threads, stopVars, objects, kernel, threads, watchdog
<1>1. CASE StopTake
  <2>1. stopCopy = {}
    BY <1>1 DEF StopTake, CopyIsOut
  <2>2. ConnFdIsOwn' /\ RegisteredIsOpen' /\ KnowsId' /\ HoldsInSend' /\ Fresh'
    BY <1>1 DEF StopTake, ConnFdIsOwn, RegisteredIsOpen, KnowsId, HoldsInSend, Fresh
  <2>3. NoDescriptorLeak'
    BY <1>1, <2>1 DEF StopTake, NoDescriptorLeak, Referenced, Registered
  <2>4. CopyIsOut'
    BY <1>1 DEF StopTake, CopyIsOut, Registered, RegisteredIsOpen, Fresh
  <2> QED BY <2>2, <2>3, <2>4 DEF Safe
<1>2. CASE StopReturn
  BY <1>2 DEF StopReturn, Safe, ConnFdIsOwn, RegisteredIsOpen, KnowsId, HoldsInSend, Fresh,
              NoDescriptorLeak, Referenced, CopyIsOut
<1>3. ASSUME NEW c \in Conns, StopClose(c) PROVE Safe'
  <2>1. /\ c \in stopCopy /\ connFd[c] # NoFd /\ CloseFds({c}) /\ ForgetFds({c})
        /\ UNCHANGED <<agents, stale, held, pc, agentId, agentFd, stopPc, stopCopy>>
    BY <1>3 DEF StopClose
  <2>2. /\ \A d \in Conns : connFd'[d] = IF d \in {c} THEN NoFd ELSE connFd[d]
        /\ \A f \in Fds : fdTab'[f] = IF fdTab[f] \in {c} /\ connFd[fdTab[f]] = f
                                      THEN NoConn ELSE fdTab[f]
        /\ ConnFdIsOwn'
    BY <2>1, DestroyOwn
  <2>3. RegisteredIsOpen' /\ KnowsId' /\ HoldsInSend' /\ CopyIsOut'
    BY <2>1, <2>2 DEF RegisteredIsOpen, KnowsId, HoldsInSend, CopyIsOut
  <2>4. NoDescriptorLeak' /\ Fresh'
    BY <2>1, <2>2 DEF NoDescriptorLeak, Referenced, Fresh, CopyIsOut
  <2> QED BY <2>2, <2>3, <2>4 DEF Safe
<1> QED BY <1>1, <1>2, <1>3

(* Every step preserves the invariant.                                     *)
LEMMA NextIInv == IInv /\ [Next]_vars => IInv'
<1> SUFFICES ASSUME IInv, [Next]_vars PROVE Safe' /\ TypeOK'
  BY DEF IInv, Safe
<1>0. TypeOK'
  BY NextTypeOK DEF IInv
<1> USE <1>0
<1>1. ASSUME NEW c \in Conns, NEW f \in Fds, Accept(c, f) PROVE Safe'
  BY <1>1, AcceptSafe
<1>2. ASSUME NEW c \in Conns, RejectHello(c) PROVE Safe'
  BY <1>2, RejectSafe
<1>3. ASSUME NEW c \in Conns, NEW a \in Agents, RegisterAgent(c, a) PROVE Safe'
  BY <1>3, RegisterSafe
<1>4. ASSUME NEW c \in Conns, HelloAck(c) \/ HeartbeatAck(c) PROVE Safe'
  <2>1. agentId[c] \in Agents
    BY <1>4 DEF IInv, KnowsId, HelloAck, HeartbeatAck
  <2> QED BY <1>4, <2>1, LookupSafe DEF HelloAck, HeartbeatAck, Threads
<1>5. ASSUME NEW c \in Conns, HelloAckSent(c) \/ HelloAckFailed(c) \/ HeartbeatAckSent(c)
      PROVE Safe'
  BY <1>5, FinishSafe DEF HelloAckSent, HelloAckFailed, HeartbeatAckSent, Threads
<1>6. ASSUME NEW t \in Senders, NEW a \in Agents, SenderLookup(t, a) PROVE Safe'
  BY <1>6, LookupSafe DEF SenderLookup, Threads
<1>7. ASSUME NEW t \in Senders, SenderFinish(t) PROVE Safe'
  BY <1>7, FinishSafe DEF SenderFinish, Threads
<1>8. ASSUME NEW c \in Conns, Unregister(c) PROVE Safe'
  BY <1>8, UnregisterSafe
<1>9. ASSUME NEW c \in Conns, EnterRecv(c) \/ LeaveLoop(c) \/ RecvFail(c) \/ Heartbeat(c)
                               \/ RecvFrame(c, "beat") \/ RecvFrame(c, "loop") PROVE Safe'
  BY <1>9, QuietSafe DEF EnterRecv, LeaveLoop, RecvFail, Heartbeat, RecvFrame, Goto,
                         stopVars, objects, kernel, watchdog
<1>10. ASSUME NEW c \in Conns, PeerClose(c) PROVE Safe'
  BY <1>10, QuietSafe DEF PeerClose, stopVars, objects, threads, watchdog
<1>11. ASSUME NEW a \in Agents, Expire(a) PROVE Safe'
  BY <1>11, QuietSafe DEF Expire, stopVars, kernel, threads, watchdog
<1>12. CASE WatchdogStep
  BY <1>12, QuietSafe DEF WatchdogStep, WatchdogWake, WatchdogCollect, WatchdogShutdown,
                          stopVars, objects, kernel, threads
<1>13. CASE StopFlag \/ StopJoin
  BY <1>13, QuietSafe DEF StopFlag, StopJoin, objects, kernel, threads, watchdog
<1>14. CASE StopTake \/ StopReturn \/ \E c \in Conns : StopClose(c)
  BY <1>14, StopSafe
<1>15. CASE UNCHANGED vars
  BY <1>15, QuietSafe DEF vars, stopVars, objects, kernel, threads, watchdog
<1> QED
  BY <1>1, <1>2, <1>3, <1>4, <1>5, <1>6, <1>7, <1>8, <1>9, <1>10, <1>11, <1>12, <1>13,
     <1>14, <1>15 DEF Next, ThreadStep, StopStep

(* The state of the registry keeps its types.                              *)
THEOREM RegistryTypeOK == Spec => []TypeOK
<1>1. IInv => TypeOK
  BY DEF IInv
<1> QED BY InitIInv, NextIInv, <1>1, PTL DEF Spec

(* Replacing, unregistering, destroying and stopping connections only ever *)
(* close and shut down a connection's own descriptor, in every             *)
(* interleaving of any number of agents, connections and senders.          *)
THEOREM RegistryFdsAreOwn == Spec => []ConnFdIsOwn
<1>1. IInv => ConnFdIsOwn
  BY DEF IInv
<1> QED BY InitIInv, NextIInv, <1>1, PTL DEF Spec

(* A lookup in agents_ always yields a connection of that id whose         *)
(* descriptor is open.                                                     *)
THEOREM RegistryHoldsOpenConns == Spec => []RegisteredIsOpen
<1>1. IInv => RegisteredIsOpen
  BY DEF IInv
<1> QED BY InitIInv, NextIInv, <1>1, PTL DEF Spec

(* An agent socket that is open always has an owner left to close it.      *)
THEOREM RegistryLeaksNoFd == Spec => []NoDescriptorLeak
<1>1. IInv => NoDescriptorLeak
  BY DEF IInv
<1> QED BY InitIInv, NextIInv, <1>1, PTL DEF Spec
=============================================================================
