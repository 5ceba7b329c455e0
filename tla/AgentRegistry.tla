---------------------------- MODULE AgentRegistry ----------------------------
(***************************************************************************)
(* The agent registry of TunnelServer (src/src/tunnel_server.cpp): the     *)
(* map agents_ from agent ids to AgentConn objects, the detached thread    *)
(* that handle_agent_connection runs for every accepted agent socket, the  *)
(* senders that reach a connection through send_to_agent, the heartbeat    *)
(* watchdog and stop().                                                    *)
(*                                                                         *)
(* A connection c in Conns stands for one accepted TCP connection and for  *)
(* the things that exist once per connection: its kernel socket, the       *)
(* thread that serves it and the AgentConn object that thread creates.     *)
(* Descriptor numbers are modelled because the code keeps copies of them:  *)
(* a number freed by close() is given out again by the next accept().      *)
(* Every section of code under one lock is one action.                     *)
(***************************************************************************)
EXTENDS Naturals, FiniteSets

CONSTANTS
  Agents,   \* agent ids carried by HELLO
  Conns,    \* accepted agent connections (bounds how many are accepted)
  Senders,  \* other threads that call send_to_agent (external client threads)
  Fds,      \* descriptor numbers available to agent sockets
  NoConn,   \* "no entry" / "no object"
  NoFd,     \* the descriptor value -1
  NoAgent   \* thread has not learnt its agent id yet

ASSUME NoConnAssumption  == NoConn \notin Conns
ASSUME NoFdAssumption    == NoFd \notin Fds
ASSUME NoAgentAssumption == NoAgent \notin Agents
ASSUME SendersAssumption == Senders \cap Conns = {}

VARIABLES
  running,  \* running_
  stopPc,   \* progress of stop()
  stopCopy, \* agents_copy of stop(): connections it still has to close
  agents,   \* agents_ : id -> registered connection
  connFd,   \* AgentConn::fd of the object created for a connection
  stale,    \* ids whose entry has a last_heartbeat_ns older than the timeout
  fdTab,    \* kernel: descriptor number -> socket it denotes
  sock,     \* kernel: state of each connection's socket
  agentFd,  \* the thread's own copy of the descriptor (parameter agent_fd)
  agentId,  \* the thread's agent_id
  pc,       \* where each thread is
  rfile,    \* the socket a thread blocked in recv() is reading from
  held,     \* the shared_ptr<AgentConn> a running send_to_agent holds
  wdPc,     \* watchdog_loop: "top", "check" after its sleep, or "shut"
  timedOut  \* watchdog: timed_out, the (id, fd) pairs it collected

kernel == <<fdTab, sock>>
objects == <<agents, connFd, stale>>
stopVars == <<running, stopPc, stopCopy>>
threads == <<agentFd, agentId, pc, rfile, held>>
watchdog == <<wdPc, timedOut>>
vars == <<stopVars, objects, kernel, threads, watchdog>>

Threads == Conns \cup Senders

(***************************************************************************)
(* pc of an agent thread: "none" before accept; "hello" in the first       *)
(* recv_frame; "ack" / "ackSend" in send_to_agent(HELLO_ACK);  *)
(* "loop" at the head of the frame loop; "recv" blocked in recv();         *)
(* "beat" in the HEARTBEAT handler; "beatAck" / "beatSend" in              *)
(* send_to_agent(HEARTBEAT_ACK); "unregister"; "done".  A sender is "idle" *)
(* or "send".                                                              *)
(***************************************************************************)
ConnPc == {"none", "hello", "ack", "ackSend", "loop", "recv",
           "beat", "beatAck", "beatSend", "unregister", "done"}

Init ==
  /\ running = TRUE /\ stopPc = "idle" /\ stopCopy = {}
  /\ agents = [a \in Agents |-> NoConn]
  /\ connFd = [c \in Conns |-> NoFd]
  /\ stale = {}
  /\ fdTab = [f \in Fds |-> NoConn]
  /\ sock = [c \in Conns |-> "unused"]
  /\ agentFd = [c \in Conns |-> NoFd]
  /\ agentId = [c \in Conns |-> NoAgent]
  /\ pc = [t \in Threads |-> IF t \in Conns THEN "none" ELSE "idle"]
  /\ rfile = [c \in Conns |-> NoConn]
  /\ held = [t \in Threads |-> NoConn]
  /\ wdPc = "top" /\ timedOut = {}

----------------------------------------------------------------------------
(* Helpers                                                                 *)

Registered(c) == \E a \in Agents : agents[a] = c

(* shared_ptr count above zero, in a state with these maps and holders. *)
Referenced(c, ag, hl, copy) ==
  \/ \E a \in Agents : ag[a] = c
  \/ \E t \in Threads : hl[t] = c
  \/ c \in copy

(* The objects whose last reference goes away when the registry, the       *)
(* in-flight senders or stop()'s copy change to ag, hl, copy:              *)
(* ~AgentConn closes the descriptor they still hold.                       *)
Destroyed(ag, hl, copy) ==
  {c \in Conns : connFd[c] # NoFd /\ ~Referenced(c, ag, hl, copy)}

(* close(): the descriptor numbers of the connections in D become free.    *)
CloseFds(D) ==
  fdTab' = [f \in Fds |-> IF \E c \in D : connFd[c] = f THEN NoConn ELSE fdTab[f]]

ForgetFds(D) ==
  connFd' = [c \in Conns |-> IF c \in D THEN NoFd ELSE connFd[c]]

(* shutdown(fd, SHUT_RDWR) on whatever socket each descriptor denotes.     *)
ShutdownFds(F) ==
  sock' = [c \in Conns |->
             IF sock[c] = "open" /\ (\E f \in F : fdTab[f] = c) THEN "ended" ELSE sock[c]]

Goto(t, s) == pc' = [pc EXCEPT ![t] = s]

----------------------------------------------------------------------------
(* run(): accept an agent connection and start its thread.  The loop looks *)
(* at running_ before accept(), so a connection that arrives while stop()  *)
(* closes the listening socket still gets a thread.                        *)
Accept(c, f) ==
  /\ pc[c] = "none" /\ stopPc \in {"idle", "flagged"}
  /\ fdTab[f] = NoConn
  /\ fdTab' = [fdTab EXCEPT ![f] = c]
  /\ sock' = [sock EXCEPT ![c] = "open"]
  /\ agentFd' = [agentFd EXCEPT ![c] = f]
  /\ Goto(c, "hello")
  /\ UNCHANGED <<stopVars, objects, agentId, rfile, held, watchdog>>

(* The peer closes the connection or the network loses it.                 *)
PeerClose(c) ==
  /\ sock[c] = "open"
  /\ sock' = [sock EXCEPT ![c] = "ended"]
  /\ UNCHANGED <<stopVars, objects, fdTab, threads, watchdog>>

(* handle_agent_connection: the first frame does not arrive, is not a      *)
(* HELLO or does not parse: the thread closes the descriptor and returns.  *)
RejectHello(c) ==
  /\ pc[c] = "hello"
  /\ fdTab' = [fdTab EXCEPT ![agentFd[c]] = NoConn]
  /\ agentFd' = [agentFd EXCEPT ![c] = NoFd]
  /\ Goto(c, "done")
  /\ UNCHANGED <<stopVars, objects, sock, agentId, rfile, held, watchdog>>

(* Faulty variants of RegisterAgent, for the mutation runs: the replaced   *)
(* connection keeps its descriptor value; or is shut down but not closed.  *)
RegisterAgentKeepsFd(c, a) ==
  LET old == {d \in Conns : agents[a] = d /\ connFd[d] # NoFd}
  IN /\ pc[c] = "hello" /\ sock[c] = "open"
     /\ agentId' = [agentId EXCEPT ![c] = a]
     /\ ShutdownFds({connFd[d] : d \in old})
     /\ CloseFds(old)
     /\ connFd' = [connFd EXCEPT ![c] = agentFd[c]]
     /\ agents' = [agents EXCEPT ![a] = c]
     /\ stale' = stale \ {a}
     /\ Goto(c, "ack")
     /\ UNCHANGED <<stopVars, agentFd, rfile, held, watchdog>>

RegisterAgentNoClose(c, a) ==
  LET old == {d \in Conns : agents[a] = d /\ connFd[d] # NoFd}
  IN /\ pc[c] = "hello" /\ sock[c] = "open"
     /\ agentId' = [agentId EXCEPT ![c] = a]
     /\ ShutdownFds({connFd[d] : d \in old})
     /\ connFd' = [d \in Conns |-> IF d = c THEN agentFd[c]
                                   ELSE IF d \in old THEN NoFd ELSE connFd[d]]
     /\ agents' = [agents EXCEPT ![a] = c]
     /\ stale' = stale \ {a}
     /\ Goto(c, "ack")
     /\ UNCHANGED <<stopVars, fdTab, agentFd, rfile, held, watchdog>>

(* handle_agent_connection: a HELLO with id a arrives (receiving and       *)
(* parsing it only touches the thread's own variables) and is registered   *)
(* under agents_mutex_: a previous connection of the same id is shut down, *)
(* closed and marked -1, then its entry is overwritten.                    *)
RegisterAgent(c, a) ==
  LET old == {d \in Conns : agents[a] = d /\ connFd[d] # NoFd}
  IN /\ pc[c] = "hello" /\ sock[c] = "open"
     /\ agentId' = [agentId EXCEPT ![c] = a]
     /\ ShutdownFds({connFd[d] : d \in old})
     /\ CloseFds(old)
     /\ connFd' = [d \in Conns |-> IF d = c THEN agentFd[c]
                                   ELSE IF d \in old THEN NoFd ELSE connFd[d]]
     /\ agents' = [agents EXCEPT ![a] = c]
     /\ stale' = stale \ {a}
     /\ Goto(c, "ack")
     /\ UNCHANGED <<stopVars, agentFd, rfile, held, watchdog>>

(* send_to_agent, first section: look the id up, keep the shared_ptr.      *)
(* With no entry the call returns silently.                                *)
SendLookup(t, a, next, absent) ==
  /\ held' = [held EXCEPT ![t] = agents[a]]
  /\ Goto(t, IF agents[a] = NoConn THEN absent ELSE next)
  /\ UNCHANGED <<stopVars, objects, kernel, agentFd, agentId, rfile, watchdog>>

(* Faulty variant: the send leaks its shared_ptr.                          *)
SendFinishLeaks(t, next) ==
  /\ Goto(t, next)
  /\ UNCHANGED <<stopVars, objects, kernel, agentFd, agentId, rfile, held, watchdog>>

(* send_to_agent, second section: under send_mutex the bytes are written   *)
(* (or fd is -1 and nothing is), the reference is dropped, and the call    *)
(* returns or throws.  fd is also written under agents_mutex_ only, so a   *)
(* send may fail whatever the check of fd saw.                             *)
SendFinish(t, next) ==
  LET hl == [held EXCEPT ![t] = NoConn]
      D  == Destroyed(agents, hl, stopCopy)
  IN /\ held' = hl
     /\ CloseFds(D) /\ ForgetFds(D)
     /\ Goto(t, next)
     /\ UNCHANGED <<stopVars, agents, stale, sock, agentFd, agentId, rfile, watchdog>>

HelloAck(c) == pc[c] = "ack" /\ SendLookup(c, agentId[c], "ackSend", "loop")
HelloAckSent(c) == pc[c] = "ackSend" /\ SendFinish(c, "loop")
HelloAckFailed(c) == pc[c] = "ackSend" /\ SendFinish(c, "unregister")

(* An external client thread sends OPEN, DATA or CLOSE to agent a.         *)
SenderLookup(t, a) ==
  pc[t] = "idle" /\ agents[a] # NoConn /\ SendLookup(t, a, "send", "idle")
SenderFinish(t) == pc[t] = "send" /\ SendFinish(t, "idle")

(* Faulty variant: the loop does not look at running_.                     *)
EnterRecvIgnoresStop(c) ==
  /\ pc[c] = "loop" /\ fdTab[agentFd[c]] # NoConn
  /\ rfile' = [rfile EXCEPT ![c] = fdTab[agentFd[c]]]
  /\ Goto(c, "recv")
  /\ UNCHANGED <<stopVars, objects, kernel, agentFd, agentId, held, watchdog>>

(* while (running_ && recv_frame(agent_fd, frame)): the descriptor is      *)
(* resolved when recv() is called; a closed one is EBADF, a reused one is  *)
(* somebody else's socket.                                                 *)
EnterRecv(c) ==
  /\ pc[c] = "loop" /\ running /\ fdTab[agentFd[c]] # NoConn
  /\ rfile' = [rfile EXCEPT ![c] = fdTab[agentFd[c]]]
  /\ Goto(c, "recv")
  /\ UNCHANGED <<stopVars, objects, kernel, agentFd, agentId, held, watchdog>>

LeaveLoop(c) ==
  /\ pc[c] = "loop" /\ (~running \/ fdTab[agentFd[c]] = NoConn)
  /\ Goto(c, "unregister")
  /\ UNCHANGED <<stopVars, objects, kernel, agentFd, agentId, rfile, held, watchdog>>

(* A frame arrives: a HEARTBEAT, or one of the session frames, whose       *)
(* handling does not touch the registry.                                   *)
RecvFrame(c, next) ==
  /\ pc[c] = "recv" /\ sock[rfile[c]] = "open"
  /\ rfile' = [rfile EXCEPT ![c] = NoConn]
  /\ Goto(c, next)
  /\ UNCHANGED <<stopVars, objects, kernel, agentFd, agentId, held, watchdog>>

(* recv() returns 0 or an error.                                           *)
RecvFail(c) ==
  /\ pc[c] = "recv" /\ sock[rfile[c]] # "open"
  /\ rfile' = [rfile EXCEPT ![c] = NoConn]
  /\ Goto(c, "unregister")
  /\ UNCHANGED <<stopVars, objects, kernel, agentFd, agentId, held, watchdog>>

(* HEARTBEAT: the entry found under the id is refreshed, then acknowledged *)
(* through the id; a failure to send the ACK is only logged.               *)
Heartbeat(c) ==
  /\ pc[c] = "beat"
  /\ stale' = stale \ {agentId[c]}
  /\ Goto(c, "beatAck")
  /\ UNCHANGED <<stopVars, agents, connFd, kernel, agentFd, agentId, rfile, held, watchdog>>

HeartbeatAck(c) == pc[c] = "beatAck" /\ SendLookup(c, agentId[c], "beatSend", "loop")
HeartbeatAckSent(c) == pc[c] = "beatSend" /\ SendFinish(c, "loop")

(* unregister_agent: the entry of the id is erased, whoever it belongs to. *)
Unregister(c) ==
  LET ag == [agents EXCEPT ![agentId[c]] = NoConn]
      D  == Destroyed(ag, held, stopCopy)
  IN /\ pc[c] = "unregister"
     /\ agents' = ag /\ stale' = stale \ {agentId[c]}
     /\ CloseFds(D) /\ ForgetFds(D)
     /\ agentFd' = [agentFd EXCEPT ![c] = NoFd]
     /\ agentId' = [agentId EXCEPT ![c] = NoAgent]
     /\ Goto(c, "done")
     /\ UNCHANGED <<stopVars, sock, rfile, held, watchdog>>

----------------------------------------------------------------------------
(* Time passes without a HEARTBEAT for a registered agent.                 *)
Expire(a) ==
  /\ agents[a] # NoConn /\ a \notin stale
  /\ stale' = stale \cup {a}
  /\ UNCHANGED <<stopVars, agents, connFd, kernel, threads, watchdog>>

(* watchdog_loop: running_ is read, then the thread sleeps ...             *)
WatchdogWake ==
  /\ wdPc = "top" /\ running
  /\ wdPc' = "check"
  /\ UNCHANGED <<stopVars, objects, kernel, threads, timedOut>>

(* ... collects the (id, fd) pairs that timed out under the lock ...       *)
WatchdogCollect ==
  /\ wdPc = "check"
  /\ timedOut' = {<<a, connFd[agents[a]]>> : a \in stale}
  /\ wdPc' = IF stale = {} THEN "top" ELSE "shut"
  /\ UNCHANGED <<stopVars, objects, kernel, threads>>

(* Faulty variant: the collected descriptors are not shut down.            *)
WatchdogNoShutdown ==
  /\ wdPc = "shut"
  /\ timedOut' = {} /\ wdPc' = "top"
  /\ UNCHANGED <<stopVars, objects, kernel, threads>>

(* ... and shuts the descriptors down after releasing it.                  *)
WatchdogShutdown ==
  /\ wdPc = "shut"
  /\ ShutdownFds({p[2] : p \in timedOut} \ {NoFd})
  /\ timedOut' = {} /\ wdPc' = "top"
  /\ UNCHANGED <<stopVars, objects, fdTab, threads>>

----------------------------------------------------------------------------
(* stop(): clear running_; close the listeners and join the watchdog;      *)
(* move agents_ out under the lock; shut down and close each connection;   *)
(* drop the copy on return.                                                *)
StopFlag ==
  /\ running /\ stopPc = "idle"
  /\ running' = FALSE /\ stopPc' = "flagged"
  /\ UNCHANGED <<stopCopy, objects, kernel, threads, watchdog>>

StopJoin ==
  /\ stopPc = "flagged" /\ wdPc = "top"
  /\ stopPc' = "joined"
  /\ UNCHANGED <<running, stopCopy, objects, kernel, threads, watchdog>>

(* Faulty variants of StopTake: null entries are copied; agents_ is copied *)
(* but not cleared.                                                        *)
StopTakeNulls ==
  /\ stopPc = "joined"
  /\ stopCopy' = {agents[a] : a \in Agents}
  /\ agents' = [a \in Agents |-> NoConn] /\ stale' = {}
  /\ stopPc' = "closing"
  /\ UNCHANGED <<running, connFd, kernel, threads, watchdog>>

StopTakeNoClear ==
  /\ stopPc = "joined"
  /\ stopCopy' = {c \in Conns : Registered(c)}
  /\ stopPc' = "closing"
  /\ UNCHANGED <<running, objects, kernel, threads, watchdog>>

StopTake ==
  /\ stopPc = "joined"
  /\ stopCopy' = {c \in Conns : Registered(c)}
  /\ agents' = [a \in Agents |-> NoConn] /\ stale' = {}
  /\ stopPc' = "closing"
  /\ UNCHANGED <<running, connFd, kernel, threads, watchdog>>

StopClose(c) ==
  /\ stopPc = "closing" /\ c \in stopCopy /\ connFd[c] # NoFd
  /\ ShutdownFds({connFd[c]})
  /\ CloseFds({c}) /\ ForgetFds({c})
  /\ UNCHANGED <<stopVars, agents, stale, threads, watchdog>>

StopReturn ==
  /\ stopPc = "closing" /\ \A c \in stopCopy : connFd[c] = NoFd
  /\ stopCopy' = {} /\ stopPc' = "stopped"
  /\ UNCHANGED <<running, objects, kernel, threads, watchdog>>

----------------------------------------------------------------------------
ThreadStep(c) ==
  \/ RejectHello(c)
  \/ HelloAck(c) \/ HelloAckSent(c) \/ HelloAckFailed(c)
  \/ EnterRecv(c) \/ LeaveLoop(c) \/ RecvFail(c)
  \/ Heartbeat(c) \/ HeartbeatAck(c) \/ HeartbeatAckSent(c)
  \/ Unregister(c)

StopStep ==
  \/ StopJoin \/ StopTake \/ StopReturn
  \/ \E c \in Conns : StopClose(c)

WatchdogStep == WatchdogWake \/ WatchdogCollect \/ WatchdogShutdown

Next ==
  \/ \E c \in Conns : ThreadStep(c)
  \/ \E c \in Conns, f \in Fds : Accept(c, f)
  \/ \E c \in Conns : PeerClose(c)
  \/ \E a \in Agents : Expire(a)
  \/ \E c \in Conns, a \in Agents : RegisterAgent(c, a)
  \/ \E c \in Conns : RecvFrame(c, "beat") \/ RecvFrame(c, "loop")
  \/ \E t \in Senders, a \in Agents : SenderLookup(t, a)
  \/ \E t \in Senders : SenderFinish(t)
  \/ WatchdogStep
  \/ StopFlag \/ StopStep

Spec == Init /\ [][Next]_vars

(***************************************************************************)
(* Fairness: every server thread that can take a step eventually takes it  *)
(* (they are OS threads; the watchdog wakes every second).  Nothing is     *)
(* assumed of the peers: frames need not arrive, connections need not      *)
(* close, and stop() need not be called.  RejectHello is fair only once    *)
(* the first recv() can return without a HELLO, which is when the socket   *)
(* is at end of file.                                                      *)
(***************************************************************************)
Fairness ==
  /\ \A c \in Conns : WF_vars(ThreadStep(c) /\ (pc[c] = "hello" => sock[c] # "open"))
  /\ \A t \in Senders : WF_vars(SenderFinish(t))
  /\ WF_vars(WatchdogStep)
  /\ WF_vars(StopStep)

FairSpec == Spec /\ Fairness

----------------------------------------------------------------------------
(* Properties                                                              *)

TypeOK ==
  /\ running \in BOOLEAN
  /\ stopPc \in {"idle", "flagged", "joined", "closing", "stopped"}
  /\ stopCopy \subseteq Conns
  /\ agents \in [Agents -> Conns \cup {NoConn}]
  /\ connFd \in [Conns -> Fds \cup {NoFd}]
  /\ stale \subseteq Agents
  /\ fdTab \in [Fds -> Conns \cup {NoConn}]
  /\ sock \in [Conns -> {"unused", "open", "ended"}]
  /\ agentFd \in [Conns -> Fds \cup {NoFd}]
  /\ agentId \in [Conns -> Agents \cup {NoAgent}]
  /\ pc \in [Threads -> ConnPc \cup {"idle", "send"}]
  /\ rfile \in [Conns -> Conns \cup {NoConn}]
  /\ held \in [Threads -> Conns \cup {NoConn}]
  /\ wdPc \in {"top", "check", "shut"}
  /\ timedOut \subseteq (Agents \X (Fds \cup {NoFd}))

(* The descriptor an AgentConn carries always denotes that connection's    *)
(* own socket: replacing, destroying and stopping, which all act on        *)
(* AgentConn::fd, never close or shut down a descriptor number that has    *)
(* been given to another connection since.                                 *)
ConnFdIsOwn == \A c \in Conns : connFd[c] # NoFd => fdTab[connFd[c]] = c

(* Whatever agents_ holds under an id is a connection that said HELLO with *)
(* that id and is not closed: a lookup never yields a dead object.         *)
RegisteredIsOpen ==
  \A a \in Agents : agents[a] # NoConn =>
     connFd[agents[a]] # NoFd /\ agentId[agents[a]] = a

(* No agent socket is lost: a descriptor that is open belongs to a thread  *)
(* that has not registered it yet, or to an AgentConn that the registry,   *)
(* a running send or stop() still refers to and will close.                *)
NoDescriptorLeak ==
  \A f \in Fds : fdTab[f] # NoConn =>
     \/ pc[fdTab[f]] = "hello"
     \/ /\ Referenced(fdTab[f], agents, held, stopCopy)
        /\ connFd[fdTab[f]] = f

(* Every connection whose peer goes away, or that is shut down by a        *)
(* replacement, the watchdog or stop(), is closed in the end.              *)
DeadConnReleased ==
  \A c \in Conns :
     sock[c] = "ended" ~> (\A f \in Fds : fdTab[f] # c)

(* The watchdog's promise: a registered agent that stays silent past the   *)
(* timeout leaves the registry (or is heard from again).                   *)
SilentAgentDropped ==
  \A a \in Agents, c \in Conns :
     (agents[a] = c /\ a \in stale) ~> (agents[a] # c \/ a \notin stale)

(* stop() leaves no agent registered, although threads that were still     *)
(* waiting for HELLO may register after it cleared the map.                *)
StopEmptiesRegistry ==
  stopPc = "stopped" ~> [](\A a \in Agents : agents[a] = NoConn)

(* "A connection with the same agent_id replaces the previous one": while  *)
(* the server runs, an entry is erased only by the thread that serves the  *)
(* connection it holds.                                                    *)
ReplacementKept ==
  [][\A a \in Agents :
       (running /\ agents[a] # NoConn /\ agents'[a] = NoConn)
         => pc[agents[a]] = "unregister"]_vars

=============================================================================
