---------------------------- MODULE ServerSessions ----------------------------
(***************************************************************************)
(* The sessions of TunnelServer (src/src/tunnel_server.cpp): the map       *)
(* sessions_, the OPEN_ACK rendezvous pending_open_, the detached thread   *)
(* of every external client (handle_external_connection, and the caller    *)
(* and relay thread of connect_via_tunnel), the per-agent thread that      *)
(* handles the agent's session frames, unregister_agent and stop().        *)
(*                                                                         *)
(* One agent id is modelled.  Its entry in agents_ (AgentRegistry) is      *)
(* reduced to whether it exists; the agent at the other end of the         *)
(* connection is an environment that answers an OPEN with OPEN_ACK or      *)
(* CLOSE, sends DATA and closes sessions when it likes.  Payloads are left *)
(* out: what matters is which descriptor they are written to.  Every       *)
(* section of code under one lock is one action.                           *)
(***************************************************************************)
EXTENDS Naturals, Sequences, FiniteSets

CONSTANTS
  Clients,     \* external connections: TCP clients and gateway tunnels
  Gateway,     \* the clients that come through connect_via_tunnel
  Fds,         \* descriptor numbers available to external sockets
  MaxId,       \* largest session id; UINT32_MAX in the code
  MaxInFlight, \* bound: frames buffered from the agent
  NoClient, NoFd, NoSession

ASSUME GatewayAssumption == Gateway \subseteq Clients
ASSUME MaxIdAssumption == MaxId \in Nat \ {0}
ASSUME MaxInFlightAssumption == MaxInFlight \in Nat
ASSUME NoClientAssumption == NoClient \notin Clients
ASSUME NoFdAssumption == NoFd \notin Fds /\ NoSession \notin Fds /\ NoSession # NoFd

Ids == 1 .. MaxId
Frames == [type : {"OPEN_ACK", "DATA", "CLOSE"}, id : Ids]

VARIABLES
  running,    \* running_
  stopPc,     \* progress of stop()
  fwd,        \* forward_target_ has a value
  registered, \* agents_ has an entry for the agent
  hpc,        \* per-agent thread: "down", "recv", "send", "leave", "unregister", "purge"
  hfd, hid,   \* its local external_fd and session id while it forwards DATA
  inbox,      \* frames the agent sent that are not read yet
  remote,     \* the agent's side of each session: "none", "asked" or "open"
  nextId,     \* next_session_id_
  sessions,   \* sessions_ : id -> external_fd (NoFd = -1), NoSession if absent
  pending,    \* pending_open_ : id -> thread whose promise is registered
  promise,    \* each thread's promise: "none", "unset", "value", "exception"
  fdTab,      \* kernel: descriptor number -> external socket it denotes
  gone,       \* clients that have disconnected
  pc, sid, fd \* per external thread: program counter, session_id, external_fd

agentVars == <<registered, hpc, hfd, hid, inbox, remote>>
maps == <<nextId, sessions, pending, promise>>
threads == <<pc, sid, fd>>
server == <<running, stopPc, fwd>>
vars == <<server, agentVars, maps, fdTab, gone, threads>>

(***************************************************************************)
(* pc of an external thread: "new"; "target" before the forward target is  *)
(* read; "check", "insert", "open" in open_session; "promise" before the   *)
(* promise is registered; "wait" on the future; "unpend" after a timeout;  *)
(* "attach" before set_session_external_fd; "forward" in the read loop;    *)
(* "erase" before close_session; "close" before close(); "done".           *)
(***************************************************************************)
PCs == {"new", "target", "check", "insert", "open", "promise", "wait", "unpend",
        "attach", "forward", "erase", "close", "done"}

Init ==
  /\ running = TRUE /\ stopPc = "idle" /\ fwd = FALSE
  /\ registered = FALSE /\ hpc = "down" /\ hfd = NoFd /\ hid = 0
  /\ inbox = <<>> /\ remote = [s \in Ids |-> "none"]
  /\ nextId = 1
  /\ sessions = [s \in Ids |-> NoSession]
  /\ pending = [s \in Ids |-> NoClient]
  /\ promise = [x \in Clients |-> "none"]
  /\ fdTab = [f \in Fds |-> NoClient]
  /\ gone = {}
  /\ pc = [x \in Clients |-> "new"]
  /\ sid = [x \in Clients |-> 0]
  /\ fd = [x \in Clients |-> NoFd]

Goto(x, p) == pc' = [pc EXCEPT ![x] = p]

----------------------------------------------------------------------------
(* The external client thread                                              *)

(* proxy_accept_loop accepts a client (also while stop() is closing the    *)
(* listener), or the gateway calls connect_via_tunnel, whose fds[0] is the *)
(* session's external_fd.                                                  *)
Accept(x, f) ==
  /\ pc[x] = "new" /\ fdTab[f] = NoClient
  /\ x \in Gateway \/ stopPc \in {"idle", "flagged"}
  /\ fdTab' = [fdTab EXCEPT ![f] = x]
  /\ fd' = [fd EXCEPT ![x] = f]
  /\ Goto(x, IF x \in Gateway THEN "check" ELSE "target")
  /\ UNCHANGED <<server, agentVars, maps, gone, sid>>

(* set_forward_target                                                      *)
SetForwardTarget ==
  /\ ~fwd /\ fwd' = TRUE
  /\ UNCHANGED <<running, stopPc, agentVars, maps, fdTab, gone, threads>>

(* The thread reads the forward target; without one it closes the client.  *)
ReadTarget(x) ==
  /\ pc[x] = "target"
  /\ Goto(x, IF fwd THEN "check" ELSE "close")
  /\ UNCHANGED <<server, agentVars, maps, fdTab, gone, sid, fd>>

(* open_session: the agent must be registered ...                          *)
OpenCheck(x) ==
  /\ pc[x] = "check"
  /\ Goto(x, IF registered THEN "insert" ELSE "close")
  /\ UNCHANGED <<server, agentVars, maps, fdTab, gone, sid, fd>>

(* generate_session_id: a 32-bit counter that wraps and skips 0.           *)
GeneratedId == IF nextId = 0 THEN 1 ELSE nextId
NextIdUnbounded == GeneratedId + 1   \* faulty variant: a wider counter
NextIdAfter == (GeneratedId + 1) % (MaxId + 1)

(* ... a session without external_fd is inserted ...                       *)
OpenInsert(x) ==
  /\ pc[x] = "insert"
  /\ nextId' = NextIdAfter
  /\ sessions' = [sessions EXCEPT ![GeneratedId] = NoFd]
  /\ sid' = [sid EXCEPT ![x] = GeneratedId]
  /\ Goto(x, "open")
  /\ UNCHANGED <<server, agentVars, pending, promise, fdTab, gone, fd>>

(* ... and OPEN is sent; with no entry left send_to_agent says nothing ... *)
OpenSend(x) ==
  /\ pc[x] = "open"
  /\ remote' = IF registered THEN [remote EXCEPT ![sid[x]] = "asked"] ELSE remote
  /\ Goto(x, "promise")
  /\ UNCHANGED <<server, registered, hpc, hfd, hid, inbox, maps, fdTab, gone, sid, fd>>

(* ... or the send fails and the session is erased again.                  *)
OpenSendFails(x) ==
  /\ pc[x] = "open" /\ registered
  /\ sessions' = [sessions EXCEPT ![sid[x]] = NoSession]
  /\ Goto(x, "close")
  /\ UNCHANGED <<server, agentVars, nextId, pending, promise, fdTab, gone, sid, fd>>

(* pending_open_[session_id] = std::move(ack_promise): a promise already   *)
(* there is abandoned, which its waiter sees as an exception.              *)
RegisterPromise(x) ==
  /\ pc[x] = "promise"
  /\ promise' = [y \in Clients |-> IF y = x THEN "unset"
                                   ELSE IF pending[sid[x]] = y THEN "exception" ELSE promise[y]]
  /\ pending' = [pending EXCEPT ![sid[x]] = x]
  /\ Goto(x, "wait")
  /\ UNCHANGED <<server, agentVars, nextId, sessions, fdTab, gone, sid, fd>>

(* wait_for returns: a value, an exception (connect_via_tunnel closes the  *)
(* session, handle_external_connection only the socket), or a timeout.     *)
WaitValue(x) ==
  /\ pc[x] = "wait" /\ promise[x] = "value"
  /\ Goto(x, "attach")
  /\ UNCHANGED <<server, agentVars, maps, fdTab, gone, sid, fd>>

WaitException(x) ==
  /\ pc[x] = "wait" /\ promise[x] = "exception"
  /\ Goto(x, IF x \in Gateway THEN "erase" ELSE "close")
  /\ UNCHANGED <<server, agentVars, maps, fdTab, gone, sid, fd>>

WaitTimeoutNever(x) == FALSE   \* faulty variant: wait() without a timeout

WaitTimeout(x) ==
  /\ pc[x] = "wait" /\ promise[x] = "unset"
  /\ Goto(x, "unpend")
  /\ UNCHANGED <<server, agentVars, maps, fdTab, gone, sid, fd>>

(* Faulty variant: the timeout path forgets close_session.                 *)
ErasePromiseOnly(x) ==
  /\ pc[x] = "unpend"
  /\ promise' = [y \in Clients |-> IF y # x /\ pending[sid[x]] = y THEN "exception" ELSE promise[y]]
  /\ pending' = [pending EXCEPT ![sid[x]] = NoClient]
  /\ Goto(x, "close")
  /\ UNCHANGED <<server, agentVars, nextId, sessions, fdTab, gone, sid, fd>>

(* After a timeout the promise under the session id is erased.             *)
ErasePromise(x) ==
  /\ pc[x] = "unpend"
  /\ promise' = [y \in Clients |-> IF y # x /\ pending[sid[x]] = y THEN "exception" ELSE promise[y]]
  /\ pending' = [pending EXCEPT ![sid[x]] = NoClient]
  /\ Goto(x, "erase")
  /\ UNCHANGED <<server, agentVars, nextId, sessions, fdTab, gone, sid, fd>>

(* Faulty variant: the early return does not close the socket.             *)
AttachFdLeaks(x) ==
  /\ pc[x] = "attach"
  /\ sessions' = IF sessions[sid[x]] = NoSession THEN sessions
                 ELSE [sessions EXCEPT ![sid[x]] = fd[x]]
  /\ Goto(x, IF sessions[sid[x]] = NoSession THEN "done" ELSE "forward")
  /\ UNCHANGED <<server, agentVars, nextId, pending, promise, fdTab, gone, sid, fd>>

(* set_session_external_fd: fails if the session has gone meanwhile.       *)
AttachFd(x) ==
  /\ pc[x] = "attach"
  /\ sessions' = IF sessions[sid[x]] = NoSession THEN sessions
                 ELSE [sessions EXCEPT ![sid[x]] = fd[x]]
  /\ Goto(x, IF sessions[sid[x]] = NoSession THEN "close" ELSE "forward")
  /\ UNCHANGED <<server, agentVars, nextId, pending, promise, fdTab, gone, sid, fd>>

(* Faulty variant: the socket is closed while the session refers to it.    *)
ForwardEndNoErase(x) ==
  /\ pc[x] = "forward" /\ x \in gone
  /\ Goto(x, "close")
  /\ UNCHANGED <<server, agentVars, maps, fdTab, gone, sid, fd>>

(* The read loop ends on client EOF, or after a read, when sending to the  *)
(* agent throws or running_ has been cleared; a CLOSE frame is sent on the *)
(* way out.  (A DATA frame that is sent changes nothing here.)             *)
ForwardEnd(x) ==
  /\ pc[x] = "forward" /\ x \in gone
  /\ Goto(x, "erase")
  /\ UNCHANGED <<server, agentVars, maps, fdTab, gone, sid, fd>>

ForwardBreaks(x) ==
  /\ pc[x] = "forward" /\ (registered \/ ~running)
  /\ Goto(x, "erase")
  /\ UNCHANGED <<server, agentVars, maps, fdTab, gone, sid, fd>>

(* close_session, then close(external_fd) and the end of the thread.       *)
CloseSession(x) ==
  /\ pc[x] = "erase"
  /\ sessions' = [sessions EXCEPT ![sid[x]] = NoSession]
  /\ Goto(x, "close")
  /\ UNCHANGED <<server, agentVars, nextId, pending, promise, fdTab, gone, sid, fd>>

CloseFd(x) ==
  /\ pc[x] = "close"
  /\ fdTab' = [fdTab EXCEPT ![fd[x]] = NoClient]
  /\ sid' = [sid EXCEPT ![x] = 0] /\ fd' = [fd EXCEPT ![x] = NoFd]
  /\ promise' = [promise EXCEPT ![x] = "none"]
  /\ gone' = gone \ {x}
  /\ Goto(x, "done")
  /\ UNCHANGED <<server, agentVars, nextId, sessions, pending>>

(* The client disconnects (for a gateway tunnel: curl closes fds[1]).      *)
Disconnect(x) ==
  /\ pc[x] \notin {"new", "done"} /\ x \notin gone
  /\ gone' = gone \cup {x}
  /\ UNCHANGED <<server, agentVars, maps, fdTab, threads>>

----------------------------------------------------------------------------
(* The agent and the thread that serves its connection                     *)

(* while (running_) of the per-agent thread: it reads another frame or     *)
(* leaves.  In "recv" the test is behind it, so that one more frame may be *)
(* handled after stop() has cleared the flag.                              *)
LoopTest == IF running THEN "recv" ELSE "leave"

(* handle_agent_connection registers the agent.                            *)
AgentConnect ==
  /\ hpc = "down"
  /\ registered' = TRUE /\ hpc' = LoopTest
  /\ inbox' = <<>> /\ remote' = [s \in Ids |-> "none"]
  /\ UNCHANGED <<server, hfd, hid, maps, fdTab, gone, threads>>

(* The agent answers an OPEN, relays target data or ends a session.  Its   *)
(* reader thread starts before OPEN_ACK is sent, so DATA may come first.   *)
AgentSends(s, type) ==
  /\ hpc \in {"recv", "send"} /\ Len(inbox) < MaxInFlight
  /\ remote[s] # "none" /\ (type = "OPEN_ACK" => remote[s] = "asked")
  /\ inbox' = Append(inbox, [type |-> type, id |-> s])
  /\ remote' = [remote EXCEPT ![s] = CASE type = "OPEN_ACK" -> "open"
                                       [] type = "CLOSE" -> "none"
                                       [] OTHER -> remote[s]]
  /\ UNCHANGED <<server, registered, hpc, hfd, hid, maps, fdTab, gone, threads>>

Receives(type) == hpc = "recv" /\ inbox # <<>> /\ Head(inbox).type = type

(* Faulty variant: the completed promise stays in the map.                 *)
HandleOpenAckKeeps ==
  /\ Receives("OPEN_ACK")
  /\ promise' = [y \in Clients |-> IF pending[Head(inbox).id] = y THEN "value" ELSE promise[y]]
  /\ inbox' = Tail(inbox) /\ hpc' = LoopTest
  /\ UNCHANGED <<server, registered, hfd, hid, remote, nextId, sessions, pending,
                 fdTab, gone, threads>>

(* handle_agent_frame(OPEN_ACK): complete and remove the promise, if any.  *)
HandleOpenAck ==
  /\ Receives("OPEN_ACK")
  /\ promise' = [y \in Clients |-> IF pending[Head(inbox).id] = y THEN "value" ELSE promise[y]]
  /\ pending' = [pending EXCEPT ![Head(inbox).id] = NoClient]
  /\ inbox' = Tail(inbox) /\ hpc' = LoopTest
  /\ UNCHANGED <<server, registered, hfd, hid, remote, nextId, sessions,
                 fdTab, gone, threads>>

(* handle_agent_frame(DATA): external_fd is copied under the lock; the     *)
(* frame is dropped when there is none ...                                 *)
HandleData ==
  LET s == Head(inbox).id IN
  /\ Receives("DATA")
  /\ inbox' = Tail(inbox)
  /\ IF sessions[s] \in Fds
       THEN hfd' = sessions[s] /\ hid' = s /\ hpc' = "send"
       ELSE hpc' = LoopTest /\ UNCHANGED <<hfd, hid>>
  /\ UNCHANGED <<server, registered, remote, maps, fdTab, gone, threads>>

(* ... and written to it after the lock is released; a failed write        *)
(* closes the session.                                                     *)
DataSent ==
  /\ hpc = "send" /\ fdTab[hfd] # NoClient
  /\ hpc' = LoopTest /\ hfd' = NoFd /\ hid' = 0
  /\ UNCHANGED <<server, registered, inbox, remote, maps, fdTab, gone, threads>>

DataSendFails ==
  /\ hpc = "send" /\ (fdTab[hfd] = NoClient \/ fdTab[hfd] \in gone)
  /\ sessions' = [sessions EXCEPT ![hid] = NoSession]
  /\ hpc' = LoopTest /\ hfd' = NoFd /\ hid' = 0
  /\ UNCHANGED <<server, registered, inbox, remote, nextId, pending, promise,
                 fdTab, gone, threads>>

(* handle_agent_frame(CLOSE): close_session, nothing else.                 *)
HandleClose ==
  /\ Receives("CLOSE")
  /\ sessions' = [sessions EXCEPT ![Head(inbox).id] = NoSession]
  /\ inbox' = Tail(inbox) /\ hpc' = LoopTest
  /\ UNCHANGED <<server, registered, hfd, hid, remote, nextId, pending,
                 promise, fdTab, gone, threads>>

(* The connection is lost or shut down, or the server stops: the loop ends.*)
LeaveLoop ==
  /\ hpc \in {"recv", "leave"}
  /\ hpc' = "unregister" /\ inbox' = <<>> /\ remote' = [s \in Ids |-> "none"]
  /\ UNCHANGED <<server, registered, hfd, hid, maps, fdTab, gone, threads>>

(* unregister_agent: erase the agent's entry, then all of its sessions.    *)
Unregister ==
  /\ hpc = "unregister"
  /\ registered' = FALSE /\ hpc' = "purge"
  /\ UNCHANGED <<server, hfd, hid, inbox, remote, maps, fdTab, gone, threads>>

PurgeSessions ==
  /\ hpc = "purge"
  /\ sessions' = [s \in Ids |-> NoSession]
  /\ hpc' = "down"
  /\ UNCHANGED <<server, registered, hfd, hid, inbox, remote, nextId, pending,
                 promise, fdTab, gone, threads>>

(* The thread of an earlier connection, which a newer one replaced, runs   *)
(* unregister_agent for the same id at any time (see ReplacementKept in    *)
(* AgentRegistry).                                                         *)
LateUnregister ==
  /\ registered' = FALSE
  /\ UNCHANGED <<server, hpc, hfd, hid, inbox, remote, maps, fdTab, gone, threads>>

LatePurge ==
  /\ sessions' = [s \in Ids |-> NoSession]
  /\ UNCHANGED <<server, agentVars, nextId, pending, promise, fdTab, gone, threads>>

----------------------------------------------------------------------------
(* stop(): running_ and the listeners (a last client may be accepted until *)
(* the listener thread is joined); pending_open_; agents_; sessions_.      *)
StopFlag ==
  /\ stopPc = "idle" /\ running' = FALSE /\ stopPc' = "flagged"
  /\ UNCHANGED <<fwd, agentVars, maps, fdTab, gone, threads>>

StopPending ==
  /\ stopPc = "flagged"
  /\ promise' = [y \in Clients |-> IF \E s \in Ids : pending[s] = y THEN "exception" ELSE promise[y]]
  /\ pending' = [s \in Ids |-> NoClient]
  /\ stopPc' = "failed"
  /\ UNCHANGED <<running, fwd, agentVars, nextId, sessions, fdTab, gone, threads>>

StopAgents ==
  /\ stopPc = "failed"
  /\ registered' = FALSE /\ stopPc' = "cleared"
  /\ UNCHANGED <<running, fwd, hpc, hfd, hid, inbox, remote, maps, fdTab, gone, threads>>

(* Faulty variant: stop() does not clear sessions_.                        *)
StopSessionsKeeps ==
  /\ stopPc = "cleared" /\ stopPc' = "stopped"
  /\ UNCHANGED <<running, fwd, agentVars, maps, fdTab, gone, threads>>

StopSessions ==
  /\ stopPc = "cleared"
  /\ sessions' = [s \in Ids |-> NoSession] /\ stopPc' = "stopped"
  /\ UNCHANGED <<running, fwd, agentVars, nextId, pending, promise, fdTab, gone, threads>>

----------------------------------------------------------------------------
OpenStep(x) == OpenCheck(x) \/ OpenInsert(x) \/ OpenSend(x) \/ OpenSendFails(x)
WaitStep(x) == WaitValue(x) \/ WaitException(x) \/ WaitTimeout(x)

ClientStep(x) ==
  \/ ReadTarget(x) \/ OpenStep(x) \/ RegisterPromise(x) \/ WaitStep(x)
  \/ ErasePromise(x) \/ AttachFd(x) \/ ForwardEnd(x) \/ CloseSession(x) \/ CloseFd(x)

AgentStep ==
  \/ AgentConnect \/ LeaveLoop \/ Unregister \/ PurgeSessions
  \/ LateUnregister \/ LatePurge
  \/ HandleOpenAck \/ HandleData \/ DataSent \/ DataSendFails \/ HandleClose

StopStep == StopPending \/ StopAgents \/ StopSessions

Next ==
  \/ \E x \in Clients : ClientStep(x) \/ Disconnect(x) \/ ForwardBreaks(x)
  \/ \E x \in Clients, f \in Fds : Accept(x, f)
  \/ \E s \in Ids, type \in {"OPEN_ACK", "DATA", "CLOSE"} : AgentSends(s, type)
  \/ AgentStep
  \/ SetForwardTarget \/ StopFlag \/ StopStep

Spec == Init /\ [][Next]_vars

(***************************************************************************)
(* Fairness: a client thread that can step does (an OS thread; the future  *)
(* times out after OPEN_ACK_TIMEOUT_S), and stop() runs to its end once    *)
(* called.  Nothing is assumed of the agent, of the thread that serves it  *)
(* (a slow external client can block it in send()) or of the clients.      *)
(***************************************************************************)
FairSpec ==
  /\ Spec
  /\ \A x \in Clients : WF_vars(ClientStep(x))
  /\ WF_vars(StopStep)

----------------------------------------------------------------------------
(* Properties                                                              *)

TypeOK ==
  /\ running \in BOOLEAN /\ fwd \in BOOLEAN /\ registered \in BOOLEAN
  /\ stopPc \in {"idle", "flagged", "failed", "cleared", "stopped"}
  /\ hpc \in {"down", "recv", "send", "leave", "unregister", "purge"}
  /\ hfd \in Fds \cup {NoFd} /\ hid \in 0 .. MaxId
  /\ inbox \in Seq(Frames)
  /\ remote \in [Ids -> {"none", "asked", "open"}]
  /\ nextId \in 0 .. MaxId
  /\ sessions \in [Ids -> Fds \cup {NoFd, NoSession}]
  /\ pending \in [Ids -> Clients \cup {NoClient}]
  /\ promise \in [Clients -> {"none", "unset", "value", "exception"}]
  /\ fdTab \in [Fds -> Clients \cup {NoClient}]
  /\ gone \subseteq Clients
  /\ pc \in [Clients -> PCs]
  /\ sid \in [Clients -> 0 .. MaxId]
  /\ fd \in [Clients -> Fds \cup {NoFd}]

(* The external_fd kept in sessions_ is never stale: as long as an entry   *)
(* carries a descriptor, that number denotes the socket of a thread of     *)
(* this very session that has not begun to close it.                       *)
SessionFdIsOwn ==
  \A s \in Ids : sessions[s] \in Fds =>
    \E x \in Clients : /\ fdTab[sessions[s]] = x /\ fd[x] = sessions[s]
                       /\ sid[x] = s /\ pc[x] \in {"forward", "erase"}

(* Every promise in pending_open_ has a thread that still waits for it,    *)
(* or is about to remove it, and has not been completed before: OPEN_ACK   *)
(* and stop() never signal a thread that has left.                         *)
PendingIsAwaited ==
  \A s \in Ids : pending[s] # NoClient =>
     sid[pending[s]] = s /\ promise[pending[s]] = "unset" /\ pc[pending[s]] \in {"wait", "unpend"}

(* sessions_ does not accumulate dead entries: an entry has a live thread  *)
(* that will erase it, or stop() is about to clear the map.                *)
NoOrphanSession ==
  \A s \in Ids : sessions[s] # NoSession =>
    \/ \E x \in Clients : sid[x] = s /\ pc[x] \notin {"close", "done"}
    \/ stopPc \in {"failed", "cleared"}

(* Every attempt to open a session is decided: whatever the agent does or  *)
(* fails to do, the client is either connected through or closed.          *)
OpenResolves ==
  \A x \in Clients : pc[x] = "check" ~> pc[x] \in {"forward", "done"}

(* A client that disconnects is cleaned up: its descriptor is closed and   *)
(* its session erased, from whatever point of the handshake it left.       *)
GoneIsReleased ==
  \A x \in Clients :
     x \in gone ~> (pc[x] = "done" /\ \A f \in Fds : fdTab[f] # x)

(* After stop() no session and no promise is left behind, although client  *)
(* threads that were in the middle of open_session go on adding them.      *)
StopDrains ==
  stopPc = "stopped" ~> [](\A s \in Ids : sessions[s] = NoSession /\ pending[s] = NoClient)

(* "handle_agent_frame(OPEN_ACK) -> promise.set_value() -> future done":   *)
(* an OPEN_ACK that is handled while its open is in progress completes it. *)
AckCompletesOpen ==
  [][\A x \in Clients :
       ( /\ running /\ Receives("OPEN_ACK") /\ HandleOpenAck
         /\ Head(inbox).id = sid[x] /\ pc[x] \in {"promise", "wait"} )
       => promise'[x] = "value"]_vars

(* Sessions are told apart by session_id: the descriptor to which DATA of  *)
(* a session is about to be written is not another session's client.       *)
DataReachesOwnClient ==
  (hpc = "send" /\ fdTab[hfd] # NoClient) => sid[fdTab[hfd]] = hid
=============================================================================
