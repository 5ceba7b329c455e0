------------------------------ MODULE TunnelAgent ------------------------------
(***************************************************************************)
(* TunnelAgent (src/src/tunnel_agent.cpp): the main thread (run,           *)
(* connect_and_run and the frame handlers), one reader thread per session  *)
(* (target_reader), the heartbeat thread, and stop() called from another   *)
(* thread.                                                                 *)
(*                                                                         *)
(* The server and the targets are environments: a server connection (a     *)
(* member of Links) delivers any frame and ends when it likes, and so does *)
(* a target.  A session and its reader thread are one member r of Readers; *)
(* r also names the session's target socket.  Descriptors are numbers that *)
(* the kernel hands out again once closed.  Payloads are left out, and of  *)
(* time only which wait can end.  Every section of code under one lock is  *)
(* one action.                                                             *)
(***************************************************************************)
EXTENDS Naturals, FiniteSets

CONSTANTS
  Links,    \* connections to the server (a bound on reconnects)
  Readers,  \* sessions, each with its reader thread (a bound on OPENs)
  Ids,      \* session ids
  Fds,      \* descriptor numbers
  MaxDelay, \* MAX_RECONNECT_DELAY_S
  None

ASSUME SocketsAssumption == Links \cap Readers = {} /\ None \notin Links \cup Readers
ASSUME NoFdAssumption == None \notin Fds
ASSUME NoIdAssumption == None \notin Ids
ASSUME MaxDelayAssumption == MaxDelay \in Nat \ {0}

VARIABLES
  running,       \* running_
  mpc,           \* the main thread, see MainPcs
  mr, ms, mfd,   \* its locals: session in hand, session id, copied target_fd
  delay,         \* delay_s
  reported,      \* current_reconnect_delay_
  serverFd,      \* server_fd_ (None = -1)
  link,          \* the connection connect_and_run works on
  opened,        \* ids the server has used on this connection
  sessions,      \* sessions_ : id -> Session, None if absent
  rpc, rid, rfd, \* reader threads: position, session_id, target_fd argument
  tfd,           \* Session::target_fd (None = -1 or destroyed)
  hb,            \* heartbeat_thread_: "none" (not joinable), "run", "exited"
  overdue,       \* no HEARTBEAT_ACK for heartbeat_timeout_s_
  cleaner,       \* holder of cleanup_mutex_: "free", "main" or "stop"
  spc,           \* stop(): "idle", "shut", "clean", "join", "stopped"
  fdTab,         \* kernel: descriptor number -> socket, None if free
  fresh, ended   \* kernel: links not used yet; sockets that yield EOF or error

mainVars == <<mpc, mr, ms, mfd, delay, reported, link>>
readers == <<rpc, rid, rfd>>
sess == <<sessions, tfd>>
kernel == <<fdTab, fresh, ended>>
others == <<hb, overdue, cleaner, spc>>
vars == <<running, mainVars, serverFd, opened, sess, readers, others, kernel>>

(***************************************************************************)
(* mpc: "idle" before run(); "attempt" at while (running_); "connect" in   *)
(* connect_to_server; "hello" before and "ack" after HELLO is sent; "recv" *)
(* in recv_frame; "open", "insert", "reply" in handle_open; "write" in     *)
(* handle_data; "close", "join" in close_session; "clean", "joinHb" in     *)
(* cleanup_connection; "after" an attempt; "sleep" in the backoff wait;    *)
(* "returned".                                                             *)
(***************************************************************************)
MainPcs == {"idle", "attempt", "connect", "hello", "ack", "recv", "open", "insert", "reply",
            "write", "close", "join", "clean", "joinHb", "after", "sleep", "returned"}

Init ==
  /\ running = FALSE /\ mpc = "idle" /\ mr = None /\ ms = None /\ mfd = None
  /\ delay = 1 /\ reported = 0 /\ serverFd = None /\ link = None /\ opened = {}
  /\ sessions = [s \in Ids |-> None]
  /\ rpc = [r \in Readers |-> "none"]
  /\ rid = [r \in Readers |-> None] /\ rfd = [r \in Readers |-> None]
  /\ tfd = [r \in Readers |-> None]
  /\ hb = "none" /\ overdue = FALSE /\ cleaner = "free" /\ spc = "idle"
  /\ fdTab = [f \in Fds |-> None] /\ fresh = Links /\ ended = {}

SockOf(f) == IF f = None THEN None ELSE fdTab[f]
Usable(o) == o # None /\ o \notin ended
ServerUp == Usable(SockOf(serverFd))

(* Faulty variant: nothing is cleaned up once the agent is stopping.       *)
LoopTestSkips == IF running THEN "recv" ELSE "after"

(* while (running_ && recv_frame(...))                                     *)
LoopTest == IF running THEN "recv" ELSE "clean"

----------------------------------------------------------------------------
(* run() and connect_and_run() up to the frame loop                        *)

RunStart ==
  /\ mpc = "idle" /\ mpc' = "attempt" /\ running' = TRUE
  /\ UNCHANGED <<mr, ms, mfd, delay, reported, link, serverFd, opened, sess, readers, others, kernel>>

Attempt ==
  /\ mpc = "attempt"
  /\ IF running THEN mpc' = "connect" /\ UNCHANGED reported
                ELSE mpc' = "returned" /\ reported' = 0
  /\ UNCHANGED <<running, mr, ms, mfd, delay, link, serverFd, opened, sess, readers, others, kernel>>

(* connect_to_server; a new connection starts with no session id in use.   *)
ConnectServer(l, f) ==
  /\ mpc = "connect" /\ l \in fresh /\ fdTab[f] = None
  /\ mpc' = "hello" /\ serverFd' = f /\ link' = l /\ opened' = {}
  /\ fdTab' = [fdTab EXCEPT ![f] = l] /\ fresh' = fresh \ {l}
  /\ UNCHANGED <<running, mr, ms, mfd, delay, reported, sess, readers, others, ended>>

ConnectFails ==
  /\ mpc = "connect" /\ mpc' = "after"
  /\ UNCHANGED <<running, mr, ms, mfd, delay, reported, link, serverFd, opened, sess, readers,
                 others, kernel>>

SendHello ==
  /\ mpc = "hello" /\ ServerUp /\ mpc' = "ack"
  /\ UNCHANGED <<running, mr, ms, mfd, delay, reported, link, serverFd, opened, sess, readers,
                 others, kernel>>

(* send_frame throws: server_fd_ keeps its value.                          *)
SendHelloFails ==
  /\ mpc = "hello" /\ ~ServerUp /\ mpc' = "after"
  /\ UNCHANGED <<running, mr, ms, mfd, delay, reported, link, serverFd, opened, sess, readers,
                 others, kernel>>

HelloAck ==
  /\ mpc = "ack" /\ link \notin ended
  /\ hb' = "run" /\ overdue' = FALSE /\ mpc' = LoopTest
  /\ UNCHANGED <<running, mr, ms, mfd, delay, reported, link, serverFd, opened, sess, readers,
                 cleaner, spc, kernel>>

(* EOF, an error or another frame: close(server_fd_) and throw.  (A        *)
(* blocked recv wakes up when the link ends, not when stop() closes the    *)
(* descriptor under it.)                                                   *)
HelloAckFails ==
  /\ mpc = "ack" /\ mpc' = "after"
  /\ fdTab' = [f \in Fds |-> IF f = serverFd THEN None ELSE fdTab[f]]
  /\ serverFd' = None
  /\ UNCHANGED <<running, mr, ms, mfd, delay, reported, link, opened, sess, readers, others,
                 fresh, ended>>

(* if (!running_) break; otherwise the exponential backoff.                *)
AfterAttempt ==
  /\ mpc = "after"
  /\ IF running THEN mpc' = "sleep" /\ reported' = delay
                ELSE mpc' = "returned" /\ reported' = 0
  /\ UNCHANGED <<running, mr, ms, mfd, delay, link, serverFd, opened, sess, readers, others, kernel>>

(* Faulty variant: the delay has no maximum.                               *)
BackoffNoCap ==
  /\ mpc = "sleep" /\ mpc' = "attempt" /\ delay' = 2 * delay
  /\ UNCHANGED <<running, mr, ms, mfd, reported, link, serverFd, opened, sess, readers, others, kernel>>

(* The wait itself; it ends early when running_ is cleared.                *)
Backoff ==
  /\ mpc = "sleep" /\ mpc' = "attempt"
  /\ delay' = IF 2 * delay < MaxDelay THEN 2 * delay ELSE MaxDelay
  /\ UNCHANGED <<running, mr, ms, mfd, reported, link, serverFd, opened, sess, readers, others, kernel>>

----------------------------------------------------------------------------
(* The frame loop and the frame handlers                                   *)

RecvFails ==
  /\ mpc = "recv" /\ link \in ended /\ mpc' = "clean"
  /\ UNCHANGED <<running, mr, ms, mfd, delay, reported, link, serverFd, opened, sess, readers,
                 others, kernel>>

RecvHeartbeatAck ==
  /\ mpc = "recv" /\ link \notin ended
  /\ overdue' = FALSE /\ mpc' = LoopTest
  /\ UNCHANGED <<running, mr, ms, mfd, delay, reported, link, serverFd, opened, sess, readers,
                 hb, cleaner, spc, kernel>>

(* OPEN: the server numbers the sessions of a connection consecutively.    *)
RecvOpen(s) ==
  /\ mpc = "recv" /\ link \notin ended /\ s \notin opened
  /\ opened' = opened \cup {s} /\ ms' = s /\ mpc' = "open"
  /\ UNCHANGED <<running, mr, mfd, delay, reported, link, serverFd, sess, readers, others, kernel>>

(* handle_open: connect_to_target, then the reader is started on the       *)
(* descriptor before the session is in the map.                            *)
ConnectTarget(r, f) ==
  /\ mpc = "open" /\ rpc[r] = "none" /\ fdTab[f] = None
  /\ fdTab' = [fdTab EXCEPT ![f] = r]
  /\ tfd' = [tfd EXCEPT ![r] = f]
  /\ rid' = [rid EXCEPT ![r] = ms] /\ rfd' = [rfd EXCEPT ![r] = f]
  /\ rpc' = [rpc EXCEPT ![r] = IF running THEN "recv" ELSE "erase"]
  /\ mr' = r /\ mpc' = "insert"
  /\ UNCHANGED <<running, ms, mfd, delay, reported, link, serverFd, opened, sessions, others,
                 fresh, ended>>

(* A bad payload, or the target cannot be reached and CLOSE is sent.       *)
OpenFails ==
  /\ mpc = "open" /\ ms' = None /\ mpc' = LoopTest
  /\ UNCHANGED <<running, mr, mfd, delay, reported, link, serverFd, opened, sess, readers,
                 others, kernel>>

InsertSession ==
  /\ mpc = "insert"
  /\ sessions' = [sessions EXCEPT ![ms] = mr]
  /\ mr' = None /\ mpc' = "reply"
  /\ UNCHANGED <<running, ms, mfd, delay, reported, link, serverFd, opened, tfd, readers,
                 others, kernel>>

(* OPEN_ACK; if it cannot be sent the session is closed again.             *)
ReplyOpen ==
  /\ mpc = "reply"
  /\ IF ServerUp THEN ms' = None /\ mpc' = LoopTest
                 ELSE mpc' = "close" /\ UNCHANGED ms
  /\ UNCHANGED <<running, mr, mfd, delay, reported, link, serverFd, opened, sess, readers,
                 others, kernel>>

(* handle_data copies target_fd under the lock ...                         *)
RecvData(s) ==
  /\ mpc = "recv" /\ link \notin ended /\ s \in opened
  /\ IF sessions[s] = None
       THEN mpc' = LoopTest /\ UNCHANGED <<ms, mfd>>
       ELSE ms' = s /\ mfd' = tfd[sessions[s]] /\ mpc' = "write"
  /\ UNCHANGED <<running, mr, delay, reported, link, serverFd, opened, sess, readers, others, kernel>>

(* ... and writes to it after the lock is released.                        *)
WriteTarget ==
  /\ mpc = "write" /\ mfd' = None
  /\ IF Usable(SockOf(mfd)) THEN ms' = None /\ mpc' = LoopTest
                            ELSE mpc' = "close" /\ UNCHANGED ms
  /\ UNCHANGED <<running, mr, delay, reported, link, serverFd, opened, sess, readers, others, kernel>>

RecvClose(s) ==
  /\ mpc = "recv" /\ link \notin ended /\ s \in opened
  /\ ms' = s /\ mpc' = "close"
  /\ UNCHANGED <<running, mr, mfd, delay, reported, link, serverFd, opened, sess, readers,
                 others, kernel>>

(* shutdown() and close() of the target sockets of the sessions S, whose   *)
(* target_fd becomes -1.                                                   *)
CloseTargets(S) ==
  /\ ended' = ended \cup {r \in S : tfd[r] # None}
  /\ fdTab' = [f \in Fds |-> IF \E r \in S : tfd[r] = f THEN None ELSE fdTab[f]]
  /\ tfd' = [r \in Readers |-> IF r \in S THEN None ELSE tfd[r]]

(* Faulty variant: the session is closed but stays in the map.             *)
CloseSessionKeeps ==
  /\ mpc = "close" /\ ms' = None
  /\ IF sessions[ms] = None
       THEN /\ mpc' = LoopTest
            /\ UNCHANGED <<mr, sess, fdTab, ended>>
       ELSE /\ mr' = sessions[ms] /\ mpc' = "join"
            /\ UNCHANGED sessions
            /\ CloseTargets({sessions[ms]})
  /\ UNCHANGED <<running, mfd, delay, reported, link, serverFd, opened, readers, others, fresh>>

(* close_session: out of the map, closed, and then the reader is joined.   *)
CloseSession ==
  /\ mpc = "close" /\ ms' = None
  /\ IF sessions[ms] = None
       THEN /\ mpc' = LoopTest
            /\ UNCHANGED <<mr, sess, fdTab, ended>>
       ELSE /\ mr' = sessions[ms] /\ mpc' = "join"
            /\ sessions' = [sessions EXCEPT ![ms] = None]
            /\ CloseTargets({sessions[ms]})
  /\ UNCHANGED <<running, mfd, delay, reported, link, serverFd, opened, readers, others, fresh>>

JoinReader ==
  /\ mpc = "join" /\ rpc[mr] = "done"
  /\ mr' = None /\ mpc' = LoopTest
  /\ UNCHANGED <<running, ms, mfd, delay, reported, link, serverFd, opened, sess, readers,
                 others, kernel>>

----------------------------------------------------------------------------
(* cleanup_connection(), run by the main thread and by stop() under        *)
(* cleanup_mutex_: close every session and detach its reader, join the     *)
(* heartbeat thread, close the server connection.                          *)

(* Faulty variant: the sessions are dropped without close().               *)
TakeSessionsNoClose(who) ==
  /\ cleaner = "free" /\ cleaner' = who
  /\ sessions' = [s \in Ids |-> None]
  /\ UNCHANGED <<tfd, fdTab, ended>>

TakeSessions(who) ==
  /\ cleaner = "free" /\ cleaner' = who
  /\ CloseTargets({r \in Readers : \E s \in Ids : sessions[s] = r})
  /\ sessions' = [s \in Ids |-> None]

JoinHeartbeat(who) ==
  /\ cleaner = who /\ hb # "run"
  /\ hb' = "none" /\ cleaner' = "free" /\ serverFd' = None
  /\ fdTab' = [f \in Fds |-> IF f = serverFd THEN None ELSE fdTab[f]]

MainCleanup ==
  /\ mpc = "clean" /\ TakeSessions("main") /\ mpc' = "joinHb"
  /\ UNCHANGED <<running, mr, ms, mfd, delay, reported, link, serverFd, opened, readers, hb,
                 overdue, spc, fresh>>

MainCleanupEnd ==
  /\ mpc = "joinHb" /\ JoinHeartbeat("main") /\ mpc' = "after"
  /\ UNCHANGED <<running, mr, ms, mfd, delay, reported, link, opened, sess, readers, overdue, spc,
                 fresh, ended>>

(* stop(): clear running_, shut the server connection down, clean up.      *)
StopFlag ==
  /\ spc = "idle" /\ running /\ running' = FALSE /\ spc' = "shut"
  /\ UNCHANGED <<mainVars, serverFd, opened, sess, readers, hb, overdue, cleaner, kernel>>

(* Faulty variant: stop() leaves the server connection alone.              *)
StopNoShutdown ==
  /\ spc = "shut" /\ spc' = "clean"
  /\ UNCHANGED <<running, mainVars, serverFd, opened, sess, readers, hb, overdue, cleaner, kernel>>

(* shutdown(server_fd_), if there is one at this moment.                   *)
StopShutdown ==
  /\ spc = "shut" /\ spc' = "clean"
  /\ ended' = IF SockOf(serverFd) = None THEN ended ELSE ended \cup {SockOf(serverFd)}
  /\ UNCHANGED <<running, mainVars, serverFd, opened, sess, readers, hb, overdue, cleaner,
                 fdTab, fresh>>

StopCleanup ==
  /\ spc = "clean" /\ TakeSessions("stop") /\ spc' = "join"
  /\ UNCHANGED <<running, mainVars, serverFd, opened, readers, hb, overdue, fresh>>

StopCleanupEnd ==
  /\ spc = "join" /\ JoinHeartbeat("stop") /\ spc' = "stopped"
  /\ UNCHANGED <<running, mainVars, opened, sess, readers, overdue, fresh, ended>>

----------------------------------------------------------------------------
(* target_reader                                                           *)

(* recv(target_fd): data, or EOF and errors, after which CLOSE is sent.  A *)
(* reader blocked in recv when its session is closed gets EOF even if the  *)
(* number is in use again; one that calls recv later reads what it denotes.*)
ReaderRecv(r) ==
  /\ rpc[r] = "recv" /\ Usable(SockOf(rfd[r]))
  /\ rpc' = [rpc EXCEPT ![r] = "send"]
  /\ UNCHANGED <<running, mainVars, serverFd, opened, sess, rid, rfd, others, kernel>>

ReaderEof(r) ==
  /\ rpc[r] = "recv" /\ (r \in ended \/ ~Usable(SockOf(rfd[r])))
  /\ rpc' = [rpc EXCEPT ![r] = "erase"]
  /\ UNCHANGED <<running, mainVars, serverFd, opened, sess, rid, rfd, others, kernel>>

(* send_frame(DATA) on whatever server_fd_ is now, then while (running_).  *)
ReaderSend(r) ==
  /\ rpc[r] = "send"
  /\ rpc' = [rpc EXCEPT ![r] = IF ServerUp /\ running THEN "recv" ELSE "erase"]
  /\ UNCHANGED <<running, mainVars, serverFd, opened, sess, rid, rfd, others, kernel>>

(* Faulty variant: the descriptor is closed but the session stays.         *)
ReaderEraseKeeps(r) ==
  LET x == sessions[rid[r]] IN
  /\ rpc[r] = "erase"
  /\ rpc' = [rpc EXCEPT ![r] = "done"] /\ rfd' = [rfd EXCEPT ![r] = None]
  /\ IF x = None THEN UNCHANGED fdTab ELSE fdTab' = [fdTab EXCEPT ![tfd[x]] = None]
  /\ UNCHANGED <<running, mainVars, serverFd, opened, sess, rid, others, fresh, ended>>

(* The reader removes the session with its id from the map; ~Session       *)
(* closes target_fd.                                                       *)
ReaderErase(r) ==
  LET x == sessions[rid[r]] IN
  /\ rpc[r] = "erase"
  /\ rpc' = [rpc EXCEPT ![r] = "done"] /\ rfd' = [rfd EXCEPT ![r] = None]
  /\ sessions' = [sessions EXCEPT ![rid[r]] = None]
  /\ IF x = None THEN UNCHANGED <<tfd, fdTab>>
     ELSE /\ fdTab' = [fdTab EXCEPT ![tfd[x]] = None]
          /\ tfd' = [tfd EXCEPT ![x] = None]
  /\ UNCHANGED <<running, mainVars, serverFd, opened, rid, others, fresh, ended>>

----------------------------------------------------------------------------
(* Faulty variant: heartbeat_loop does not look at running_.               *)
HeartbeatIgnoresStop ==
  /\ hb = "run" /\ ~ServerUp
  /\ hb' = "exited"
  /\ UNCHANGED <<running, mainVars, serverFd, opened, sess, readers, overdue, cleaner, spc, kernel>>

(* heartbeat_loop: it ends when running_ is cleared or a send fails, or    *)
(* shuts the server connection down after heartbeat_timeout_s_ of silence. *)
HeartbeatEnds ==
  /\ hb = "run" /\ (~running \/ ~ServerUp)
  /\ hb' = "exited"
  /\ UNCHANGED <<running, mainVars, serverFd, opened, sess, readers, overdue, cleaner, spc, kernel>>

HeartbeatTimeoutNoShutdown ==   \* faulty variant: only the thread ends
  /\ hb = "run" /\ overdue
  /\ hb' = "exited"
  /\ UNCHANGED <<running, mainVars, serverFd, opened, sess, readers, overdue, cleaner, spc, kernel>>

HeartbeatTimeout ==
  /\ hb = "run" /\ overdue
  /\ hb' = "exited"
  /\ ended' = IF SockOf(serverFd) = None THEN ended ELSE ended \cup {SockOf(serverFd)}
  /\ UNCHANGED <<running, mainVars, serverFd, opened, sess, readers, overdue, cleaner, spc,
                 fdTab, fresh>>

(* Environment: the server falls silent; a connection or target ends.      *)
Expire ==
  /\ hb = "run" /\ ~overdue /\ overdue' = TRUE
  /\ UNCHANGED <<running, mainVars, serverFd, opened, sess, readers, hb, cleaner, spc, kernel>>

PeerEnds(o) ==
  /\ (\E f \in Fds : fdTab[f] = o) \/ (o = link /\ mpc = "ack")
  /\ o \notin ended /\ ended' = ended \cup {o}
  /\ UNCHANGED <<running, mainVars, serverFd, opened, sess, readers, others, fdTab, fresh>>

----------------------------------------------------------------------------
(* Steps of the main thread that wait for nobody but the kernel.           *)
MainStep ==
  \/ Attempt \/ ConnectFails \/ SendHello \/ SendHelloFails \/ AfterAttempt \/ Backoff
  \/ RecvFails \/ OpenFails \/ InsertSession \/ ReplyOpen \/ WriteTarget \/ CloseSession
  \/ JoinReader \/ MainCleanup \/ MainCleanupEnd

RecvStep ==
  \/ RecvHeartbeatAck
  \/ \E s \in Ids : RecvOpen(s) \/ RecvData(s) \/ RecvClose(s)

ReaderStep(r) == ReaderRecv(r) \/ ReaderEof(r) \/ ReaderSend(r) \/ ReaderErase(r)
HeartbeatStep == HeartbeatEnds \/ HeartbeatTimeout
StopStep == StopShutdown \/ StopCleanup \/ StopCleanupEnd

Next ==
  \/ RunStart \/ MainStep \/ RecvStep \/ HelloAck \/ HelloAckFails
  \/ \E l \in Links, f \in Fds : ConnectServer(l, f)
  \/ \E r \in Readers, f \in Fds : ConnectTarget(r, f)
  \/ \E r \in Readers : ReaderStep(r)
  \/ HeartbeatStep \/ StopFlag \/ StopStep \/ Expire
  \/ \E o \in Links \cup Readers : PeerEnds(o)

Spec == Init /\ [][Next]_vars

(***************************************************************************)
(* Fairness: threads are scheduled, connect() and send() end (TCP gives    *)
(* up), a recv on a socket that was shut down or closed by its peer        *)
(* returns.  Nothing is assumed of the server or of the targets: a recv on *)
(* a live connection, HELLO_ACK included, may wait for ever.               *)
(***************************************************************************)
FairSpec ==
  /\ Spec
  /\ WF_vars(MainStep)
  /\ WF_vars(link \in ended /\ HelloAckFails)
  /\ \A r \in Readers : WF_vars((r \in ended /\ ReaderEof(r)) \/ ReaderSend(r) \/ ReaderErase(r))
  /\ WF_vars(HeartbeatStep)
  /\ WF_vars(StopStep)

----------------------------------------------------------------------------
(* Properties                                                              *)

TypeOK ==
  /\ running \in BOOLEAN /\ overdue \in BOOLEAN
  /\ mpc \in MainPcs
  /\ mr \in Readers \cup {None} /\ ms \in Ids \cup {None} /\ mfd \in Fds \cup {None}
  /\ delay \in 1 .. MaxDelay /\ reported \in 0 .. MaxDelay
  /\ serverFd \in Fds \cup {None} /\ link \in Links \cup {None}
  /\ opened \subseteq Ids
  /\ sessions \in [Ids -> Readers \cup {None}]
  /\ rpc \in [Readers -> {"none", "recv", "send", "erase", "done"}]
  /\ rid \in [Readers -> Ids \cup {None}]
  /\ rfd \in [Readers -> Fds \cup {None}] /\ tfd \in [Readers -> Fds \cup {None}]
  /\ hb \in {"none", "run", "exited"}
  /\ cleaner \in {"free", "main", "stop"}
  /\ spc \in {"idle", "shut", "clean", "join", "stopped"}
  /\ fdTab \in [Fds -> Links \cup Readers \cup {None}]
  /\ fresh \subseteq Links /\ ended \subseteq Links \cup Readers

(* Every session in sessions_ was opened under its own id and its          *)
(* target_fd is open and its own, although four kinds of thread close      *)
(* descriptors (close_session, cleanup_connection of two threads, and the  *)
(* reader through ~Session).                                               *)
SessionOwnsTarget ==
  \A s \in Ids : sessions[s] # None =>
    /\ rid[sessions[s]] = s /\ tfd[sessions[s]] \in Fds
    /\ fdTab[tfd[sessions[s]]] = sessions[s]

(* DATA of a session is never written to the target of another session or  *)
(* back to the server: the descriptor handle_data copied may be closed     *)
(* before it is used, but its number is not given to anything else.        *)
DataToOwnTarget ==
  mpc = "write" /\ fdTab[mfd] # None =>
    fdTab[mfd] \in Readers /\ rid[fdTab[mfd]] = ms

(* No target socket is forgotten: an open one is in sessions_, or          *)
(* handle_open is about to put it there.                                   *)
NoTargetLeak ==
  \A f \in Fds, r \in Readers : fdTab[f] = r =>
    sessions[rid[r]] = r \/ (mpc = "insert" /\ mr = r)

(* When run() has returned, no session, target socket or heartbeat thread  *)
(* of this agent is left, whoever of run() and stop() cleaned up first.    *)
ReturnedIsClean ==
  mpc = "returned" => /\ \A s \in Ids : sessions[s] = None
                      /\ \A f \in Fds : fdTab[f] \notin Readers
                      /\ hb = "none"

(* stop() returns: it neither waits for run() for ever, nor for the        *)
(* heartbeat thread.                                                       *)
StopReturns == spc = "shut" ~> spc = "stopped"

(* After stop() run() returns, or it waits for a HELLO_ACK, which has no   *)
(* timeout.                                                                *)
StopEndsRun == spc = "stopped" ~> mpc \in {"returned", "ack"}

(* A server that no longer acknowledges heartbeats is left: the connection *)
(* is cleaned up for a new attempt, even while a handler joins a reader.   *)
SilentServerLeft == (hb = "run" /\ overdue) ~> (~overdue \/ mpc = "after")

(* "On target EOF it sends CLOSE, cleans up its own session and exits":    *)
(* while the agent runs, a session in the map has a reader that will still *)
(* do so.                                                                  *)
SessionHasReader ==
  running => \A s \in Ids : sessions[s] # None => rpc[sessions[s]] # "done"
=============================================================================
