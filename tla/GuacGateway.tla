---------------------------- MODULE GuacGateway ----------------------------
(***************************************************************************)
(* GuacWebSocketGateway (guac_websocket.cpp) with one browser connection:  *)
(* its handle_connection thread, the worker of the client it starts        *)
(* (GuacClients), the thread that opens a tunnel for it, and the callback  *)
(* by which instructions reach the browser.  Other connections appear      *)
(* through the one thing they share: the process's descriptor numbers.     *)
(***************************************************************************)
EXTENDS GuacClients, GuacParser

CONSTANTS
  FirstFrames,   \* what a browser may send first, as token sequences
  Frames         \* what it may send afterwards

ASSUME FramesAreTokens == FirstFrames \cup Frames \subseteq Seq(Texts \cup Separators)

VARIABLES
  renderer,   \* web_renderer_: "chromium" or "http"
  running,    \* running_
  cpc,        \* the connection's thread
  active,     \* WsSession::active
  here,       \* the browser has not closed its side
  fdOwner,    \* whose socket the number WsSession::fd denotes
  parser,     \* the connection's GuacParser
  tpc,        \* the tunnel thread
  cb,         \* the callback, between the check of active and its return
  foreign,    \* history: a frame was written to somebody else's socket
  alive,      \* the process has not died
  view        \* what the browser shows

connVars == <<cpc, active, parser>>
gatewayVars == <<renderer, running, here, fdOwner, tpc, cb, foreign, alive, view>>
vars == <<clientVars, connVars, gatewayVars>>

Init ==
  /\ ClientInit
  /\ renderer \in {"chromium", "http"} /\ running = FALSE
  /\ cpc = None /\ active = TRUE /\ parser = ParserFresh
  /\ here = TRUE /\ fdOwner = None
  /\ tpc = None /\ cb = "no" /\ foreign = FALSE /\ alive = TRUE
  /\ view = [sized |-> FALSE, open |-> 0, last |-> 0, canvas |-> <<>>]

----------------------------------------------------------------------------
(* start, accept_loop and stop.  Connection threads are detached: stop     *)
(* ends the accept loop and leaves them alone, so both are only taken      *)
(* before the one connection of the model is accepted.                     *)
Start ==
  /\ ~running /\ cpc = None /\ running' = TRUE
  /\ UNCHANGED <<clientVars, connVars, renderer, here, fdOwner, tpc, cb, foreign, alive, view>>
Stop ==
  /\ running /\ cpc = None /\ running' = FALSE
  /\ UNCHANGED <<clientVars, connVars, renderer, here, fdOwner, tpc, cb, foreign, alive, view>>
Accept ==
  /\ running /\ cpc = None /\ cpc' = "handshake" /\ fdOwner' = "self"
  /\ UNCHANGED <<clientVars, active, parser, renderer, running, here, tpc, cb,
                 foreign, alive, view>>

BrowserLeaves ==
  /\ here /\ fdOwner = "self" /\ here' = FALSE
  /\ UNCHANGED <<clientVars, connVars, renderer, running, fdOwner, tpc, cb, foreign, alive, view>>

(* Another accept or socket call is given the number of the closed fd.     *)
ReuseFd ==
  /\ fdOwner = "free" /\ fdOwner' = "other"
  /\ UNCHANGED <<clientVars, connVars, renderer, running, here, tpc, cb, foreign, alive, view>>

----------------------------------------------------------------------------
(* The browser's side of an instruction (external: the frontend).  A blob  *)
(* or end for a stream that is not open shows up as that stream open.      *)
Overlay(canvas, pic) ==
  [q \in DOMAIN pic \cup DOMAIN canvas |-> IF q \in DOMAIN pic THEN pic[q] ELSE canvas[q]]
Apply(v, i) ==
  CASE i.op = "size" -> [v EXCEPT !.sized = TRUE, !.canvas = <<>>]
    [] i.op \in {"img", "pipe"} -> [v EXCEPT !.open = i.id, !.last = i.id]
    [] i.op \in {"blob", "end"} /\ i.id # v.open -> [v EXCEPT !.open = i.id]
    [] i.op = "end" /\ i.id = v.open ->
         [v EXCEPT !.open = 0,
                   !.canvas = IF i.pic = <<>> THEN @ ELSE Overlay(@, i.pic)]
    [] OTHER -> v

(* send_ws_frame: whoever owns the number by now receives it.  SIGPIPE is  *)
(* not ignored, so a write to a browser that has gone may end the process. *)
SendWsFrame(i) ==
  /\ foreign' = (foreign \/ fdOwner = "other")
  /\ view' = IF fdOwner = "self" /\ here THEN Apply(view, i) ELSE view
  /\ alive' \in IF fdOwner = "self" /\ ~here THEN BOOLEAN ELSE {TRUE}
ErrorInstr == Instr("error", 0, <<>>)

----------------------------------------------------------------------------
(* The session lives while the connection's thread, the tunnel thread or a *)
(* callback holds a reference to it.                                       *)
OthersReleased == cpc \in {"destroy", "done"} /\ tpc \in {None, "destroy", "gone"}
WorkerIdle == todo = <<>> /\ cb = "no"
WorkerDone == wpc \in {None, "exited"} /\ WorkerIdle

(* The callback: weak_session.lock(), then the check of active ...         *)
CallbackEnter ==
  /\ cb = "no" /\ todo # <<>>
  /\ IF OthersReleased THEN todo' = Tail(todo) /\ UNCHANGED cb
     ELSE cb' = (IF active THEN "send" ELSE "skip") /\ UNCHANGED todo
  /\ UNCHANGED <<kind, wpc, stop, connected, held, inputVars, pictureVars, webVars, rdpVars,
                 connVars, renderer, running, here, fdOwner, tpc, foreign, alive, view>>

(* ... then the write.  If the reference it drops is the last, the worker  *)
(* destroys its own client and joins itself: std::terminate.               *)
CallbackReturn ==
  /\ cb # "no" /\ cb' = "no" /\ todo' = Tail(todo)
  /\ IF OthersReleased THEN /\ foreign' = (foreign \/ (cb = "send" /\ fdOwner = "other"))
                              /\ alive' = FALSE /\ UNCHANGED view
     ELSE IF cb = "send" THEN SendWsFrame(Head(todo))
     ELSE UNCHANGED <<foreign, alive, view>>
  /\ UNCHANGED <<kind, wpc, stop, connected, held, inputVars, pictureVars, webVars, rdpVars,
                 connVars, renderer, running, here, fdOwner, tpc>>

----------------------------------------------------------------------------
(* handle_connection: the handshake and the first frame.                   *)
Handshake ==
  /\ cpc = "handshake" /\ cpc' \in {"first", "close"}
  /\ alive' \in IF here THEN {TRUE} ELSE BOOLEAN
  /\ UNCHANGED <<clientVars, active, parser, renderer, running, here, fdOwner, tpc,
                 cb, foreign, view>>

(* Arguments std::stoi throws at; nothing catches it.                      *)
NotNumbers == {"x"}
Get(args, i, default) == IF Len(args) >= i THEN args[i] ELSE default

(* Which client a connect instruction asks for, None if unknown.           *)
ClientFor(args) ==
  CASE args[1] \in {"vnc", "ssh", "rdp"} -> args[1]
    [] args[1] = "web" /\ renderer = "chromium" -> "web"
    [] args[1] = "web" /\ renderer = "http" ->
         IF Get(args, 3, Empty) = Empty THEN "http" ELSE "tunnel"
    [] OTHER -> None
ParsesNumber(k, args) == k \in {"vnc", "ssh", "rdp", "web"} /\ Get(args, 3, "1") \in NotNumbers

(* connect() of the client, or the detached thread that opens the tunnel;  *)
(* what else the first frame held is dropped by parser.reset().            *)
Dispatch(k) ==
  /\ kind' = k /\ cpc' = "loop" /\ parser' = ParserFresh
  /\ IF k = "tunnel" THEN tpc' = "route" /\ UNCHANGED <<wpc, connected, stop>>
     ELSE StartWorker(k) /\ UNCHANGED tpc
  /\ UNCHANGED <<held, todo, inputVars, pictureVars, webVars, rdpVars, active,
                 renderer, running, here, fdOwner, cb, foreign, alive, view>>

ReadFirst(frame) ==
  LET p == Feed(ParserFresh, frame)
      args == Head(p.ready).args
      k == ClientFor(args)
  IN /\ cpc = "first"
     /\ CASE p.thrown \/ p.ready = <<>> ->
               /\ cpc' = "close"
               /\ UNCHANGED <<clientVars, active, parser, gatewayVars>>
          [] ~p.thrown /\ p.ready # <<>> /\ (Head(p.ready).opcode # "connect" \/ args = <<>>) ->
               /\ cpc' = "close" /\ SendWsFrame(ErrorInstr)
               /\ UNCHANGED <<clientVars, active, parser, renderer, running, here,
                              fdOwner, tpc, cb>>
          [] OTHER ->
               IF k = None
               THEN /\ cpc' = "close" /\ SendWsFrame(ErrorInstr)
                    /\ UNCHANGED <<clientVars, active, parser, renderer, running,
                                   here, fdOwner, tpc, cb>>
               ELSE IF ParsesNumber(k, args)
               THEN /\ alive' = FALSE
                    /\ UNCHANGED <<clientVars, connVars, renderer, running, here, fdOwner, tpc,
                                   cb, foreign, view>>
               ELSE Dispatch(k)

(* An empty frame: end of file, a Close frame, or one with no payload.     *)
ReadFirstFails ==
  /\ cpc = "first" /\ cpc' = "close"
  /\ UNCHANGED <<clientVars, active, parser, gatewayVars>>

----------------------------------------------------------------------------
(* The input loop.                                                         *)

(* send_mouse: wheel, newly pressed, newly released, then the position.    *)
Event(type, of) == [type |-> type, of |-> of]
When(present, event) == IF present THEN <<event>> ELSE <<>>
MouseEventsKeepsRight(old, new) ==   \* mutant: no release of the right button
  When("up" \in new, Event("mouseWheel", "up")) \o When("down" \in new, Event("mouseWheel", "down"))
    \o When("left" \in new \ old, Event("mousePressed", "left"))
    \o When("middle" \in new \ old, Event("mousePressed", "middle"))
    \o When("right" \in new \ old, Event("mousePressed", "right"))
    \o When("left" \in old \ new, Event("mouseReleased", "left"))
    \o When("middle" \in old \ new, Event("mouseReleased", "middle"))
    \o <<Event("mouseMoved", "none")>>
MouseEvents(old, new) ==
  When("up" \in new, Event("mouseWheel", "up")) \o When("down" \in new, Event("mouseWheel", "down"))
    \o When("left" \in new \ old, Event("mousePressed", "left"))
    \o When("middle" \in new \ old, Event("mousePressed", "middle"))
    \o When("right" \in new \ old, Event("mousePressed", "right"))
    \o When("left" \in old \ new, Event("mouseReleased", "left"))
    \o When("middle" \in old \ new, Event("mouseReleased", "middle"))
    \o When("right" \in old \ new, Event("mouseReleased", "right"))
    \o <<Event("mouseMoved", "none")>>

(* The button mask and the keysym, as the frontend writes them.            *)
MaskOf(arg) ==
  CASE arg = "1" -> {"left"} [] arg = "13" -> {"left", "right", "up"}
    [] OTHER -> {}

(* make_key_params: the DOM name of a keysym.                              *)
DomKey(arg) ==
  CASE arg = "97" -> "a" [] arg = "65293" -> "Enter" [] arg \in {"65505", "65506"} -> "Shift"
    [] OTHER -> "Unidentified"
KeyEvent(arg, pressed) ==
  Event(IF pressed = "1" THEN "keyDown" ELSE "keyUp", DomKey(arg))

(* What an instruction of the browser queues, given the buttons held, and  *)
(* the arguments for which std::stoi throws before anything is queued.     *)
IsMouse(i) == kind = "web" /\ i.opcode = "mouse" /\ Len(i.args) >= 3
IsKey(i) == kind = "web" /\ i.opcode = "key" /\ Len(i.args) >= 2
Throws(i) ==
  \/ IsMouse(i) /\ {i.args[1], i.args[2], i.args[3]} \cap NotNumbers # {}
  \/ IsKey(i) /\ i.args[1] \in NotNumbers
Queues(i) ==
  IF kind = "ssh" /\ i.opcode = "key" /\ i.args # <<>> /\ connected
  THEN When(i.args[1] # Empty, i.args[1])
  ELSE IF IsMouse(i) THEN MouseEvents(buttons, MaskOf(i.args[3]))
  ELSE IF IsKey(i) THEN <<KeyEvent(i.args[1], i.args[2])>> ELSE <<>>

(* A frame the parser throws at is dropped with every complete instruction *)
(* it held.                                                                *)
AfterFeedKeeps(p) == p   \* mutant: the catch block does not reset the parser
AfterFeed(p) == IF p.thrown THEN ParserFresh ELSE p
ReadFrame(frame) ==
  /\ cpc = "loop" /\ ~HasInstruction(parser) /\ MayWork
  /\ framesRead' = framesRead + 1
  /\ parser' = AfterFeed(Feed(parser, frame))
  /\ UNCHANGED <<kind, wpc, stop, connected, held, todo, inq, pushed, got, buttons, pictureVars,
                 webVars, rdpVars, cpc, active, gatewayVars>>

(* The instructions of a frame one by one: the lock of the queue is free   *)
(* between them, and the worker may drain it.                              *)
HandleInstruction ==
  LET i == Head(parser.ready)
  IN /\ cpc = "loop" /\ HasInstruction(parser) /\ parser' = NextInstruction(parser)
     /\ IF Throws(i)
        THEN alive' = FALSE /\ UNCHANGED <<inq, pushed, buttons>>
        ELSE /\ inq' = inq \o Queues(i) /\ pushed' = pushed \o Queues(i)
             /\ buttons' = IF IsMouse(i) THEN MaskOf(i.args[3]) ELSE buttons
             /\ UNCHANGED alive
     /\ UNCHANGED <<kind, wpc, stop, connected, held, todo, got, framesRead, pictureVars, webVars,
                    rdpVars, cpc, active, renderer, running, here, fdOwner, tpc, cb, foreign,
                    view>>

(* read_ws_frame returned "": the loop ends, whatever the backend does.    *)
Leave ==
  /\ cpc = "loop" /\ ~HasInstruction(parser) /\ cpc' = "d_signal" /\ active' = FALSE
  /\ UNCHANGED <<clientVars, parser, gatewayVars>>

----------------------------------------------------------------------------
(* disconnect() of the client: signal, join, then what is left to release. *)

SignalStopForgets ==   \* mutant: disconnect() joins without setting stop
  /\ cpc = "d_signal" /\ kind # "rdp"
  /\ cpc' = IF kind = "web" THEN "d_ws" ELSE "join"
  /\ UNCHANGED <<clientVars, active, parser, gatewayVars>>
SignalStop ==
  /\ cpc = "d_signal" /\ kind # "rdp" /\ stop' = TRUE
  /\ cpc' = IF kind = "web" THEN "d_ws" ELSE "join"
  /\ UNCHANGED <<kind, wpc, connected, held, todo, inputVars, pictureVars, webVars, rdpVars,
                 active, parser, gatewayVars>>

(* The CDP socket is closed under the worker that reads from it.           *)
SignalWs ==
  /\ cpc = "d_ws" /\ cpc' = "join" /\ cdp' = FALSE
  /\ IF cdp THEN ws' = CloseWs(ws) /\ held' = AfterCloseWs ELSE UNCHANGED <<ws, held>>
  /\ UNCHANGED <<kind, wpc, stop, connected, todo, inputVars, pictureVars, rdpVars, active,
                 parser, gatewayVars>>

(* freerdp_disconnect if the worker has published the instance: before     *)
(* that nothing is signalled; between freerdp_free and the reset of the    *)
(* pointer it is called on freed memory.                                   *)
SignalRdp ==
  /\ cpc = "d_signal" /\ kind = "rdp" /\ cpc' = "join"
  /\ IF inst = "live" /\ "context" \in held
     THEN abort' = TRUE /\ held' = held \ {"gdi"} /\ connected' = FALSE
     ELSE UNCHANGED <<abort, held, connected>>
  /\ alive' \in IF inst = "freed" THEN BOOLEAN ELSE {TRUE}
  /\ UNCHANGED <<kind, wpc, stop, todo, inputVars, pictureVars, webVars, inst, active, parser,
                 renderer, running, here, fdOwner, tpc, cb, foreign, view>>

JoinDetaches ==   \* mutant: the worker is detached instead of joined
  /\ cpc = "join"
  /\ cpc' = IF kind = "web" THEN "reap" ELSE "close"
  /\ connected' = IF kind \in {"rdp", "http", "tunnel"} THEN FALSE ELSE connected
  /\ UNCHANGED <<kind, wpc, stop, held, todo, inputVars, pictureVars, webVars, rdpVars, active,
                 parser, gatewayVars>>
Join ==
  /\ cpc = "join" /\ WorkerDone
  /\ cpc' = IF kind = "web" THEN "reap" ELSE "close"
  /\ connected' = IF kind \in {"rdp", "http", "tunnel"} THEN FALSE ELSE connected
  /\ UNCHANGED <<kind, wpc, stop, held, todo, inputVars, pictureVars, webVars, rdpVars, active,
                 parser, gatewayVars>>

(* SIGTERM, 500 ms, SIGKILL: Chrome is reaped if this client started it.   *)
ReapChrome ==
  /\ cpc = "reap" /\ cpc' = "close" /\ held' = held \ {"chrome"}
  /\ UNCHANGED <<kind, wpc, stop, connected, todo, inputVars, pictureVars, webVars, rdpVars,
                 active, parser, gatewayVars>>

CloseFd ==
  /\ cpc = "close" /\ cpc' = "release" /\ fdOwner' = "free"
  /\ UNCHANGED <<clientVars, active, parser, renderer, running, here, tpc, cb,
                 foreign, alive, view>>

(* The thread returns.  If its reference is the last, the client's         *)
(* destructor disconnects once more: a worker the tunnel thread started    *)
(* after disconnect() returned is joined here.                             *)
ReleaseConn ==
  /\ cpc = "release"
  /\ IF tpc \in {None, "gone"} /\ cb = "no" /\ kind # None
     THEN cpc' = "destroy" /\ stop' = TRUE
     ELSE cpc' = "done" /\ UNCHANGED stop
  /\ UNCHANGED <<kind, wpc, connected, held, todo, inputVars, pictureVars, webVars, rdpVars,
                 active, parser, gatewayVars>>
DestroyConn ==
  /\ cpc = "destroy" /\ WorkerDone /\ cpc' = "done"
  /\ UNCHANGED <<clientVars, active, parser, gatewayVars>>

----------------------------------------------------------------------------
(* The tunnel thread of form B.  Its error frames do not look at active.   *)
TunnelMoves(from, to) == tpc = from /\ tpc' = to

TunnelRoute ==
  /\ TunnelMoves("route", "open") \/ TunnelMoves("route", "fail")
  /\ UNCHANGED <<clientVars, connVars, renderer, running, here, fdOwner, cb, foreign, alive, view>>
TunnelOpen ==
  /\ \/ TunnelMoves("open", "check") /\ held' = held \cup {"pre_fd"}
     \/ TunnelMoves("open", "fail") /\ UNCHANGED held
  /\ UNCHANGED <<kind, wpc, stop, connected, todo, inputVars, pictureVars, webVars, rdpVars,
                 connVars, renderer, running, here, fdOwner, cb, foreign, alive, view>>
TunnelFails ==
  /\ TunnelMoves("fail", "release") /\ SendWsFrame(ErrorInstr)
  /\ UNCHANGED <<clientVars, connVars, renderer, running, here, fdOwner, cb>>
TunnelCheckLeaks ==   \* mutant: the descriptor is not closed when the browser has gone
  /\ TunnelMoves("check", IF active THEN "start" ELSE "release")
  /\ UNCHANGED <<clientVars, connVars, renderer, running, here, fdOwner, cb, foreign, alive, view>>
TunnelCheck ==
  /\ \/ active /\ TunnelMoves("check", "start") /\ UNCHANGED held
     \/ ~active /\ TunnelMoves("check", "release") /\ held' = held \ {"pre_fd"}
  /\ UNCHANGED <<kind, wpc, stop, connected, todo, inputVars, pictureVars, webVars, rdpVars,
                 connVars, renderer, running, here, fdOwner, cb, foreign, alive, view>>
TunnelStart ==
  /\ TunnelMoves("start", "release") /\ StartWorker("tunnel")
  /\ UNCHANGED <<kind, held, todo, inputVars, pictureVars, webVars, rdpVars, connVars, renderer,
                 running, here, fdOwner, cb, foreign, alive, view>>
TunnelRelease ==
  /\ tpc = "release"
  /\ IF cpc = "done" /\ cb = "no" THEN tpc' = "destroy" /\ stop' = TRUE
     ELSE tpc' = "gone" /\ UNCHANGED stop
  /\ UNCHANGED <<kind, wpc, connected, held, todo, inputVars, pictureVars, webVars, rdpVars,
                 connVars, renderer, running, here, fdOwner, cb, foreign, alive, view>>
TunnelDestroy ==
  /\ TunnelMoves("destroy", "gone") /\ WorkerDone
  /\ UNCHANGED <<clientVars, connVars, renderer, running, here, fdOwner, cb, foreign, alive, view>>

----------------------------------------------------------------------------
Environment == BrowserLeaves \/ ReuseFd \/ (ReuseWs /\ UNCHANGED <<connVars, gatewayVars>>)
Worker == WorkerStep /\ UNCHANGED <<connVars, gatewayVars>>
Callback == CallbackEnter \/ CallbackReturn
Connecting ==
  \/ Handshake \/ ReadFirstFails \/ (\E f \in FirstFrames : ReadFirst(f))
  \/ (\E f \in Frames : ReadFrame(f)) \/ HandleInstruction \/ Leave
Leaving ==
  \/ SignalStop \/ SignalWs \/ SignalRdp \/ Join \/ ReapChrome \/ CloseFd
  \/ ReleaseConn \/ DestroyConn
Tunnel ==
  \/ TunnelRoute \/ TunnelOpen \/ TunnelFails \/ TunnelCheck \/ TunnelStart
  \/ TunnelRelease \/ TunnelDestroy

Next ==
  /\ alive
  /\ \/ Start \/ Stop \/ Accept \/ Environment
     \/ Connecting \/ Leaving \/ Worker \/ Callback \/ Tunnel

(* Once the browser has gone read_ws_frame returns, and each blocking call *)
(* into a library is taken to return: libcurl by its 30 s timeout,         *)
(* libvncclient by its 100 ms wait, Chrome's socket because disconnect()   *)
(* closes it, an SSH set-up because the server answers or hangs up.        *)
Fairness ==
  /\ WF_vars(alive /\ Leaving)
  /\ WF_vars(alive /\ Worker)
  /\ WF_vars(alive /\ Callback)
  /\ WF_vars(alive /\ Tunnel)

Spec == Init /\ [][Next]_vars
LiveSpec == Spec /\ Fairness

----------------------------------------------------------------------------
(* Properties.                                                             *)

(* Type correctness of the connection, its client and its browser.         *)
TypeOK ==
  /\ kind \in DOMAIN FirstStage \cup {None}
  /\ cpc \in {None, "handshake", "first", "loop", "d_signal", "d_ws", "join", "reap", "close",
              "release", "destroy", "done"}
  /\ tpc \in {None, "route", "open", "fail", "check", "start", "release", "destroy", "gone"}
  /\ held \subseteq {"sock", "session", "channel", "rfb", "framebuffer", "instance", "context",
                     "gdi", "chrome", "ws", "curl", "curl_fd", "pre_fd"}
  /\ {stop, connected, active, here, running, foreign, alive, cdp, abort, exact} \subseteq BOOLEAN
  /\ cb \in {"no", "send", "skip"} /\ (cb # "no" => todo # <<>>)
  /\ ws \in {"unset", "self", "eof", "free", "other", "struck"}
  /\ fdOwner \in {None, "self", "free", "other"} /\ inst \in {"null", "live", "freed"}
  /\ shot = <<>> \/ shot \in Screens
  /\ prev = <<>> \/ prev \in Screens
  /\ buttons \subseteq Buttons \cup {"up", "down"}
  /\ nextId \in 1 .. MaxWork + 1 /\ framesRead \in 0 .. MaxWork
  /\ parser \in ParserState /\ ~parser.thrown
  /\ HasInstruction(parser) => cpc = "loop"

(* A frame for this browser never goes to a descriptor number that was     *)
(* closed and given to another connection: disconnect() joins the worker   *)
(* before handle_connection closes the socket.  Clients started through a  *)
(* tunnel are excepted: their detached thread and the worker it starts can *)
(* outlive the socket.                                                     *)
FramesToOwnBrowser == kind # "tunnel" => ~foreign

(* Once the threads of a connection have returned, what its client         *)
(* acquired has been released (SSH session and socket, framebuffer,        *)
(* FreeRDP instance, Chrome process, libcurl handle, tunnel socket), with  *)
(* one exception: a tunnel descriptor that libcurl never asked for.        *)
ReleasedAtEnd ==
  alive /\ OthersReleased /\ WorkerDone =>
    /\ held \subseteq {"pre_fd"}
    /\ fdOwner # "self"
    /\ "pre_fd" \in held => kind = "tunnel" /\ wpc = "exited"

(* Input reaches the server in the order it was typed and, while the       *)
(* backend is up, none of it is lost or sent twice (SSH may cut an event   *)
(* short); in the queued mouse events a button is down, pressed and not    *)
(* released since, exactly if the browser reported it held last.           *)
Down(b) ==
  \E i \in DOMAIN pushed :
    /\ pushed[i] = Event("mousePressed", b)
    /\ \A j \in i + 1 .. Len(pushed) : pushed[j] # Event("mouseReleased", b)
InputInOrder ==
  /\ Len(got) <= Len(pushed)
  /\ \A i \in DOMAIN got : got[i] = pushed[i] \/ (kind = "ssh" /\ got[i] = Cut)
  /\ (kind = "ssh" /\ wpc \in {"io", "read", "write"}) \/ (kind = "web" /\ ws = "self")
        => Len(got) + Len(inq) = Len(pushed)
  /\ kind = "web" => \A b \in Buttons : Down(b) <=> b \in buttons

(* Whenever the web client is about to take its next screenshot, the       *)
(* browser shows the last one although only the rectangle that changed was *)
(* sent, unless a picture codec failed.                                    *)
ScreenIsCurrent ==
  alive /\ kind = "web" /\ wpc = "stream" /\ WorkerIdle /\ active /\ here /\ exact /\ shot # <<>>
    => view.canvas = shot

(* What the clients promise their owner: the worker runs between connect   *)
(* and the return of disconnect, and what it shows is a legal display      *)
(* stream.  A connection through a tunnel is hidden: its client may be     *)
(* started after disconnect() has returned.                                *)
Hidden == kind \in {None, "tunnel"}
OwnerState ==
  CASE Hidden -> "before"
    [] ~Hidden /\ cpc = "loop" -> "using"
    [] ~Hidden /\ cpc \in {"d_signal", "d_ws", "join"} -> "leaving"
    [] OTHER -> "left"
WorkerState == IF Hidden THEN None ELSE IF WorkerDone THEN "ended" ELSE "running"
Contract ==
  INSTANCE DisplayClient
    WITH owner <- OwnerState, worker <- WorkerState,
         sized <- view.sized, open <- view.open, last <- view.last
ImplementsDisplayClient == Contract!Spec

(* disconnect() returns and the connection's thread ends, or the process   *)
(* has died.  Not so for RDP: a disconnect() that finds no instance        *)
(* signals nothing and joins a session that is just beginning.             *)
DisconnectReturns == cpc = "d_signal" /\ kind # "rdp" ~> cpc = "done" \/ ~alive
=============================================================================
