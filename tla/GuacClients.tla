---------------------------- MODULE GuacClients ----------------------------
(***************************************************************************)
(* The protocol clients behind one browser connection of the gateway:      *)
(* GuacSshClient, GuacVncClient, GuacRdpClient, GuacWebClient and          *)
(* GuacHttpClient (guac_*.cpp).  Each runs one worker thread, worker_,     *)
(* which talks to the server and hands instructions to callback_; the      *)
(* thread that owns the client queues input and ends it with disconnect(). *)
(* A connection uses exactly one client, so one set of variables serves    *)
(* them all and "kind" says which it is ("tunnel" is GuacHttpClient        *)
(* started on a descriptor of connect_via_tunnel).  The owner is modelled  *)
(* in GuacGateway.                                                         *)
(*                                                                         *)
(* The protocol libraries (libssh2, libvncclient, FreeRDP, libcurl) and    *)
(* Chrome are external: a call into them is a step with every outcome the  *)
(* code distinguishes.  Pictures are cut to a grid of pixels, terminal     *)
(* output to "some bytes", and an image to one blob.                       *)
(***************************************************************************)
EXTENDS Integers, Sequences, FiniteSets, SequencesExt, FiniteSetsExt

CONSTANTS
  Height, Width,   \* size of a screenshot, in pixels
  Screens,         \* the screenshots Chrome may deliver
  MaxWork          \* bound: pictures and input frames per connection

Pixels == (1 .. Height) \X (1 .. Width)

ASSUME GridIsNonEmpty == Height \in Nat \ {0} /\ Width \in Nat \ {0}
ASSUME ScreensFillTheGrid == \A s \in Screens : s = [p \in Pixels |-> s[p]]
ASSUME WorkIsBounded == MaxWork \in Nat

VARIABLES
  kind,       \* the client the connection uses, "none" before connect()
  wpc,        \* the worker thread
  stop,       \* impl_->stop (ssh, vnc, web), abort_ (http)
  connected,  \* connected_
  held,       \* what the client has acquired and not released
  todo,       \* callback_ invocations the worker has still to make
  nextId,     \* next_stream_id
  inq,        \* input_queue: events not yet sent to the server
  pushed,     \* history: every event that was queued
  got,        \* history: every event the server received
  buttons,    \* prev_button_mask, as a set
  framesRead, \* frames read from the browser after the first
  shot,       \* the last screenshot Chrome delivered
  prev,       \* prev_pixels, None before the first
  exact,      \* history: no picture codec has failed
  cdp,        \* impl_->cdp_ws_fd is set
  ws,         \* whose socket the number of cdp_ws_fd denotes
  inst,       \* impl_->instance of the RDP client
  abort       \* FreeRDP's own disconnect request

inputVars == <<inq, pushed, got, buttons, framesRead>>
pictureVars == <<nextId, shot, prev, exact>>
webVars == <<cdp, ws>>
rdpVars == <<inst, abort>>
clientVars == <<kind, wpc, stop, connected, held, todo, inputVars, pictureVars, webVars, rdpVars>>

None == "none"
Buttons == {"left", "middle", "right"}

ClientInit ==
  /\ kind = None /\ wpc = None /\ stop = FALSE /\ connected = FALSE /\ held = {} /\ todo = <<>>
  /\ nextId = 1
  /\ inq = <<>> /\ pushed = <<>> /\ got = <<>> /\ buttons = {} /\ framesRead = 0
  /\ shot = <<>> /\ prev = <<>> /\ exact = TRUE
  /\ cdp = FALSE /\ ws = "unset"
  /\ inst = "null" /\ abort = FALSE

----------------------------------------------------------------------------
(* Instructions.  pic is the part of the screen a picture stream carries.  *)
Instr(op, id, pic) == [op |-> op, id |-> id, pic |-> pic]
SizeInstr == Instr("size", 0, <<>>)
Picture(id, pic) == <<Instr("img", id, pic), Instr("blob", id, pic), Instr("end", id, pic)>>

(* The worker steps when the callbacks of its last step have returned.     *)
Goto(from, to) == wpc = from /\ todo = <<>> /\ wpc' = to
Calls(instrs) == todo' = instrs
NoCalls == Calls(<<>>)

MayWork == nextId - 1 + framesRead < MaxWork

(* connect(): a fresh worker.  The HTTP client is "connected" at once.     *)
FirstStage ==
  [ssh |-> "init", vnc |-> "rfb_new", rdp |-> "rdp_new", web |-> "fork",
   http |-> "curl", tunnel |-> "curl"]
StartWorker(k) ==
  /\ wpc' = FirstStage[k]
  /\ connected' = (k \in {"http", "tunnel"})
  /\ stop' = FALSE

----------------------------------------------------------------------------
(* GuacSshClient: run_event_loop / run_event_loop_key, run_io_loop.  Its   *)
(* one stream, number 0 in the code, is 1 here: 0 means that none is open. *)

SshNext ==
  [init |-> "tcp", tcp |-> "session", session |-> "handshake", handshake |-> "auth",
   auth |-> "channel", channel |-> "pty", pty |-> "shell", shell |-> "io"]
SshGains(stage) ==
  CASE stage = "tcp" -> {"sock"}
    [] stage \in {"session", "channel"} -> {stage}
    [] OTHER -> {}

(* No stage of the set-up looks at stop: the handshake and the others spin *)
(* on EAGAIN until the server answers.                                     *)
SshSetUp(stage) ==
  /\ Goto(stage, SshNext[stage])
  /\ held' = held \cup SshGains(stage)
  /\ connected' = (stage = "shell")
  /\ Calls(IF stage = "shell" THEN <<SizeInstr, Instr("pipe", 1, <<>>)>> ELSE <<>>)
  /\ UNCHANGED <<kind, stop, inputVars, pictureVars, webVars, rdpVars>>

SshSetUpFails(stage) ==
  /\ Goto(stage, "exited") /\ held' = {}
  /\ UNCHANGED <<kind, stop, connected, todo, inputVars, pictureVars, webVars, rdpVars>>

SshLoop ==
  /\ Goto("io", IF stop THEN "io_end" ELSE "read")
  /\ UNCHANGED <<kind, stop, connected, held, todo, inputVars, pictureVars, webVars, rdpVars>>

(* channel_read until EAGAIN: terminal output, if any, or end of file.     *)
SshRead ==
  /\ \/ Goto("read", "write") /\ \E out \in {<<>>, <<Instr("blob", 1, <<>>)>>} : Calls(out)
     \/ Goto("read", "io_end") /\ NoCalls
  /\ UNCHANGED <<kind, stop, connected, held, inputVars, pictureVars, webVars, rdpVars>>

(* The queue drained into the channel, or channel_eof seen after that.     *)
SshWriteDone ==
  /\ Goto("write", "io") \/ Goto("write", "io_end")
  /\ inq = <<>>
  /\ UNCHANGED <<kind, stop, connected, held, todo, inputVars, pictureVars, webVars, rdpVars>>

(* The front is written and popped, also when channel_write took only part *)
(* of it (Cut); EAGAIN leaves it for the next round.                       *)
Cut == "cut"
SshWrite ==
  /\ Goto("write", "write") /\ inq # <<>>
  /\ \E taken \in {Head(inq), Cut} : got' = Append(got, taken)
  /\ inq' = Tail(inq)
  /\ UNCHANGED <<kind, stop, connected, held, todo, pushed, buttons, framesRead, pictureVars, webVars, rdpVars>>
SshWriteAgain ==
  /\ Goto("write", "io") /\ inq # <<>>
  /\ UNCHANGED <<kind, stop, connected, held, todo, inputVars, pictureVars, webVars, rdpVars>>
SshWriteFails ==
  /\ Goto("write", "io_end") /\ inq # <<>> /\ inq' = Tail(inq)
  /\ UNCHANGED <<kind, stop, connected, held, todo, pushed, got, buttons, framesRead,
                 pictureVars, webVars, rdpVars>>

SshEnd ==
  /\ Goto("io_end", "teardown") /\ connected' = FALSE /\ Calls(<<Instr("end", 1, <<>>)>>)
  /\ UNCHANGED <<kind, stop, held, inputVars, pictureVars, webVars, rdpVars>>
SshTeardown ==
  /\ Goto("teardown", "exited") /\ held' = {}
  /\ UNCHANGED <<kind, stop, connected, todo, inputVars, pictureVars, webVars, rdpVars>>

SshStep ==
  \/ \E stage \in DOMAIN SshNext : SshSetUp(stage) \/ SshSetUpFails(stage)
  \/ SshLoop \/ SshRead \/ SshWriteDone \/ SshWrite \/ SshWriteAgain \/ SshWriteFails
  \/ SshEnd \/ SshTeardown

----------------------------------------------------------------------------
(* GuacVncClient: run_event_loop and its callbacks.                        *)

VncNew ==
  /\ \/ Goto("rfb_new", "rfb_init") /\ held' = {"rfb"}
     \/ Goto("rfb_new", "exited") /\ UNCHANGED held
  /\ UNCHANGED <<kind, stop, connected, todo, inputVars, pictureVars, webVars, rdpVars>>

(* rfbInitClient allocates the framebuffer (malloc_framebuffer announces   *)
(* its size); when it fails, before or after that, it has freed the client.*)
VncConnectUnsized ==   \* mutant: malloc_framebuffer does not announce the size
  /\ Goto("rfb_init", "rfb_loop") /\ connected' = TRUE /\ NoCalls
  /\ held' = held \cup {"framebuffer"}
  /\ UNCHANGED <<kind, stop, inputVars, pictureVars, webVars, rdpVars>>
VncConnect ==
  /\ Goto("rfb_init", "rfb_loop") /\ connected' = TRUE /\ Calls(<<SizeInstr>>)
  /\ held' = held \cup {"framebuffer"}
  /\ UNCHANGED <<kind, stop, inputVars, pictureVars, webVars, rdpVars>>
VncConnectFails ==
  /\ Goto("rfb_init", "rfb_failed") /\ held' = {} /\ \E out \in {<<>>, <<SizeInstr>>} : Calls(out)
  /\ UNCHANGED <<kind, stop, connected, inputVars, pictureVars, webVars, rdpVars>>

(* WaitForMessage times out, or HandleRFBServerMessage calls got_update    *)
(* (flush_dirty_region) or, on a resize, malloc_framebuffer.               *)
VncMessage ==
  /\ Goto("rfb_loop", "rfb_loop") /\ ~stop
  /\ \/ MayWork /\ nextId' = nextId + 1 /\ Calls(Picture(nextId, <<>>))
     \/ UNCHANGED nextId /\ Calls(<<SizeInstr>>)
  /\ UNCHANGED <<kind, stop, connected, held, inputVars, shot, prev, exact, webVars, rdpVars>>

(* stop, an error of the wait, or of the message; then the clean-up.       *)
VncEnd ==
  /\ Goto("rfb_loop", "rfb_end") /\ connected' = FALSE
  /\ UNCHANGED <<kind, stop, held, todo, inputVars, pictureVars, webVars, rdpVars>>
VncCleanUp ==
  /\ Goto("rfb_end", "exited") \/ Goto("rfb_failed", "exited")
  /\ held' = {}
  /\ UNCHANGED <<kind, stop, connected, todo, inputVars, pictureVars, webVars, rdpVars>>

VncStep == VncNew \/ VncConnect \/ VncConnectFails \/ VncMessage \/ VncEnd \/ VncCleanUp

----------------------------------------------------------------------------
(* GuacRdpClient: run_event_loop and the FreeRDP callbacks.  There is no   *)
(* stop flag: disconnect() asks FreeRDP itself (abort), through the        *)
(* pointer impl_->instance that this thread sets and clears.               *)

RdpNew ==
  /\ \/ Goto("rdp_new", "rdp_context") /\ inst' = "live" /\ held' = {"instance"}
     \/ Goto("rdp_new", "exited") /\ UNCHANGED <<inst, held>>
  /\ UNCHANGED <<kind, stop, connected, todo, inputVars, pictureVars, webVars, abort>>

(* freerdp_context_new, then the settings.  freerdp_connect starts afresh: *)
(* it forgets a request made before it was called (external).              *)
RdpContext ==
  /\ Goto("rdp_context", "rdp_connect") /\ held' = held \cup {"context"} /\ abort' = FALSE
  /\ UNCHANGED <<kind, stop, connected, todo, inputVars, pictureVars, webVars, inst>>

(* post_connect sets up the GDI, connected_ and announces the size.        *)
RdpConnect ==
  /\ Goto("rdp_connect", "rdp_loop") /\ ~abort
  /\ held' = held \cup {"gdi"} /\ connected' = TRUE /\ Calls(<<SizeInstr>>)
  /\ UNCHANGED <<kind, stop, inputVars, pictureVars, webVars, rdpVars>>

(* end_paint with a dirty region: flush_dirty_region.                      *)
RdpPaint ==
  /\ Goto("rdp_loop", "rdp_loop") /\ ~abort
  /\ MayWork /\ nextId' = nextId + 1 /\ Calls(Picture(nextId, <<>>))
  /\ UNCHANGED <<kind, stop, connected, held, inputVars, shot, prev, exact, webVars, rdpVars>>

(* The loop ends when FreeRDP says so: asked to disconnect, or an error.   *)
RdpLoopEnds ==
  /\ Goto("rdp_loop", "rdp_end")
  /\ UNCHANGED <<kind, stop, connected, held, todo, inputVars, pictureVars, webVars, rdpVars>>
RdpEnd ==
  /\ Goto("rdp_end", "rdp_free") /\ held' = held \ {"gdi"} /\ connected' = FALSE
  /\ UNCHANGED <<kind, stop, todo, inputVars, pictureVars, webVars, rdpVars>>

(* A failed set-up or the end: everything is freed, the pointer after it.  *)
RdpFree ==
  /\ Goto("rdp_free", "rdp_null") \/ Goto("rdp_context", "rdp_null") \/ Goto("rdp_connect", "rdp_null")
  /\ held' = {} /\ inst' = "freed"
  /\ UNCHANGED <<kind, stop, connected, todo, inputVars, pictureVars, webVars, abort>>
RdpNull ==
  /\ Goto("rdp_null", "exited") /\ inst' = "null" /\ connected' = FALSE
  /\ UNCHANGED <<kind, stop, held, todo, inputVars, pictureVars, webVars, abort>>

RdpStep ==
  \/ RdpNew \/ RdpContext \/ RdpConnect \/ RdpPaint \/ RdpLoopEnds \/ RdpEnd
  \/ RdpFree \/ RdpNull

----------------------------------------------------------------------------
(* GuacWebClient: run_event_loop, drain_input_queue, flush_delta.  ws says *)
(* what the number in ws_fd denotes: this client's socket, alive ("self")  *)
(* or at its end ("eof"), nothing ("free"), somebody else's socket         *)
(* ("other"), or one a second close() of ours took from them ("struck").   *)

(* Chrome is forked unless something listens on the port already.          *)
WebFork ==
  /\ \/ Goto("fork", "url") /\ held' = {"chrome"}
     \/ Goto("fork", "url") /\ UNCHANGED held
     \/ Goto("fork", "exited") /\ UNCHANGED held
  /\ UNCHANGED <<kind, stop, connected, todo, inputVars, pictureVars, webVars, rdpVars>>

(* get_cdp_ws_url retries for 5 s, then connect_cdp_ws.                    *)
WebUrl ==
  /\ Goto("url", "ws_connect") /\ ~stop
  /\ UNCHANGED <<kind, stop, connected, held, todo, inputVars, pictureVars, webVars, rdpVars>>
WebGivesUp ==
  /\ Goto("url", "exited") \/ Goto("ws_connect", "exited")
  /\ UNCHANGED <<kind, stop, connected, held, todo, inputVars, pictureVars, webVars, rdpVars>>
WebConnect ==
  /\ Goto("ws_connect", "enable") /\ held' = held \cup {"ws"} /\ cdp' = TRUE /\ ws' = "self"
  /\ UNCHANGED <<kind, stop, connected, todo, inputVars, pictureVars, rdpVars>>

(* close(ws_fd), whatever the number denotes by now.                       *)
CloseWs(whose) ==
  CASE whose \in {"self", "eof"} -> "free"
    [] whose = "other" -> "struck"
    [] OTHER -> whose
AfterCloseWs == IF ws \in {"self", "eof"} THEN held \ {"ws"} ELSE held

(* cdp_recv: an answer, or "" because the socket ended or was closed.      *)
Answered == ws = "self" /\ UNCHANGED ws
RecvFails == ws' = IF ws = "self" THEN "eof" ELSE ws

WebEnable ==
  /\ Goto("enable", "load") /\ ~stop /\ (Answered \/ RecvFails)
  /\ UNCHANGED <<kind, stop, connected, held, todo, inputVars, pictureVars, cdp, rdpVars>>
WebEnableStopped ==
  /\ Goto("enable", "exited") /\ stop
  /\ ws' = CloseWs(ws) /\ held' = AfterCloseWs /\ cdp' = FALSE
  /\ UNCHANGED <<kind, stop, connected, todo, inputVars, pictureVars, rdpVars>>

WebLoaded ==
  /\ Goto("load", "stream") /\ ~stop /\ Answered /\ connected' = TRUE /\ Calls(<<SizeInstr>>)
  /\ UNCHANGED <<kind, stop, held, inputVars, pictureVars, cdp, rdpVars>>
WebNotLoaded ==
  /\ Goto("load", "stream") /\ IF stop THEN UNCHANGED ws ELSE RecvFails
  /\ UNCHANGED <<kind, stop, connected, held, todo, inputVars, pictureVars, cdp, rdpVars>>

WebStream ==
  /\ Goto("stream", IF stop THEN "ws_close" ELSE "drain")
  /\ UNCHANGED <<kind, stop, connected, held, todo, inputVars, pictureVars, webVars, rdpVars>>

(* The front is popped before it is sent; the answer is awaited after.     *)
WebSend ==
  /\ Goto("drain", "ack") /\ inq # <<>> /\ inq' = Tail(inq)
  /\ got' = IF ws = "self" THEN Append(got, Head(inq)) ELSE got
  /\ UNCHANGED <<kind, stop, connected, held, todo, pushed, buttons, framesRead, pictureVars, webVars, rdpVars>>
WebAck ==
  /\ \/ Goto("ack", "drain") /\ IF stop THEN UNCHANGED ws ELSE Answered
     \/ Goto("ack", "ws_close") /\ ~stop /\ RecvFails
  /\ UNCHANGED <<kind, stop, connected, held, todo, inputVars, pictureVars, cdp, rdpVars>>
WebCapture ==
  /\ Goto("drain", "shot") /\ inq = <<>>
  /\ UNCHANGED <<kind, stop, connected, held, todo, inputVars, pictureVars, webVars, rdpVars>>
WebNoShot ==
  /\ \/ Goto("shot", "stream") /\ IF stop THEN UNCHANGED ws ELSE Answered
     \/ Goto("shot", "ws_close") /\ ~stop /\ RecvFails
  /\ UNCHANGED <<kind, stop, connected, held, todo, inputVars, pictureVars, cdp, rdpVars>>

(* flush_delta: the rectangle around the pixels that changed since the     *)
(* last decoded screenshot, or all of it from 75% on.                      *)
ChangedButLastColumn(old, new) ==   \* mutant: the scan stops at width - 1
  {p \in Pixels : p[2] < Width /\ old[p] # new[p]}
Changed(old, new) == {p \in Pixels : old[p] # new[p]}
Bounding(S) ==
  LET rows == {p[1] : p \in S}
      cols == {p[2] : p \in S}
  IN (Min(rows) .. Max(rows)) \X (Min(cols) .. Max(cols))
DirtyRect(old, new) ==
  IF old = <<>> THEN Pixels
  ELSE LET r == Bounding(Changed(old, new))
       IN IF Cardinality(r) * 4 >= Cardinality(Pixels) * 3 THEN Pixels ELSE r

(* encode_rect_jpeg: the rectangle, or the whole screenshot when it spans  *)
(* the full width from the top left corner.  If the encoder fails, the     *)
(* whole screenshot is sent all the same, for the corner of the rectangle. *)
EncodeRect(new, rect, encoded) ==
  LET top == Min({p[1] : p \in rect})
      left == Min({p[2] : p \in rect})
      whole == top = 1 /\ left = 1 /\ (1 .. Width) = {p[2] : p \in rect}
      moved == {p \in Pixels : p[1] >= top /\ p[2] >= left}
  IN IF whole THEN new
     ELSE IF encoded THEN [p \in rect |-> new[p]]
     ELSE [p \in moved |-> new[<<p[1] - top + 1, p[2] - left + 1>>]]

(* codec: "ok", or which conversion failed (base64, JPEG decode, encode).  *)
FlushDelta(new, codec) ==
  LET same == prev # <<>> /\ Changed(prev, new) = {}
      rect == DirtyRect(prev, new)
  IN CASE codec = "base64" -> NoCalls /\ UNCHANGED prev /\ exact' = FALSE
       [] codec = "decode" -> Calls(Picture(nextId, new)) /\ UNCHANGED prev /\ exact' = FALSE
       [] codec \in {"ok", "encode"} /\ same -> NoCalls /\ UNCHANGED <<prev, exact>>
       [] codec \in {"ok", "encode"} /\ ~same ->
            /\ Calls(Picture(nextId, EncodeRect(new, rect, codec = "ok")))
            /\ prev' = new /\ exact' = (exact /\ codec = "ok")
Codecs == {"ok", "base64", "decode", "encode"}

WebShot(new, codec) ==
  /\ Goto("shot", "stream") /\ ~stop /\ Answered
  /\ MayWork /\ nextId' = nextId + 1
  /\ shot' = new /\ FlushDelta(new, codec)
  /\ UNCHANGED <<kind, stop, connected, held, inputVars, cdp, rdpVars>>

WebClose ==
  /\ Goto("ws_close", "exited") /\ connected' = FALSE
  /\ ws' = CloseWs(ws) /\ held' = AfterCloseWs /\ cdp' = FALSE
  /\ UNCHANGED <<kind, stop, todo, inputVars, pictureVars, rdpVars>>

WebStep ==
  \/ WebFork \/ WebUrl \/ WebGivesUp \/ WebConnect \/ WebEnable \/ WebEnableStopped
  \/ WebLoaded \/ WebNotLoaded \/ WebStream \/ WebSend \/ WebAck \/ WebCapture
  \/ WebNoShot \/ (\E new \in Screens, codec \in Codecs : WebShot(new, codec)) \/ WebClose

(* The number of a closed ws_fd is given to another socket of the process. *)
ReuseWs ==
  /\ wpc # "exited" /\ ws = "free" /\ ws' = "other"
  /\ UNCHANGED <<kind, wpc, stop, connected, held, todo, inputVars, pictureVars, cdp, rdpVars>>

----------------------------------------------------------------------------
(* GuacHttpClient: run_request, and run_request_fd on a tunnel descriptor, *)
(* which libcurl owns once it has asked for it (opensocket_cb).            *)

HttpInit ==
  /\ Goto("curl", "perform") /\ held' = held \cup {"curl"}
  /\ UNCHANGED <<kind, stop, connected, todo, inputVars, pictureVars, webVars, rdpVars>>
HttpInitFails ==
  /\ Goto("curl", "curl_fail") /\ Calls(<<Instr("error", 0, <<>>)>>)
  /\ UNCHANGED <<kind, stop, connected, held, inputVars, pictureVars, webVars, rdpVars>>
HttpGivesUp ==
  /\ Goto("curl_fail", "exited") /\ held' = {} /\ connected' = FALSE
  /\ UNCHANGED <<kind, stop, todo, inputVars, pictureVars, webVars, rdpVars>>

(* curl_easy_perform is not interrupted by abort_; its result is dropped.  *)
HttpPerform(ok, taken) ==
  /\ Goto("perform", "cleanup") /\ (ok => taken)
  /\ held' = IF taken /\ "pre_fd" \in held THEN (held \ {"pre_fd"}) \cup {"curl_fd"} ELSE held
  /\ Calls(IF stop THEN <<>> ELSE <<Instr(IF ok THEN "response" ELSE "error", 0, <<>>)>>)
  /\ UNCHANGED <<kind, stop, connected, inputVars, pictureVars, webVars, rdpVars>>
HttpCleanUp ==
  /\ Goto("cleanup", "exited") /\ held' = held \ {"curl", "curl_fd"} /\ connected' = FALSE
  /\ UNCHANGED <<kind, stop, todo, inputVars, pictureVars, webVars, rdpVars>>

HttpStep ==
  \/ HttpInit \/ HttpInitFails \/ HttpGivesUp \/ HttpCleanUp
  \/ \E ok, taken \in BOOLEAN : HttpPerform(ok, taken)

WorkerStep == SshStep \/ VncStep \/ RdpStep \/ WebStep \/ HttpStep
=============================================================================
