---------------------------- MODULE DisplayClient ----------------------------
(***************************************************************************)
(* What the gateway may rely on from any Guac*Client: instructions reach   *)
(* the browser only from a worker thread that runs between connect() and   *)
(* the return of disconnect(), and they form a legal display stream: a     *)
(* size before the first picture, pictures with ever larger stream ids,    *)
(* one at a time, each as img (or pipe), blobs, end.                       *)
(***************************************************************************)
EXTENDS Naturals

VARIABLES
  owner,    \* the thread that owns the client object
  worker,   \* the client's worker_ thread
  sized,    \* the browser has a canvas
  open,     \* the stream being received, 0 if none
  last      \* the largest stream id seen

vars == <<owner, worker, sized, open, last>>
shown == <<sized, open, last>>

Init == owner = "before" /\ worker = "none" /\ ~sized /\ open = 0 /\ last = 0

(* connect(): the worker starts.  disconnect(): begins, and returns only   *)
(* when there is no running worker.                                        *)
Connect == owner = "before" /\ owner' = "using" /\ worker' = "running" /\ UNCHANGED shown
Leave == owner = "using" /\ owner' = "leaving" /\ UNCHANGED <<worker, shown>>
Return == owner = "leaving" /\ worker = "ended" /\ owner' = "left" /\ UNCHANGED <<worker, shown>>
End == worker = "running" /\ worker' = "ended" /\ UNCHANGED <<owner, shown>>

Showing == worker = "running" /\ UNCHANGED <<owner, worker>>

Size == Showing /\ open = 0 /\ sized' = TRUE /\ UNCHANGED <<open, last>>
Begin == Showing /\ sized /\ open = 0 /\ open' > last /\ last' = open' /\ UNCHANGED sized
Finish == Showing /\ open # 0 /\ open' = 0 /\ UNCHANGED <<sized, last>>

Next == Connect \/ Leave \/ Return \/ End \/ Size \/ Begin \/ Finish

Spec == Init /\ [][Next]_vars
=============================================================================
