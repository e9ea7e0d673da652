------------------------------ MODULE IPv8Thread ------------------------------
(***************************************************************************)
(* The thread that runs the gossip of the application                      *)
(* (democracy/network/ipv8_thread.py).  The slots of its signals and       *)
(* stop() run on the user interface's thread and only put coroutines on    *)
(* the asyncio loop; the loop runs them in order, interleaved with its own *)
(* start-up, which awaits the start of IPv8.                               *)
(*                                                                         *)
(* Objects are numbered in the order in which the interface publishes      *)
(* them.                                                                   *)
(***************************************************************************)
EXTENDS Integers, Sequences

CONSTANT MaxObjects   \* bound on the objects published

ASSUME ThreadAssumption == MaxObjects \in Nat

Objects == 1..MaxObjects
StartTask == 0
StopTask == -1

VARIABLES
  app,        \* the interface's event loop runs
  published,  \* number of objects published so far
  loop,       \* _loop: "none", "open" or "closed"
  ready,      \* coroutines on the loop not yet begun
  start,      \* _start: "none", "queued", "awaiting", "done" or "failed"
  overlay,    \* _overlay is set
  ipv8,       \* _ipv8 is set
  pending,    \* _pending
  stopping,   \* "no", "asked", "awaiting" IPv8's stop, or the loop is to "stop"
  sent        \* what the overlay broadcast, in order
vars == <<app, published, loop, ready, start, overlay, ipv8, pending, stopping, sent>>

Init ==
  /\ app = TRUE /\ published = 0
  /\ loop = "none" /\ ready = <<>> /\ start = "none"
  /\ overlay = FALSE /\ ipv8 = FALSE
  /\ pending = <<>> /\ stopping = "no" /\ sent = <<>>

Loops == loop = "open" /\ start # "none"
Begins(task) == Loops /\ ready # <<>> /\ Head(ready) = task /\ ready' = Tail(ready)

-------------------------------------------------------------------------------
(***************************************************************************)
(* The user interface's thread.                                            *)
(***************************************************************************)

(* publish_* and _on_broadcast_*: dropped when there is no loop yet. *)
_on_broadcast ==
  /\ app /\ published < MaxObjects
  /\ published' = published + 1
  /\ ready' = IF loop = "none" THEN ready ELSE Append(ready, published')
  /\ UNCHANGED <<app, loop, start, overlay, ipv8, pending, stopping, sent>>

(* main's finally block: stop() does nothing when there is no loop yet. *)
stop ==
  /\ app
  /\ app' = FALSE
  /\ stopping' = IF loop = "none" THEN "no" ELSE "asked"
  /\ ready' = IF loop = "none" THEN ready ELSE Append(ready, StopTask)
  /\ UNCHANGED <<published, loop, start, overlay, ipv8, pending, sent>>

-------------------------------------------------------------------------------
(***************************************************************************)
(* The worker thread.                                                      *)
(***************************************************************************)

(* run() makes the loop visible, then schedules _start and loops.  What a  *)
(* slot handed over in between only becomes a task when the loop runs, so  *)
(* _start is the first to begin.                                           *)
NewLoop ==
  /\ loop = "none"
  /\ loop' = "open"
  /\ UNCHANGED <<app, published, ready, start, overlay, ipv8, pending, stopping, sent>>

RunForever ==
  /\ loop = "open" /\ start = "none"
  /\ start' = "queued"
  /\ ready' = <<StartTask>> \o ready
  /\ UNCHANGED <<app, published, loop, overlay, ipv8, pending, stopping, sent>>

(* _start_community up to the await, or the failure of what precedes it. *)
_start_community ==
  /\ Begins(StartTask)
  /\ \/ start' = "awaiting" /\ ipv8' = TRUE /\ UNCHANGED pending
     \/ start' = "failed" /\ pending' = <<>> /\ UNCHANGED ipv8
  /\ UNCHANGED <<app, published, loop, overlay, stopping, sent>>

(* Mutants: the queue is forgotten, is emptied from its end, or is taken   *)
(* from once without looking whether anything waits.                       *)
_flush_pending_Not == pending' = <<>> /\ sent' = sent
_flush_pending_Reversed ==
  /\ pending' = <<>>
  /\ sent' = sent \o [i \in 1..Len(pending) |-> pending[Len(pending) + 1 - i]]
_flush_pending_Blind ==
  LET o == IF pending = <<>> THEN 0 ELSE Head(pending)
  IN  pending' = <<>> /\ sent' = Append(sent, o)

_flush_pending == pending' = <<>> /\ sent' = sent \o pending

(* The start of IPv8 returns: nothing runs between setting the overlay and *)
(* emptying the queue.                                                     *)
Started ==
  /\ Loops /\ start = "awaiting"
  /\ start' = "done" /\ overlay' = TRUE
  /\ _flush_pending
  /\ UNCHANGED <<app, published, loop, ready, ipv8, stopping>>

StartFails ==
  /\ Loops /\ start = "awaiting"
  /\ start' = "failed"
  /\ pending' = <<>>
  /\ UNCHANGED <<app, published, loop, ready, overlay, ipv8, stopping, sent>>

(* A broadcast of the queue raises: the objects before it are out, it and  *)
(* the rest are dropped, and the overlay is set although the start failed. *)
FlushFails ==
  /\ Loops /\ start = "awaiting" /\ pending # <<>>
  /\ \E n \in 0..(Len(pending) - 1) : sent' = sent \o SubSeq(pending, 1, n)
  /\ start' = "failed" /\ overlay' = TRUE /\ pending' = <<>>
  /\ UNCHANGED <<app, published, loop, ready, ipv8, stopping>>

(* The coroutine a slot scheduled. *)
_do(o) ==
  /\ Begins(o)
  /\ IF overlay THEN sent' = Append(sent, o) /\ UNCHANGED pending
                ELSE pending' = Append(pending, o) /\ UNCHANGED sent
  /\ UNCHANGED <<app, published, loop, start, overlay, ipv8, stopping>>

_shutdown ==
  /\ Begins(StopTask)
  /\ stopping' = IF ipv8 THEN "awaiting" ELSE "stop"
  /\ UNCHANGED <<app, published, loop, start, overlay, ipv8, pending, sent>>

(* Mutant: the loop is stopped only once the overlay was there to be stopped. *)
IPv8Stopped_Overlay ==
  /\ Loops /\ stopping = "awaiting" /\ overlay
  /\ stopping' = "stop"
  /\ UNCHANGED <<app, published, loop, ready, start, overlay, ipv8, pending, sent>>

(* IPv8's stop returns or raises: the loop is stopped in either case. *)
IPv8Stopped ==
  /\ Loops /\ stopping = "awaiting"
  /\ stopping' = "stop"
  /\ UNCHANGED <<app, published, loop, ready, start, overlay, ipv8, pending, sent>>

(* run_forever returns and whatever is left is cancelled. *)
Cleanup ==
  /\ Loops /\ stopping = "stop"
  /\ loop' = "closed" /\ ready' = <<>>
  /\ UNCHANGED <<app, published, start, overlay, ipv8, pending, stopping, sent>>

Next ==
  \/ _on_broadcast \/ stop
  \/ NewLoop \/ RunForever
  \/ _start_community \/ Started \/ StartFails \/ FlushFails
  \/ \E o \in Objects : _do(o)
  \/ _shutdown \/ IPv8Stopped \/ Cleanup

Spec == Init /\ [][Next]_vars

(* The thread runs, its loop takes the next coroutine, and IPv8's start    *)
(* and stop return.  Nothing makes the user publish or leave.              *)
FairSpec ==
  /\ Spec
  /\ WF_vars(NewLoop) /\ WF_vars(RunForever)
  /\ WF_vars(_start_community \/ _shutdown \/ \E o \in Objects : _do(o))
  /\ WF_vars(Started \/ StartFails \/ FlushFails) /\ WF_vars(IPv8Stopped) /\ WF_vars(Cleanup)

-------------------------------------------------------------------------------
(***************************************************************************)
(* Properties.                                                             *)
(***************************************************************************)

(* Types of all the variables. *)
TypeOK ==
  /\ app \in BOOLEAN /\ published \in 0..MaxObjects
  /\ loop \in {"none", "open", "closed"}
  /\ ready \in Seq(Objects \cup {StartTask, StopTask})
  /\ start \in {"none", "queued", "awaiting", "done", "failed"}
  /\ overlay \in BOOLEAN /\ ipv8 \in BOOLEAN
  /\ pending \in Seq(Objects)
  /\ stopping \in {"no", "asked", "awaiting", "stop"}
  /\ sent \in Seq(Objects)

(* Objects leave in the order in which the interface published them, each  *)
(* at most once, whether they waited for the start or not: a vote never    *)
(* goes out before the issue it is about.                                  *)
SentInOrder == \A i, j \in 1..Len(sent) : i < j => sent[i] < sent[j]

(* Liveness: whatever a slot put on the loop goes out, unless the start-up *)
(* fails or the application ends.                                          *)
BroadcastsSent ==
  \A o \in Objects :
    (\E i \in 1..Len(ready) : ready[i] = o)
      ~> (\E i \in 1..Len(sent) : sent[i] = o) \/ start = "failed" \/ ~app

(* Liveness: a stop that found the loop ends the thread, whatever state    *)
(* the start-up was in.                                                    *)
ThreadEnds == (stopping # "no") ~> (loop = "closed")
===============================================================================
