---------------------------- MODULE RtpReceiver -----------------------------
(***************************************************************************)
(* The three threads of the RTP receiver                                   *)
(* (apps/rtp_recv/pipeline_multi_threaded.cpp): the receive thread turns   *)
(* packets into frames and pushes them into decode_slot, the decode thread *)
(* pops them, decodes them and pushes the result into render_slot, and the *)
(* main thread presents what it finds there.  Any of them may raise        *)
(* stop_flag: the receive thread on a socket error, the decode thread at   *)
(* max_frames, the main thread when the window closes.                     *)
(*                                                                         *)
(* Frames are numbered as the frame handler emits them.  Packets that end  *)
(* no frame, and polls that time out, change nothing and have no action.   *)
(* Nobody waits on render_slot, so its notify calls have no effect.        *)
(***************************************************************************)
EXTENDS Integers

CONSTANTS
  NFrames,    \* bound: frames the handler emits
  MaxFrames,  \* opts.max_frames, 0 for no limit
  None

ASSUME ReceiverAssumption ==
  /\ NFrames \in Nat /\ MaxFrames \in Nat
  /\ None \notin 0 .. NFrames

VARIABLES
  stop_flag,
  decode_slot, decode_evictions, decode_waiter,
  render_slot, render_evictions, render_waiter,
  recv_pc, recv_item,       \* the receive thread, and the frame it is pushing
  decode_pc, decode_item,   \* the decode thread, and the frame it works on
  main_pc,
  frames_emitted_to_decode, frames_decoded, frames_failed,
  presented,  \* number of frames the main loop took
  discarded,  \* decoded frames thrown away after the joins
  shown       \* the frame presented last, 0 before the first

decodeVars == <<decode_slot, decode_evictions, decode_waiter>>
renderVars == <<render_slot, render_evictions, render_waiter>>
recvVars   == <<recv_pc, recv_item>>
workVars   == <<decode_pc, decode_item>>
showVars   == <<presented, discarded, shown>>
counters   == <<frames_emitted_to_decode, frames_decoded, frames_failed>>

vars == <<stop_flag, decodeVars, renderVars, recvVars, workVars, main_pc, counters, showVars>>

DecodeSlot == INSTANCE LatestSlot WITH
  slot <- decode_slot, evictions <- decode_evictions, waiter <- decode_waiter
RenderSlot == INSTANCE LatestSlot WITH
  slot <- render_slot, evictions <- render_evictions, waiter <- render_waiter

Init ==
  /\ stop_flag = FALSE
  /\ DecodeSlot!Init /\ RenderSlot!Init
  /\ recv_pc = "poll" /\ recv_item = None
  /\ decode_pc = "loop" /\ decode_item = None
  /\ main_pc = "loop"
  /\ frames_emitted_to_decode = 0 /\ frames_decoded = 0 /\ frames_failed = 0
  /\ presented = 0 /\ discarded = 0 /\ shown = 0

-----------------------------------------------------------------------------
(* recv_thread_main. *)

RecvGo(from, to) == recv_pc = from /\ recv_pc' = to

\* The loop condition, and wait_readable: an error, or packets to drain.
RecvPoll ==
  /\ \/ stop_flag /\ RecvGo("poll", "done")
     \/ ~ stop_flag /\ (RecvGo("poll", "drain") \/ RecvGo("poll", "error"))
  /\ UNCHANGED <<stop_flag, decodeVars, renderVars, recv_item, workVars, main_pc, counters,
                 showVars>>

\* recv found the kernel buffer empty, or failed.
RecvDrained ==
  /\ RecvGo("drain", "poll") \/ RecvGo("drain", "error")
  /\ UNCHANGED <<stop_flag, decodeVars, renderVars, recv_item, workVars, main_pc, counters,
                 showVars>>

\* The packet completed a frame.
RecvFrame ==
  /\ frames_emitted_to_decode < NFrames
  /\ RecvGo("drain", "push")
  /\ frames_emitted_to_decode' = frames_emitted_to_decode + 1
  /\ recv_item' = frames_emitted_to_decode'
  /\ UNCHANGED <<stop_flag, decodeVars, renderVars, workVars, main_pc, frames_decoded,
                 frames_failed, showVars>>

RecvPush ==
  /\ RecvGo("push", "notify")
  /\ DecodeSlot!Push(recv_item)
  /\ recv_item' = None
  /\ UNCHANGED <<stop_flag, renderVars, workVars, main_pc, counters, showVars>>

\* Mutant: push does not notify.
RecvSkipsNotify ==
  /\ RecvGo("notify", "drain")
  /\ UNCHANGED <<stop_flag, decodeVars, renderVars, recv_item, workVars, main_pc, counters,
                 showVars>>

RecvNotify ==
  /\ RecvGo("notify", "drain")
  /\ DecodeSlot!Notify
  /\ UNCHANGED <<stop_flag, renderVars, recv_item, workVars, main_pc, counters, showVars>>

\* A socket error: store the flag, then notify, then return.
RecvError ==
  /\ RecvGo("error", "wake")
  /\ stop_flag' = TRUE
  /\ UNCHANGED <<decodeVars, renderVars, recv_item, workVars, main_pc, counters, showVars>>

RecvWake ==
  /\ RecvGo("wake", "done")
  /\ DecodeSlot!Notify
  /\ UNCHANGED <<stop_flag, renderVars, recv_item, workVars, main_pc, counters, showVars>>

-----------------------------------------------------------------------------
(* decode_thread_main. *)

DecodeGo(from, to) == decode_pc = from /\ decode_pc' = to

DecodeLoop ==
  /\ IF stop_flag THEN DecodeGo("loop", "done") ELSE DecodeGo("loop", "pop")
  /\ UNCHANGED <<stop_flag, decodeVars, renderVars, recvVars, decode_item, main_pc, counters,
                 showVars>>

\* pop_wait, in the pieces LatestSlot gives it.
DecodePop ==
  /\ \/ /\ DecodeGo("pop", "work")
        /\ DecodeSlot!PopWaitTakes
        /\ decode_item' = decode_slot
     \/ /\ DecodeGo("pop", "done")
        /\ DecodeSlot!PopWaitStops(stop_flag)
        /\ UNCHANGED decode_item
     \/ /\ DecodeGo("pop", "pop")
        /\ DecodeSlot!PopWaitCommits(stop_flag) \/ DecodeSlot!PopWaitBlocks
        /\ UNCHANGED decode_item
  /\ UNCHANGED <<stop_flag, renderVars, recvVars, main_pc, counters, showVars>>

\* Coefficients, init, parse or the decode itself fail: the frame is counted
\* and the loop goes on.
DecodeFails ==
  /\ DecodeGo("work", "loop")
  /\ frames_failed' = frames_failed + 1
  /\ decode_item' = None
  /\ UNCHANGED <<stop_flag, decodeVars, renderVars, recvVars, main_pc,
                 frames_emitted_to_decode, frames_decoded, showVars>>

DecodeSucceeds ==
  /\ DecodeGo("work", "push")
  /\ frames_decoded' = frames_decoded + 1
  /\ UNCHANGED <<stop_flag, decodeVars, renderVars, recvVars, decode_item, main_pc,
                 frames_emitted_to_decode, frames_failed, showVars>>

DecodePush ==
  /\ DecodeGo("push", "limit")
  /\ RenderSlot!Push(decode_item)
  /\ decode_item' = None
  /\ UNCHANGED <<stop_flag, decodeVars, recvVars, main_pc, counters, showVars>>

\* Mutants: the limit is off by one; the thread returns without raising the flag.
DecodeLimitLate ==
  /\ IF MaxFrames > 0 /\ frames_decoded > MaxFrames
     THEN DecodeGo("limit", "done") /\ stop_flag' = TRUE
     ELSE DecodeGo("limit", "loop") /\ UNCHANGED stop_flag
  /\ UNCHANGED <<decodeVars, renderVars, recvVars, decode_item, main_pc, counters, showVars>>
DecodeLimitQuiet ==
  /\ IF MaxFrames > 0 /\ frames_decoded >= MaxFrames
     THEN DecodeGo("limit", "done") ELSE DecodeGo("limit", "loop")
  /\ UNCHANGED <<stop_flag, decodeVars, renderVars, recvVars, decode_item, main_pc, counters,
                 showVars>>

DecodeLimit ==
  /\ IF MaxFrames > 0 /\ frames_decoded >= MaxFrames
     THEN DecodeGo("limit", "done") /\ stop_flag' = TRUE
     ELSE DecodeGo("limit", "loop") /\ UNCHANGED stop_flag
  /\ UNCHANGED <<decodeVars, renderVars, recvVars, decode_item, main_pc, counters, showVars>>

-----------------------------------------------------------------------------
(* run_receiver_threaded, from the start of the threads on. *)

MainGo(from, to) == main_pc = from /\ main_pc' = to

\* The loop condition.
MainChecks ==
  /\ IF stop_flag THEN MainGo("loop", "stop") ELSE MainGo("loop", "events")
  /\ UNCHANGED <<stop_flag, decodeVars, renderVars, recvVars, workVars, counters, showVars>>

\* poll_events, and the window should close.
MainLeaves ==
  /\ MainGo("events", "close")
  /\ stop_flag' = TRUE
  /\ UNCHANGED <<decodeVars, renderVars, recvVars, workVars, counters, showVars>>

MainCloses ==
  /\ MainGo("close", "stop")
  /\ DecodeSlot!Notify
  /\ UNCHANGED <<stop_flag, renderVars, recvVars, workVars, counters, showVars>>

\* Mutant: the frame is presented without has_value().
MainPresentsUnchecked ==
  /\ MainGo("events", "loop")
  /\ RenderSlot!TryPop
  /\ shown' = render_slot
  /\ presented' = presented + 1
  /\ UNCHANGED <<stop_flag, decodeVars, recvVars, workVars, counters, discarded>>

\* try_pop, and the frame it finds is presented (or dropped, without a renderer).
MainPresents ==
  /\ MainGo("events", "loop")
  /\ RenderSlot!TryPop
  /\ IF render_slot = None THEN UNCHANGED <<shown, presented>>
     ELSE shown' = render_slot /\ presented' = presented + 1
  /\ UNCHANGED <<stop_flag, decodeVars, recvVars, workVars, counters, discarded>>

MainStops ==
  /\ MainGo("stop", "notify")
  /\ stop_flag' = TRUE
  /\ UNCHANGED <<decodeVars, renderVars, recvVars, workVars, counters, showVars>>

MainNotifies ==
  /\ MainGo("notify", "join_decode")
  /\ DecodeSlot!Notify
  /\ UNCHANGED <<stop_flag, renderVars, recvVars, workVars, counters, showVars>>

MainJoinsDecode ==
  /\ MainGo("join_decode", "join_recv")
  /\ decode_pc = "done"
  /\ UNCHANGED <<stop_flag, decodeVars, renderVars, recvVars, workVars, counters, showVars>>

\* The second join, and the try_pop that empties the render slot.
MainJoinsRecv ==
  /\ MainGo("join_recv", "done")
  /\ recv_pc = "done"
  /\ discarded' = discarded + (IF render_slot # None THEN 1 ELSE 0)
  /\ RenderSlot!TryPop
  /\ UNCHANGED <<stop_flag, decodeVars, recvVars, workVars, counters, presented, shown>>

-----------------------------------------------------------------------------
\* condition_variable::wait may return without a notification.
SpuriousWakeup ==
  /\ DecodeSlot!Notify
  /\ UNCHANGED <<stop_flag, renderVars, recvVars, workVars, main_pc, counters, showVars>>

RecvStep   == RecvPoll \/ RecvDrained \/ RecvFrame \/ RecvPush \/ RecvNotify \/ RecvError
              \/ RecvWake
DecodeStep == DecodeLoop \/ DecodePop \/ DecodeFails \/ DecodeSucceeds \/ DecodePush
              \/ DecodeLimit
MainStep   == MainChecks \/ MainLeaves \/ MainCloses \/ MainPresents \/ MainStops
              \/ MainNotifies \/ MainJoinsDecode \/ MainJoinsRecv

Next == RecvStep \/ DecodeStep \/ MainStep \/ SpuriousWakeup

Spec == Init /\ [][Next]_vars

\* Each thread is scheduled; nobody is obliged to close the window.  That the
\* receive thread finds the kernel buffer empty again and again is what the
\* comment in its drain loop relies on.
MainWorks == MainStep /\ main_pc' # "close"
Fairness == WF_vars(RecvStep) /\ WF_vars(DecodeStep) /\ WF_vars(MainWorks)
FairSpec == Spec /\ Fairness

-----------------------------------------------------------------------------
(* Properties. *)

Frames == 1 .. NFrames

TypeOK ==
  /\ stop_flag \in BOOLEAN
  /\ DecodeSlot!TypeOK(Frames) /\ RenderSlot!TypeOK(Frames)
  /\ recv_pc \in {"poll", "drain", "push", "notify", "error", "wake", "done"}
  /\ decode_pc \in {"loop", "pop", "work", "push", "limit", "done"}
  /\ main_pc \in {"loop", "events", "close", "stop", "notify", "join_decode", "join_recv", "done"}
  /\ {recv_item, decode_item} \subseteq Frames \cup {None}
  /\ {frames_emitted_to_decode, frames_decoded, frames_failed, presented, discarded}
       \subseteq 0 .. NFrames
  /\ shown \in 0 .. NFrames

One(x) == IF x # None THEN 1 ELSE 0

\* The exit summary adds up at every moment: a frame the handler emitted is on
\* its way into the decode slot, in it, evicted from it, being decoded, failed
\* or decoded; a decoded frame is on its way to the screen, evicted, shown or
\* discarded at the end.  No frame is lost or counted twice between threads.
FramesAccounted ==
  /\ frames_emitted_to_decode =
       One(recv_item) + One(decode_slot) + decode_evictions + frames_failed + frames_decoded
       + (IF decode_pc = "work" THEN 1 ELSE 0)
  /\ frames_decoded =
       (IF decode_pc = "push" THEN 1 ELSE 0) + One(render_slot) + render_evictions
       + presented + discarded

\* Latest wins, oldest first: along the pipeline frames stand in the order they
\* were emitted, so that no frame is shown after a newer one.
PipelineInOrder ==
  LET line == <<shown, render_slot, decode_item, decode_slot, recv_item>> IN
  \A i, j \in 1 .. 5 : i < j /\ line[i] # None /\ line[j] # None => line[i] < line[j]

\* A frame is never left in the slot while the decode thread sleeps: push makes
\* the slot full under the mutex, so either the sleeper is about to be notified
\* or the predicate saw the frame.
NoFrameSleptOver ==
  decode_slot # None /\ decode_waiter = "blocked" => recv_pc = "notify"

\* max_frames is exact: the decode thread never decodes one frame too many.
LimitIsExact == MaxFrames > 0 => frames_decoded <= MaxFrames

\* A frame handed over is picked up, unless the receiver is stopped.
FramesReachDecoder == decode_slot # None ~> decode_slot = None \/ stop_flag

\* Reaching max_frames brings all three threads to an end.
LimitStopsReceiver ==
  MaxFrames > 0 /\ frames_decoded = MaxFrames ~> main_pc = "done"

\* "Wake any waiting consumer without writing a value. Used during shutdown so
\* a thread blocked in pop_wait() observes the stop flag." (LatestSlot::notify):
\* once the flag is up the decode thread returns.
StopReachesDecoder == stop_flag ~> decode_pc = "done"

=============================================================================
