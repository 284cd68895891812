------------------------- MODULE RtpReceiverProofs -------------------------
(***************************************************************************)
(* Proof that the receiver's pipeline loses no frame, keeps frames in      *)
(* order, lets none wait behind a sleeping decoder and decodes no frame    *)
(* beyond the limit, for any number of frames and any limit.               *)
(***************************************************************************)
EXTENDS RtpReceiver, TLAPS

\* The types of the variables; the counters' bounds follow from the accounts.
Control ==
  /\ stop_flag \in BOOLEAN
  /\ decode_waiter \in {"awake", "committed", "blocked"}
  /\ render_waiter = "awake"
  /\ recv_pc \in {"poll", "drain", "push", "notify", "error", "wake", "done"}
  /\ decode_pc \in {"loop", "pop", "work", "push", "limit", "done"}
  /\ main_pc \in {"loop", "events", "close", "stop", "notify", "join_decode", "join_recv", "done"}

\* A thread holds a frame exactly while it works on one.
Hands ==
  /\ recv_item # None <=> recv_pc = "push"
  /\ decode_item # None <=> decode_pc \in {"work", "push"}

\* Frames are numbered as they were emitted; the receive thread has the last one.
Emitted(x) == x \in Frames /\ x <= frames_emitted_to_decode
Numbered ==
  /\ frames_emitted_to_decode \in 0 .. NFrames
  /\ decode_slot = None \/ Emitted(decode_slot)
  /\ render_slot = None \/ Emitted(render_slot)
  /\ recv_item = None \/ Emitted(recv_item)
  /\ decode_item = None \/ Emitted(decode_item)
  /\ shown \in 0 .. frames_emitted_to_decode

Counts ==
  /\ decode_evictions \in Nat /\ render_evictions \in Nat
  /\ frames_decoded \in Nat /\ frames_failed \in Nat
  /\ presented \in Nat /\ discarded \in Nat

\* Newer frames are further back in the pipeline.
Older(x, y) == x # None /\ y # None => x < y
Order ==
  /\ Older(shown, render_slot) /\ Older(shown, decode_item)
  /\ Older(shown, decode_slot) /\ Older(shown, recv_item)
  /\ Older(render_slot, decode_item) /\ Older(render_slot, decode_slot)
  /\ Older(render_slot, recv_item)
  /\ Older(decode_item, decode_slot) /\ Older(decode_item, recv_item)
  /\ Older(decode_slot, recv_item)

\* The decode thread gives the mutex up and blocks with the slot empty; what is
\* pushed after that comes with a notification.
Sleeper ==
  /\ decode_waiter = "committed" => decode_slot = None
  /\ NoFrameSleptOver

\* A frame is decoded only below the limit.
Limit == MaxFrames > 0 =>
  /\ frames_decoded <= MaxFrames
  /\ decode_pc \in {"loop", "pop", "work"} => frames_decoded < MaxFrames

ReceiverInv ==
  Control /\ Hands /\ Numbered /\ Counts /\ FramesAccounted /\ Order /\ Sleeper /\ Limit

-----------------------------------------------------------------------------
LEMMA InitReceiverInv == Init => ReceiverInv
<1> SUFFICES ASSUME Init PROVE ReceiverInv
  OBVIOUS
<1> USE ReceiverAssumption DEF Init, DecodeSlot!Init, RenderSlot!Init
<1>1. Control /\ Hands
  BY DEF Control, Hands
<1>2. Numbered /\ Counts /\ FramesAccounted
  BY DEF Numbered, Counts, FramesAccounted, One, Frames, Emitted
<1>3. Order /\ Sleeper /\ Limit
  BY DEF Order, Older, Sleeper, NoFrameSleptOver, Limit
<1> QED
  BY <1>1, <1>2, <1>3 DEF ReceiverInv

\* The receive thread.
LEMMA RecvKeepsInv == ASSUME ReceiverInv, RecvStep PROVE ReceiverInv'
<1> USE ReceiverAssumption DEF ReceiverInv
<1>1. CASE RecvPoll
  <2> USE <1>1 DEF RecvPoll, RecvGo, vars, decodeVars, renderVars, recvVars, workVars,
         showVars, counters
  <2>1. Control' /\ Hands'
    BY DEF Control, Hands, Numbered, Emitted, Frames
  <2>2. Numbered' /\ Counts'
    BY DEF Control, Hands, Numbered, Counts, Frames, Emitted
  <2>3. FramesAccounted'
    BY DEF Control, Hands, Numbered, Counts, FramesAccounted, One
  <2>4. Order'
    BY DEF Control, Hands, Numbered, Order, Older, Frames, Emitted
  <2>5. Sleeper' /\ Limit'
    BY DEF Control, Hands, Counts, Sleeper, NoFrameSleptOver, Limit
  <2> QED
    BY <2>1, <2>2, <2>3, <2>4, <2>5
<1>2. CASE RecvDrained
  <2> USE <1>2 DEF RecvDrained, RecvGo, vars, decodeVars, renderVars, recvVars, workVars,
         showVars, counters
  <2>1. Control' /\ Hands'
    BY DEF Control, Hands, Numbered, Emitted, Frames
  <2>2. Numbered' /\ Counts'
    BY DEF Control, Hands, Numbered, Counts, Frames, Emitted
  <2>3. FramesAccounted'
    BY DEF Control, Hands, Numbered, Counts, FramesAccounted, One
  <2>4. Order'
    BY DEF Control, Hands, Numbered, Order, Older, Frames, Emitted
  <2>5. Sleeper' /\ Limit'
    BY DEF Control, Hands, Counts, Sleeper, NoFrameSleptOver, Limit
  <2> QED
    BY <2>1, <2>2, <2>3, <2>4, <2>5
<1>3. CASE RecvFrame
  <2> USE <1>3 DEF RecvFrame, RecvGo, vars, decodeVars, renderVars, recvVars, workVars,
         showVars, counters
  <2>1. Control' /\ Hands'
    BY DEF Control, Hands, Numbered, Emitted, Frames
  <2>2. Numbered' /\ Counts'
    BY DEF Control, Hands, Numbered, Counts, Frames, Emitted
  <2>3. FramesAccounted'
    BY DEF Control, Hands, Numbered, Counts, FramesAccounted, One
  <2>4. Order'
    BY DEF Control, Hands, Numbered, Order, Older, Frames, Emitted
  <2>5. Sleeper' /\ Limit'
    BY DEF Control, Hands, Counts, Sleeper, NoFrameSleptOver, Limit
  <2> QED
    BY <2>1, <2>2, <2>3, <2>4, <2>5
<1>4. CASE RecvPush
  <2> USE <1>4 DEF RecvPush, RecvGo, DecodeSlot!Push, DecodeSlot!MutexFree, vars, decodeVars, renderVars, recvVars, workVars,
         showVars, counters
  <2>1. Control' /\ Hands'
    BY DEF Control, Hands, Numbered, Emitted, Frames
  <2>2. Numbered' /\ Counts'
    BY DEF Control, Hands, Numbered, Counts, Frames, Emitted
  <2>3. FramesAccounted'
    BY DEF Control, Hands, Numbered, Counts, FramesAccounted, One
  <2>4. Order'
    BY DEF Control, Hands, Numbered, Order, Older, Frames, Emitted
  <2>5. Sleeper' /\ Limit'
    BY DEF Control, Hands, Counts, Sleeper, NoFrameSleptOver, Limit
  <2> QED
    BY <2>1, <2>2, <2>3, <2>4, <2>5
<1>5. CASE RecvNotify
  <2> USE <1>5 DEF RecvNotify, RecvGo, DecodeSlot!Notify, vars, decodeVars, renderVars, recvVars, workVars,
         showVars, counters
  <2>1. Control' /\ Hands'
    BY DEF Control, Hands, Numbered, Emitted, Frames
  <2>2. Numbered' /\ Counts'
    BY DEF Control, Hands, Numbered, Counts, Frames, Emitted
  <2>3. FramesAccounted'
    BY DEF Control, Hands, Numbered, Counts, FramesAccounted, One
  <2>4. Order'
    BY DEF Control, Hands, Numbered, Order, Older, Frames, Emitted
  <2>5. Sleeper' /\ Limit'
    BY DEF Control, Hands, Counts, Sleeper, NoFrameSleptOver, Limit
  <2> QED
    BY <2>1, <2>2, <2>3, <2>4, <2>5
<1>6. CASE RecvError
  <2> USE <1>6 DEF RecvError, RecvGo, vars, decodeVars, renderVars, recvVars, workVars,
         showVars, counters
  <2>1. Control' /\ Hands'
    BY DEF Control, Hands, Numbered, Emitted, Frames
  <2>2. Numbered' /\ Counts'
    BY DEF Control, Hands, Numbered, Counts, Frames, Emitted
  <2>3. FramesAccounted'
    BY DEF Control, Hands, Numbered, Counts, FramesAccounted, One
  <2>4. Order'
    BY DEF Control, Hands, Numbered, Order, Older, Frames, Emitted
  <2>5. Sleeper' /\ Limit'
    BY DEF Control, Hands, Counts, Sleeper, NoFrameSleptOver, Limit
  <2> QED
    BY <2>1, <2>2, <2>3, <2>4, <2>5
<1>7. CASE RecvWake
  <2> USE <1>7 DEF RecvWake, RecvGo, DecodeSlot!Notify, vars, decodeVars, renderVars, recvVars, workVars,
         showVars, counters
  <2>1. Control' /\ Hands'
    BY DEF Control, Hands, Numbered, Emitted, Frames
  <2>2. Numbered' /\ Counts'
    BY DEF Control, Hands, Numbered, Counts, Frames, Emitted
  <2>3. FramesAccounted'
    BY DEF Control, Hands, Numbered, Counts, FramesAccounted, One
  <2>4. Order'
    BY DEF Control, Hands, Numbered, Order, Older, Frames, Emitted
  <2>5. Sleeper' /\ Limit'
    BY DEF Control, Hands, Counts, Sleeper, NoFrameSleptOver, Limit
  <2> QED
    BY <2>1, <2>2, <2>3, <2>4, <2>5
<1> QED
  BY <1>1, <1>2, <1>3, <1>4, <1>5, <1>6, <1>7 DEF RecvStep

\* The decode thread.
LEMMA DecodeKeepsInv == ASSUME ReceiverInv, DecodeStep PROVE ReceiverInv'
<1> USE ReceiverAssumption DEF ReceiverInv
<1>1. CASE DecodeLoop
  <2> USE <1>1 DEF DecodeLoop, DecodeGo, vars, decodeVars, renderVars, recvVars, workVars,
         showVars, counters
  <2>1. Control' /\ Hands'
    BY DEF Control, Hands, Numbered, Emitted, Frames
  <2>2. Numbered' /\ Counts'
    BY DEF Control, Hands, Numbered, Counts, Frames, Emitted
  <2>3. FramesAccounted'
    BY DEF Control, Hands, Numbered, Counts, FramesAccounted, One
  <2>4. Order'
    BY DEF Control, Hands, Numbered, Order, Older, Frames, Emitted
  <2>5. Sleeper' /\ Limit'
    BY DEF Control, Hands, Counts, Sleeper, NoFrameSleptOver, Limit
  <2> QED
    BY <2>1, <2>2, <2>3, <2>4, <2>5
<1>2. CASE DecodePop
  <2> USE <1>2 DEF DecodePop, DecodeGo, DecodeSlot!PopWaitTakes, DecodeSlot!PopWaitStops, DecodeSlot!PopWaitCommits, DecodeSlot!PopWaitBlocks, vars, decodeVars, renderVars, recvVars, workVars,
         showVars, counters
  <2>1. Control' /\ Hands'
    BY DEF Control, Hands, Numbered, Emitted, Frames
  <2>2. Numbered' /\ Counts'
    BY DEF Control, Hands, Numbered, Counts, Frames, Emitted
  <2>3. FramesAccounted'
    BY DEF Control, Hands, Numbered, Counts, FramesAccounted, One
  <2>4. Order'
    BY DEF Control, Hands, Numbered, Order, Older, Frames, Emitted
  <2>5. Sleeper' /\ Limit'
    BY DEF Control, Hands, Counts, Sleeper, NoFrameSleptOver, Limit
  <2> QED
    BY <2>1, <2>2, <2>3, <2>4, <2>5
<1>3. CASE DecodeFails
  <2> USE <1>3 DEF DecodeFails, DecodeGo, vars, decodeVars, renderVars, recvVars, workVars,
         showVars, counters
  <2>1. Control' /\ Hands'
    BY DEF Control, Hands, Numbered, Emitted, Frames
  <2>2. Numbered' /\ Counts'
    BY DEF Control, Hands, Numbered, Counts, Frames, Emitted
  <2>3. FramesAccounted'
    BY DEF Control, Hands, Numbered, Counts, FramesAccounted, One
  <2>4. Order'
    BY DEF Control, Hands, Numbered, Order, Older, Frames, Emitted
  <2>5. Sleeper' /\ Limit'
    BY DEF Control, Hands, Counts, Sleeper, NoFrameSleptOver, Limit
  <2> QED
    BY <2>1, <2>2, <2>3, <2>4, <2>5
<1>4. CASE DecodeSucceeds
  <2> USE <1>4 DEF DecodeSucceeds, DecodeGo, vars, decodeVars, renderVars, recvVars, workVars,
         showVars, counters
  <2>1. Control' /\ Hands'
    BY DEF Control, Hands, Numbered, Emitted, Frames
  <2>2. Numbered' /\ Counts'
    BY DEF Control, Hands, Numbered, Counts, Frames, Emitted
  <2>3. FramesAccounted'
    BY DEF Control, Hands, Numbered, Counts, FramesAccounted, One
  <2>4. Order'
    BY DEF Control, Hands, Numbered, Order, Older, Frames, Emitted
  <2>5. Sleeper' /\ Limit'
    BY DEF Control, Hands, Counts, Sleeper, NoFrameSleptOver, Limit
  <2> QED
    BY <2>1, <2>2, <2>3, <2>4, <2>5
<1>5. CASE DecodePush
  <2> USE <1>5 DEF DecodePush, DecodeGo, RenderSlot!Push, RenderSlot!MutexFree, vars, decodeVars, renderVars, recvVars, workVars,
         showVars, counters
  <2>1. Control' /\ Hands'
    BY DEF Control, Hands, Numbered, Emitted, Frames
  <2>2. Numbered' /\ Counts'
    BY DEF Control, Hands, Numbered, Counts, Frames, Emitted
  <2>3. FramesAccounted'
    BY DEF Control, Hands, Numbered, Counts, FramesAccounted, One
  <2>4. Order'
    BY DEF Control, Hands, Numbered, Order, Older, Frames, Emitted
  <2>5. Sleeper' /\ Limit'
    BY DEF Control, Hands, Counts, Sleeper, NoFrameSleptOver, Limit
  <2> QED
    BY <2>1, <2>2, <2>3, <2>4, <2>5
<1>6. CASE DecodeLimit
  <2> USE <1>6 DEF DecodeLimit, DecodeGo, vars, decodeVars, renderVars, recvVars, workVars,
         showVars, counters
  <2>1. Control' /\ Hands'
    BY DEF Control, Hands, Numbered, Emitted, Frames
  <2>2. Numbered' /\ Counts'
    BY DEF Control, Hands, Numbered, Counts, Frames, Emitted
  <2>3. FramesAccounted'
    BY DEF Control, Hands, Numbered, Counts, FramesAccounted, One
  <2>4. Order'
    BY DEF Control, Hands, Numbered, Order, Older, Frames, Emitted
  <2>5. Sleeper' /\ Limit'
    BY DEF Control, Hands, Counts, Sleeper, NoFrameSleptOver, Limit
  <2> QED
    BY <2>1, <2>2, <2>3, <2>4, <2>5
<1> QED
  BY <1>1, <1>2, <1>3, <1>4, <1>5, <1>6 DEF DecodeStep

\* The main thread.
LEMMA MainKeepsInv == ASSUME ReceiverInv, MainStep PROVE ReceiverInv'
<1> USE ReceiverAssumption DEF ReceiverInv
<1>1. CASE MainChecks
  <2> USE <1>1 DEF MainChecks, MainGo, vars, decodeVars, renderVars, recvVars, workVars,
         showVars, counters
  <2>1. Control' /\ Hands'
    BY DEF Control, Hands, Numbered, Emitted, Frames
  <2>2. Numbered' /\ Counts'
    BY DEF Control, Hands, Numbered, Counts, Frames, Emitted
  <2>3. FramesAccounted'
    BY DEF Control, Hands, Numbered, Counts, FramesAccounted, One
  <2>4. Order'
    BY DEF Control, Hands, Numbered, Order, Older, Frames, Emitted
  <2>5. Sleeper' /\ Limit'
    BY DEF Control, Hands, Counts, Sleeper, NoFrameSleptOver, Limit
  <2> QED
    BY <2>1, <2>2, <2>3, <2>4, <2>5
<1>2. CASE MainLeaves
  <2> USE <1>2 DEF MainLeaves, MainGo, vars, decodeVars, renderVars, recvVars, workVars,
         showVars, counters
  <2>1. Control' /\ Hands'
    BY DEF Control, Hands, Numbered, Emitted, Frames
  <2>2. Numbered' /\ Counts'
    BY DEF Control, Hands, Numbered, Counts, Frames, Emitted
  <2>3. FramesAccounted'
    BY DEF Control, Hands, Numbered, Counts, FramesAccounted, One
  <2>4. Order'
    BY DEF Control, Hands, Numbered, Order, Older, Frames, Emitted
  <2>5. Sleeper' /\ Limit'
    BY DEF Control, Hands, Counts, Sleeper, NoFrameSleptOver, Limit
  <2> QED
    BY <2>1, <2>2, <2>3, <2>4, <2>5
<1>3. CASE MainCloses
  <2> USE <1>3 DEF MainCloses, MainGo, DecodeSlot!Notify, vars, decodeVars, renderVars, recvVars, workVars,
         showVars, counters
  <2>1. Control' /\ Hands'
    BY DEF Control, Hands, Numbered, Emitted, Frames
  <2>2. Numbered' /\ Counts'
    BY DEF Control, Hands, Numbered, Counts, Frames, Emitted
  <2>3. FramesAccounted'
    BY DEF Control, Hands, Numbered, Counts, FramesAccounted, One
  <2>4. Order'
    BY DEF Control, Hands, Numbered, Order, Older, Frames, Emitted
  <2>5. Sleeper' /\ Limit'
    BY DEF Control, Hands, Counts, Sleeper, NoFrameSleptOver, Limit
  <2> QED
    BY <2>1, <2>2, <2>3, <2>4, <2>5
<1>4. CASE MainPresents
  <2> USE <1>4 DEF MainPresents, MainGo, RenderSlot!TryPop, RenderSlot!MutexFree, vars, decodeVars, renderVars, recvVars, workVars,
         showVars, counters
  <2>1. Control' /\ Hands'
    BY DEF Control, Hands, Numbered, Emitted, Frames
  <2>2. Numbered' /\ Counts'
    BY DEF Control, Hands, Numbered, Counts, Frames, Emitted
  <2>3. FramesAccounted'
    BY DEF Control, Hands, Numbered, Counts, FramesAccounted, One
  <2>4. Order'
    BY DEF Control, Hands, Numbered, Order, Older, Frames, Emitted
  <2>5. Sleeper' /\ Limit'
    BY DEF Control, Hands, Counts, Sleeper, NoFrameSleptOver, Limit
  <2> QED
    BY <2>1, <2>2, <2>3, <2>4, <2>5
<1>5. CASE MainStops
  <2> USE <1>5 DEF MainStops, MainGo, vars, decodeVars, renderVars, recvVars, workVars,
         showVars, counters
  <2>1. Control' /\ Hands'
    BY DEF Control, Hands, Numbered, Emitted, Frames
  <2>2. Numbered' /\ Counts'
    BY DEF Control, Hands, Numbered, Counts, Frames, Emitted
  <2>3. FramesAccounted'
    BY DEF Control, Hands, Numbered, Counts, FramesAccounted, One
  <2>4. Order'
    BY DEF Control, Hands, Numbered, Order, Older, Frames, Emitted
  <2>5. Sleeper' /\ Limit'
    BY DEF Control, Hands, Counts, Sleeper, NoFrameSleptOver, Limit
  <2> QED
    BY <2>1, <2>2, <2>3, <2>4, <2>5
<1>6. CASE MainNotifies
  <2> USE <1>6 DEF MainNotifies, MainGo, DecodeSlot!Notify, vars, decodeVars, renderVars, recvVars, workVars,
         showVars, counters
  <2>1. Control' /\ Hands'
    BY DEF Control, Hands, Numbered, Emitted, Frames
  <2>2. Numbered' /\ Counts'
    BY DEF Control, Hands, Numbered, Counts, Frames, Emitted
  <2>3. FramesAccounted'
    BY DEF Control, Hands, Numbered, Counts, FramesAccounted, One
  <2>4. Order'
    BY DEF Control, Hands, Numbered, Order, Older, Frames, Emitted
  <2>5. Sleeper' /\ Limit'
    BY DEF Control, Hands, Counts, Sleeper, NoFrameSleptOver, Limit
  <2> QED
    BY <2>1, <2>2, <2>3, <2>4, <2>5
<1>7. CASE MainJoinsDecode
  <2> USE <1>7 DEF MainJoinsDecode, MainGo, vars, decodeVars, renderVars, recvVars, workVars,
         showVars, counters
  <2>1. Control' /\ Hands'
    BY DEF Control, Hands, Numbered, Emitted, Frames
  <2>2. Numbered' /\ Counts'
    BY DEF Control, Hands, Numbered, Counts, Frames, Emitted
  <2>3. FramesAccounted'
    BY DEF Control, Hands, Numbered, Counts, FramesAccounted, One
  <2>4. Order'
    BY DEF Control, Hands, Numbered, Order, Older, Frames, Emitted
  <2>5. Sleeper' /\ Limit'
    BY DEF Control, Hands, Counts, Sleeper, NoFrameSleptOver, Limit
  <2> QED
    BY <2>1, <2>2, <2>3, <2>4, <2>5
<1>8. CASE MainJoinsRecv
  <2> USE <1>8 DEF MainJoinsRecv, MainGo, RenderSlot!TryPop, RenderSlot!MutexFree, vars, decodeVars, renderVars, recvVars, workVars,
         showVars, counters
  <2>1. Control' /\ Hands'
    BY DEF Control, Hands, Numbered, Emitted, Frames
  <2>2. Numbered' /\ Counts'
    BY DEF Control, Hands, Numbered, Counts, Frames, Emitted
  <2>3. FramesAccounted'
    BY DEF Control, Hands, Numbered, Counts, FramesAccounted, One
  <2>4. Order'
    BY DEF Control, Hands, Numbered, Order, Older, Frames, Emitted
  <2>5. Sleeper' /\ Limit'
    BY DEF Control, Hands, Counts, Sleeper, NoFrameSleptOver, Limit
  <2> QED
    BY <2>1, <2>2, <2>3, <2>4, <2>5
<1> QED
  BY <1>1, <1>2, <1>3, <1>4, <1>5, <1>6, <1>7, <1>8 DEF MainStep

\* A wakeup without a notification.
LEMMA WakeupKeepsInv == ASSUME ReceiverInv, SpuriousWakeup PROVE ReceiverInv'
<1> USE ReceiverAssumption DEF ReceiverInv
<1>1. CASE SpuriousWakeup
  <2> USE <1>1 DEF SpuriousWakeup, DecodeSlot!Notify, vars, decodeVars, renderVars, recvVars, workVars,
         showVars, counters
  <2>1. Control' /\ Hands'
    BY DEF Control, Hands, Numbered, Emitted, Frames
  <2>2. Numbered' /\ Counts'
    BY DEF Control, Hands, Numbered, Counts, Frames, Emitted
  <2>3. FramesAccounted'
    BY DEF Control, Hands, Numbered, Counts, FramesAccounted, One
  <2>4. Order'
    BY DEF Control, Hands, Numbered, Order, Older, Frames, Emitted
  <2>5. Sleeper' /\ Limit'
    BY DEF Control, Hands, Counts, Sleeper, NoFrameSleptOver, Limit
  <2> QED
    BY <2>1, <2>2, <2>3, <2>4, <2>5
<1> QED
  BY <1>1

LEMMA StutterKeepsInv == ASSUME ReceiverInv, UNCHANGED vars PROVE ReceiverInv'
<1> USE DEF vars, decodeVars, renderVars, recvVars, workVars, showVars, counters, ReceiverInv
<1>1. Control' /\ Hands' /\ Numbered' /\ Counts'
  BY DEF Control, Hands, Numbered, Counts, Emitted
<1>2. FramesAccounted' /\ Order' /\ Sleeper' /\ Limit'
  BY DEF FramesAccounted, One, Order, Older, Sleeper, NoFrameSleptOver, Limit
<1> QED
  BY <1>1, <1>2

\* The invariant behind the theorems below.
THEOREM ReceiverInvariant == Spec => []ReceiverInv
<1>1. Init => ReceiverInv
  BY InitReceiverInv
<1>2. ReceiverInv /\ [Next]_vars => ReceiverInv'
  BY RecvKeepsInv, DecodeKeepsInv, MainKeepsInv, WakeupKeepsInv, StutterKeepsInv DEF Next
<1> QED
  BY <1>1, <1>2, PTL DEF Spec

-----------------------------------------------------------------------------
LEMMA InvHasTypes == ReceiverInv => TypeOK
<1> SUFFICES ASSUME ReceiverInv PROVE TypeOK
  OBVIOUS
<1> USE ReceiverAssumption DEF ReceiverInv
<1>1. DecodeSlot!TypeOK(Frames) /\ RenderSlot!TypeOK(Frames)
  BY DEF Control, Numbered, Counts, Emitted, DecodeSlot!TypeOK, RenderSlot!TypeOK
<1>2. {recv_item, decode_item} \subseteq Frames \cup {None}
  BY DEF Numbered, Emitted
<1>3. {frames_emitted_to_decode, frames_decoded, frames_failed, presented, discarded}
        \subseteq 0 .. NFrames
  BY DEF Numbered, Counts, FramesAccounted, One
<1>4. shown \in 0 .. NFrames
  BY DEF Numbered
<1> QED
  BY <1>1, <1>2, <1>3, <1>4 DEF TypeOK, Control

LEMMA InvInOrder == ReceiverInv => PipelineInOrder
<1> SUFFICES ASSUME ReceiverInv PROVE PipelineInOrder
  OBVIOUS
<1> DEFINE line == <<shown, render_slot, decode_item, decode_slot, recv_item>>
<1> SUFFICES ASSUME NEW i \in 1 .. 5, NEW j \in 1 .. 5, i < j, line[i] # None, line[j] # None
             PROVE  line[i] < line[j]
  BY DEF PipelineInOrder
<1>1. \/ i = 1 /\ j \in {2, 3, 4, 5}
      \/ i = 2 /\ j \in {3, 4, 5}
      \/ i = 3 /\ j \in {4, 5}
      \/ i = 4 /\ j = 5
  OBVIOUS
<1> QED
  BY <1>1 DEF ReceiverInv, Order, Older

\* Types are kept, for any number of frames: no counter runs past the frames
\* that were emitted.
THEOREM ReceiverTypeCorrect == Spec => []TypeOK
<1> QED
  BY ReceiverInvariant, InvHasTypes, PTL

\* The exit summary of the receiver adds up at every moment, however the three
\* threads interleave and whichever of them stops the others.
THEOREM FramesStayAccounted == Spec => []FramesAccounted
<1>1. ReceiverInv => FramesAccounted
  BY DEF ReceiverInv
<1> QED
  BY <1>1, ReceiverInvariant, PTL

\* Frames stand in the pipeline in the order they were emitted, whatever the two
\* latest-wins slots evict.
THEOREM PipelineStaysInOrder == Spec => []PipelineInOrder
<1> QED
  BY ReceiverInvariant, InvInOrder, PTL

\* No frame lies in the slot behind a sleeping decode thread, unless the
\* notification that goes with it is still to come.
THEOREM NoFrameIsSleptOver == Spec => []NoFrameSleptOver
<1>1. ReceiverInv => NoFrameSleptOver
  BY DEF ReceiverInv, Sleeper
<1> QED
  BY <1>1, ReceiverInvariant, PTL

\* max_frames is never exceeded, for any limit.
THEOREM LimitStaysExact == Spec => []LimitIsExact
<1>1. ReceiverInv => LimitIsExact
  BY DEF ReceiverInv, Limit, LimitIsExact
<1> QED
  BY <1>1, ReceiverInvariant, PTL

=============================================================================
