# TLA+ models of the Agentic Fuzzing System

The repository holds a fuzzing control plane (*Hermes watch*, Python) and the
program it works on (*OpenHTJ2K*, a JPEG 2000 codec and RTP receiver in C++),
both under `targets/jpeg2000-openhtj2k/`. Paths below are relative to that
directory. This project models the parts of both whose correctness rests on the
order in which things happen: threads, packets, processes, crashes.

Modules are checked by TLC with the `.cfg` files beside them; the modules named
`...Proofs` are checked by TLAPS.

## 1. Inventory

| Component | State it keeps | Operations | What is hard | Correct when |
|---|---|---|---|---|
| Thread pool `source/core/common/ThreadPool.hpp` | ring of tasks, two indices, `stop`, one mutex, one condition variable | `push`, `push_batch`, `enqueue`, `try_run_one`, `worker`, destructor, `instance`/`release` | wakeups counted per chunk and sent after the unlock, helpers stealing tasks, overflow, wrap, shutdown | no task lost or run twice, FIFO, no lost wakeup, destruction drains |
| Line-based tile decoding `source/core/coding/coding_units.cpp`, `subband_row_buf.cpp` | row buffers with two halves and a counter each, a chain of inverse transforms per component, strip scratch | pull a row, decode or prefetch a strip of code-blocks, swap halves, strip barrier, deliver a row, rewind for the next picture | tasks that wait for tasks of the same pool, prefetched halves swapped under running tasks, state reused by the next picture | every row delivered once, in order, from the right samples; no deadlock |
| Line-based tile encoding `coding_units.cpp`, `encoder.cpp` | a chain of forward transforms, flags per code-block row, counter of outstanding blocks, per-thread slots of allocation pools | push a row, emit rows into bands, dispatch a finished row of blocks, flush, wait, encode the rest | blocks are coded while the transform runs on; thread-local slots outlive a tile | every block coded once, from finished rows; no pool shared by two threads |
| Tiles, packets and packet headers `coding_units.cpp`, `codestream.hpp`, `decoder.cpp` | resolutions, precincts, tag trees, code-blocks, volumes of the progression order, bit reader and writer | add a tile-part, read packets, lay them out, write and parse a header, keep a tile for the next frame | order by position with cut precincts and subsampling; state from header to header; what a kept tile keeps | packets in the order of the stream, each once; reader and writer agree after every header |
| Streaming wavelets `source/core/transform/idwt.cpp`, `fdwt.cpp` | a ring of 8 (12) rows, extension rows, lifting levels, three cursors | fetch or push, fill extension, cascade, evict, hand out or emit, flush, rewind | in-place lifting: a row must still be there, at the right level, when a neighbour needs it | each row lifted from the right rows, handed out once |
| RTP frame handler `source/apps/rtp_recv/frame_handler.cpp` | accumulator, cached main header, sequence number, per-frame flags | `push_main_packet`, `push_body_packet`, `finalize_frame`, `reset` | loss, repetition, reordering, late join, wrap | only whole frames are handed out, every frame is accounted for, resynchronisation |
| RFC 9828 parser `rfc9828_parser.cpp` | none | three header parsers | bit layout, lengths | fields are what was sent |
| Latest-wins slot `frame_pipeline.hpp` | one item, eviction count, mutex, condition variable | `push`, `pop_wait`, `try_pop`, `notify` | lost wakeups, stop flag outside the mutex | latest item wins, sleepers are woken |
| Threaded receiver `pipeline_multi_threaded.cpp` | two slots, `stop_flag`, counters | receive, decode and main thread, pacer | three threads that stop each other | frames in order and accounted for, `max_frames` exact, threads end |
| Single-threaded receiver, socket, CLI, renderer, colour | sockets, GL objects | I/O | - | - |
| Block coding, transforms, markers, codec interface | codestream, coefficient buffers | decode and encode | arithmetic | round trips, conformance |
| Encoder, decoder, imgcmp, lb_compare programs; wasm wrapper in `subprojects/` | - | sequential drivers | - | - |
| Fuzz harnesses `fuzz/*.cpp` | - | one decoder call per input | - | - |
| Refiner queue `scripts/hermes_watch.py` | six JSON registries of entries with seven status fields and a lifecycle | record, revive, execute, prepare, dispatch, bridge, launch, verify, apply policy | two processes without a lock, stale saves, crashes between saves, re-entry | entries stay coherent; scripts start once and lifecycles go forward but for stale saves; work is not starved |
| Watch loop `scripts/hermes_watch.py` | crash index, known-bad list, policy log, trigger registry, run history, metrics, status files | build, smoke test, fuzz, classify, decide policy, record and follow up triggers, report | a follow-up is a watch inside the watch and shares its files; kills; history overriding decisions; timeouts | runs end and nest no further than four deep, occurrences are accounted for, triggers are kept |
| Harness apply and recovery `hermes_watch.py`, `hermes_watch_support/harness_skeleton.py`, `harness_routing.py` | manifests, skeleton revisions | guarded apply, rollback, retry, recovery routing | partial failure, retry budgets | a failed change is rolled back |
| Corpus sync, quarantine, repair `hermes_watch.py` | seed directories, latest crash state | copy, move, rewrite | partial failure | a seed is never lost |
| Profiles, reconnaissance, drafts, evaluation, evidence packets `hermes_watch_support/` | files | read, validate, summarise | - | - |
| Shell scripts, supervisor prompts | - | wrappers | - | - |
| `source/thirdparty/highway` | vendored | - | - | - |

### How the components meet

* The decoder pushes tasks to the one **thread pool**, from the calling thread
  and from inside tasks; a thread that waits helps with `try_run_one`. The driver
  pushes one *strip* task per component; a strip pulls rows through its **inverse
  transforms**, whose sources are each other and the **row buffers**, which push
  *block* tasks and wait for them.
* The encoder's main thread pushes rows through the **forward transforms**; the
  sink of a level pushes block tasks, for which the main thread waits at the end.
* A decoder call adds the tile-parts of a frame to a **tile**, fresh or kept, reads its
  **packets** and then decodes lines; the encoder writes the **packet headers** once the
  blocks are coded, then lays the packets out.
* In the **receiver**, the receive thread feeds packets to the frame handler and
  pushes the frames it hands out into `decode_slot`; the decode thread pops
  them, runs the codec and pushes into `render_slot`; the main thread polls
  that. They share `stop_flag` and three counters.
* A **watch** that decides on one of four actions records a regression trigger and
  runs the most urgent pending one: `run-fuzz-mode.sh` starts a watch again, in
  mode triage or regression, and the outer one waits for it. All of them read and
  write the same registries.
* The **watch loop** records follow-up work in the registries of the **refiner
  queue**. The operator moves it on, by one command-line call per step or by the
  evidence-review chain. Watcher and operator are two processes that share files
  and no lock. A launched script starts an agent session or a cron job.

### Hazards

`PROJECT.json` lists each place in the code where something is hard to test,
with the properties that would catch it going wrong, or the reason why none does.

## 2. Modules

| Module | Models | Role |
|---|---|---|
| `TaskQueue` | - | abstract: a FIFO queue of tasks, pushes accepted or refused from some task on |
| `ThreadPool` | `ThreadPool.hpp` | detailed; `ImplementsTaskQueue` is the refinement |
| `ThreadPoolProofs` | | theorems about it |
| `FrameHandler` | `frame_handler.cpp`, fed by the loop at `pipeline_multi_threaded.cpp:59-94` | handler methods as operators on a record, the network as environment |
| `FrameHandlerProofs` | | theorems about it |
| `LatestSlot` | `LatestSlot<T>` | actions of one slot, instantiated twice by `RtpReceiver` |
| `RtpReceiver` | `pipeline_multi_threaded.cpp` | three threads over two slots |
| `RtpReceiverProofs` | | theorems about it |
| `RefinerQueue` | the queue commands of `hermes_watch.py` | two processes, a disk, crashes |
| `RefinerQueueProofs` | | theorems about it |
| `WatchRuns` | `main` of `hermes_watch.py` with policy, registries and triggers; `run-fuzz-mode.sh` | a stack of nested runs, the registry files, kills |
| `WatchRunsProofs` | | theorems about it |
| `LiftRing` | what `idwt_2d_state` and `fdwt_2d_state` share | operators on the ring of rows of one level |
| `StreamIdwt`, `StreamFdwt` | `idwt.cpp`, `fdwt.cpp` (streaming part) | operators: init, fetch or push, cascade, evict, flush, rewind |
| `LiftRingProofs` | | lemmas about a ring and its lifting steps, used by both directions; on remainders, halves and least numbers |
| `RowBuffers` | `subband_row_buf.cpp` | actions of the row buffers, and the contract `BufSpec` of their client |
| `DecodeLines` | `decode_line_based_stream`, the pull chain, `init_line_decode`, `reset_line_decode_cursors` | composes row buffers, inverse transforms and pool threads |
| `DecodeLinesProofs` | | theorems about it, the row buffers and the rings of `StreamIdwt` |
| `LineSource` | - | abstract: the rows of one picture after another; `ImplementsLineSource` is the refinement |
| `EncodeLines` | `encode_line_based_stream`, `fdwt_level_sink_fn`, `enc_overlap_dispatch` | composes forward transforms and pool threads |
| `EncodeLinesProofs` | | theorems about it and about the rings of `StreamFdwt` |
| `TilePackets` | `add_tile_part`, `create_tile_buf`, `construct_packets`, `invoke_line_based_stream_reuse` | one action per volume of the progression order, the tile kept from frame to frame |
| `PacketHeaders` | `parse_packet_header`, `read_packet`, `generate_packet_header`, `buf_chain`, `packet_header_writer`, `tagtree` | headers bit by bit, written and read |
| `MCLineCodec` | | both directions of the streaming codec in one instance |
| `MCTileCodec` | | that, packets and headers in one run |
| `MCThreadPool`, `MCFrameHandler`, `MCRtpReceiver`, `MCRefinerQueue`, `MCWatchRuns` | | instances for TLC |

Operators whose comment begins with "Mutant" are deliberate mistakes. None of
them is used by a specification; they serve to show, one per property, that the
property notices such a mistake.

### ThreadPool

One action per critical section of `tasks_mutex`. What happens outside it is a
step of its own: every `notify_one` after the unlock (`NotifyOne`), the start
and the end of a task (`Start`, `Finish`; `stack` holds the tasks a thread is
nested in). `Drain` moves up to `Batch` tasks into the worker's private chunk.
`Submit` is `push_task` and `push_batch`: a full ring makes the code throw in
the middle of a batch, so the stored prefix stays, the rest is `refused`, and
nobody is notified. A `try_run_one` that fails changes nothing and is a
stuttering step. The indices count without wrapping (they are `size_t`) and the
slot is the index modulo `RingCap`. Callers may push from outside or from inside
a task; the owner destroys the pool from outside any task; nobody uses it
after it was joined.

### FrameHandler

`h` is the handler's state, with one field per member, and
`push_main_packet(h, p, e)` the state after that call. `Receive` is one turn of
the receive loop: a fresh `out_frame`, the push, the frame handed on. The sender
emits one of `Streams`; `ReceiveNew` passes over up to `Gap` lost packets and
`ReceiveOld` delivers a packet again or late. Codestream bytes are tokens, and
each packet carries what has been sent of its frame so far (`upto`), which no method
reads. `OneHeaderPacket` says of a stream that frames have timestamps and markers of
their own and their main header in one packet.

### LatestSlot and RtpReceiver

`push`, `try_pop` and the successful `pop_wait` are one action each, as they
happen under the mutex. `pop_wait` with a false predicate takes two:
`PopWaitCommits` (predicate evaluated, mutex held) and `PopWaitBlocks` (mutex
given up and thread blocked, in one step, as the standard demands). `push` and
`try_pop` need the mutex; `notify` and the store to `stop_flag` do not, and that
is what `StopReachesDecoder` is about. The three threads are program counters
over the loops of `recv_thread_main`, `decode_thread_main` and
`run_receiver_threaded`. Packets that complete no frame, timed-out polls and
what is drawn are left out.

### RefinerQueue

`queue` is what the registries hold: per key a record of the status fields,
where `""` is a missing field. There are two processes. `rec` is the entry the
watcher is about to record and `op` the command of the operator in progress, each
with the registries it loaded (`loaded`). Whoever changes an entry does so in two
steps, a load and a later save, and the save writes **whole registries back as they
were loaded** (`Save`): what the other process saved in between is undone. So an
operator's stale save drops entries the watcher recorded, and a stale save of the
watcher (`RecordEnd`) takes back what the operator did to every entry of that file: a
launched entry is armed again and its script started a second time, a prepared
entry is planned again, and then no finder takes it. `MCRefinerQueue` reaches both.

`Takes` and `PolicyCandidate` translate the lambdas passed to
`select_refiner_registry_entry` and the loop of `find_verification_policy_candidate`.
The former loads all registries (`Find`), and saves all of them, whether it found
an entry (`SelectEnd`) or not (`NothingEnd`). It does so one file after the other; in
the model all loads are one step and all saves another. Files do not depend on
each other and no property relates entries of two of them. A crash between two of
these saves is thereby left out. Which of several matching entries is taken depends on
weights computed from the history of runs, so any may be.

A command then works on the registry its finder loaded. `launch` is split around the
start of its script (`LaunchBegin`, `LaunchEnd`), which runs on that copy for as long as
its timeout allows. `prepare_next_refiner_orchestration` is the whole sequence: execute,
with the load (`FollowUpBegin`) and save (`FollowUpEnd`) of the follow-up's registry
on the way, save (`ExecuteEnd`), load again (`PrepareBegin`), save (`PrepareEnd`).
Queueing evidence records an entry and, in a second round of load and save, may revive
it. Either process may die between a load and a save; a save itself writes a temporary
file and renames it. That both processes use the same `.tmp` path
(`hermes_watch.py:3025`) is left out.

### WatchRuns

`stack` holds the runs in progress; only the last one works, as `run_quiet` makes
its parent wait in `execute_regression_trigger`. A run's `pc` names the next save
of `main`: `begin` (build, smoke test or fuzzer), `index` (`update_crash_index`),
`policy` (decide, log), `known_bad`, `candidate`, `trigger` and `next` (the parts of
`apply_policy_action`), `followup` (waiting), `return` (save the trigger registry
that was loaded before) and `finish` (history, exit status). `decide_policy_action`
is the code's chain: base action, override by the profile's triggers, override by
the history's. What it needs of a crash are constants: its `Kind`, its `Severity`
and which triggers it matches. History triggers on times and coverage
may or may not match once they have their four entries (`Timed`).
The history is a bag of (outcome was a crash, fingerprint); `hist` is the one the
run loaded at its start. `Kill` ends the whole process group or the last run only,
which its parent takes for a failed follow-up.

`orphans`, `lost` and `owned` are history variables: families whose first run was
killed before the policy log, indexed runs that left no history entry, and
triggers an operator's own watch recorded.

### LiftRing, StreamIdwt and StreamFdwt

The state of a level is a record `s`; each static helper of the C++ files is an
operator from state to state. Samples are abstracted to where they come from:
`<<tag, r, l>>` is row `r` of picture (or component) `tag` after `l` correct
lifting steps. `Lifted` is the in-place `tgt -= coeff * (prev + next)`: it
yields the next level of its row only if the three slots *hold* what the filter
needs, whatever their `d_level` says. So a row evicted too early, an extension row
filled from the wrong source or a slot left over from the last picture turns into
`Junk` and shows at the output. Bands are interleaved in `Interleaved`, which
checks each part in the same way. Horizontal passes act within a row and are left
out, and so is what the sums add up to. The 9/7 of the encoder loops over the ring until
nothing changes: `AscendingPass` is one turn of that loop, in which a row sees what the
step before it has left, and `UntilStable` the result of the first turn that changes nothing.

### RowBuffers and DecodeLines

`RowBuffers` has an action for each way through `row_ptr`: prefetch hit
(`RowHit`), miss (`RowMiss`) and the end of the synchronous decode it began
(`StripDone`). The ring and the prefetch buffer are halves 0 and 1 of one
allocation (`combined_buf`), `ring[k]` says which is which. `FinishBlock` is a block
task: it writes the half it was dispatched for, whatever became of it. Which blocks
have no coding passes, and are zeroed at once, is free (`Dispatch`). `Rewind` is the
lambda of `reset_line_decode_cursors`, which waits for nothing; `BufNext` lets a
client rewind a buffer only after it has read its last strip, and that `DecodeLines`
keeps to this is checked and proved (`BufSpec`), not assumed.

`DecodeLines` has threads with a stack of tasks each. An idle worker, the driver at
its barrier and a strip inside `spin_wait` take tasks off the queue, so block tasks
nest on strips and strips on strips. A strip task's pull is split at each
subband row it reads (`PullChild`, `PullBand`, `PullFetch`, `PullReturn`; `calls` is
its stack of levels); lifting runs inside these steps, as no other thread sees the
component's transform states. Tasks may be taken in any order, which includes
the pool's. Any thread may take any queued task, here and in `EncodeLines`: a worker
of the pool drains up to `BATCH` of them into a chunk of its own, which helpers cannot
reach (`ThreadPool.hpp:332-357`). That chunk is in `ThreadPool`, but not in these
two. For their safety properties it makes no difference; `ImplementsLineSource`
and `EncodeEnds` are shown for tasks that stay within everybody's reach.
`shown` is what the callback was last given. `LineSource` says what that must be.

### EncodeLines

`PushRow`, `Emit` and `Flush` are the main thread: an emitted row goes to its bands
and, when it is a low-pass row, to the coarser level, which emits before the finer
one goes on. `written` records which rows were put, and whether rightly. The half of
a code-block row that completes it second submits the blocks (`Completes`,
`Submit`). The flags of a code-block row are set in the step that puts the row, not
after the coarser level has returned: the two write disjoint state. Workers take
blocks in the order of the queue (what `ThreadPool` refines). The overlapped blocks
and those of `t1_encode` have a counter each in the code; one is zero when
the other counts, so the model has one. A resolution has one precinct.
`rest` is the resolutions `t1_encode` has still to do. `RowsComeOut` says of `written` that
it is never wrong and, once the tile is flushed, complete.

### TilePackets

A packet is `<<layer, resolution, component, precinct>>`. `CreateTileBuf` goes up to the
loop over `porder_info`, `ReadVolume` is one turn of it, `ConstructPackets` and
`ConstructVolume` are the encoder's. `Nest` is what the nested loops go through, in
order, for each of the five progressions; `Reached` and `Hit` are the conditions in their
innermost body, and `Walk` counts precincts as `p_x`, `p_y` do. `Axis` is the geometry of
a resolution along one axis. `ReadFails` is the `catch` that drops the kept tile,
`NextFrame` the next call, with a cache hit or a miss.

`PacketsInOrder` compares with an order that is stated without loops: packets are sorted
by their progression's key, in which a precinct stands for its corner on the reference
grid. The order is that of ISO/IEC 15444-1 B.12, which the code implements.

### PacketHeaders

Bytes are sequences of bits. `WriteFrame` writes all packets of a frame: as
`generate_packet_header` and `packet_header_writer` do (`ours`), or as an encoder of
several layers would, which goes on with a node until it is above the threshold
(`TellAll`). `ReadPacket` and `ReadEmptyPacket` are `read_packet`. The reader's trees
(`incl`, `zero`), code-blocks (`cblk`) and bit position survive from packet to packet;
`NextShot` is `prepare_for_next_frame`. `BitsAfter` drops stuffed bits as `get_bit` does,
`EndOfHeader` is `check_last_FF` and `flush_bits`. The threshold-0 pass over the tree in
layers after the first is there as in the code (`FirstInclusion`). Bodies count bytes
only.

## 3. Runs

| Run | Instance | What it shows |
|---|---|---|
| `ThreadPool` | 2 workers, a helper, the destroying thread; 3 tasks; ring of 2; batch 2 | no task lost, doubled or overwritten; no lost wakeup; accepted tasks run; destruction drains and returns; refines `TaskQueue` |
| `FrameHandler` | all streams of three frames of 1-4 packets, header in one packet, reuse on or off; numbers modulo 8 from 5; up to 3 lost in a row, 2 late or repeated; any point of joining | only whole frames; nothing overwritten; resynchronisation |
| `FrameHandlerSplit` | header in two packets, no loss | *violation*, finding 2 |
| `RtpReceiver` | 4 frames, limit 2 | accounting, order, no frame slept over, limit exact, threads end |
| `RtpReceiverStop` | 1 frame, no limit | *violation*, finding 1 |
| `RefinerQueue` | review, its follow-up, and a seed in the follow-up's registry; all commands, 2 records of the watcher, 1 crash | coherence; the lifecycle goes back by stale saves only |
| `RefinerQueueRevive` | evidence review and a watcher's entry in one registry; commands up to launch, 2 records, 1 crash, 1 revival | coherence; scripts start once while their outcome stays on disk; prepared work is launched or taken back |
| `RefinerQueueStuck` | the same entries, all commands, 1 record, no crash | *violation*, finding 3 |
| `WatchRuns` | 2 watches with all their follow-ups, 2 crash families, 1 seed, 1 kill | nesting bounded and ending; occurrences accounted for; triage before known-bad; triggers kept |
| `WatchRunsOverride` | 1 shallow family, 5 watches | *violation*, finding 4 |
| `TileCodec` | 2 workers on each side; 75 shapes of tiles to decode twice, 4 of them with a pool; 63 jobs to encode, 3 of them with a pool; 120 tiles of packets, 45 of them written, the others read in 2 or 3 frames; 384 streams of headers | every row delivered once, in order, from the right samples, also on reused state; every row of the forward transform right and none held back; blocks coded once, from finished rows; nobody waits for good; packets in the order of the standard; reader and writer of headers agree |
| `LineCodecSlots` | two tiles, two workers | *violation*, finding 5 |

### Bounds

* `ThreadPool`: a ring of two against three tasks makes pushes overflow, also in
  the middle of a batch, and makes the indices wrap. Two workers and a helper
  suffice for every race between a notified worker, an awake one and a helper.
  A push that throws notifies nobody, so `AcceptedTasksRun` speaks of the runs
  in which no push was refused.
* `FrameHandler`: three frames are one before, one during and one after a
  disturbance. Numbers modulo 8 wrap within each long stream. Losses and delays
  stay below one wrap (`StreamAssumption`): 2^24 packets of loss would be taken
  for none.
* `RtpReceiver`: four frames fill both slots, the two hands and one eviction; the
  limit of two leaves frames in the pipeline when it is reached.
* `RefinerQueue`: two entries of one registry and one of another are what stale
  saves, of either process, and the follow-up need. `MaxRecords` bounds what the
  watcher records. Two records are one that puts an entry there and one that is stale for
  what the operator did to it since (recording a key that is there saves the
  registry all the same). `MaxCrashes` bounds crashes of the operator, `MaxRevivals`
  revivals. `Commands` names the commands the operator runs besides queueing evidence:
  `RefinerQueueRevive` goes up to the launch, as its properties speak of nothing later;
  `RefinerQueue` has all of them.
* `WatchRuns`: one watch grows into every nesting the code allows; the second
  meets the triggers and registries that the first, or its killed runs, left
  behind. The two families match the two triggers of the profile that start a
  follow-up, and come back as duplicates. Histories stay far below the cap of 200.
  `WatchRunsOverride` needs four runs before the failing one.
* `TileCodec`, lines: the shapes with a pool are the smallest in which components are pulled
  side by side over two outer strips, three strips are prefetched one after another,
  and a level reads two or four buffers at once; two block columns make a counter
  of two. `MinStripRows` stands for the 64 rows of an outer strip. The shapes
  without a pool vary what the transforms depend on: parity of both borders, heights below,
  at and above the rings' depths, both filters, one and two levels, all directions
  the stream supports, subsampling and the colour transform. Two pictures reuse
  the state once. Buffers hold whole block rows, or one (`geo`): strips that straddle
  block rows are left out.
* `TileCodec`, packets: three areas, one at the origin and two whose borders cut precincts
  in the middle; three sets of components with 0 to 2 levels, levels in one direction,
  precincts of 1 to 4 samples, and different subsampling in both directions; two layers;
  the five orders. POCs of two volumes that overlap in precincts already read, in the
  main header or in the first tile-part's, over three frames.
* `TileCodec`, headers: a byte has 4 bits (`ByteBits`), so that full bytes, and with them
  stuffing, come up in most headers. Blocks side by side, above each other, in two bands,
  in two precincts, and a grid of 3 by 2 whose trees have three levels; zero bit planes
  0 and 2; lengths that raise Lblock; pass counts in all five classes (1, 2, 3-5, 6-36, 37
  and more); three layers of other encoders, with EPH, PPT, an empty first packet, and
  the same frame again with the reset trees.

### Fairness

* `ThreadPool`: each worker, each `notify_one` that is due, each running task
  and a destructor that has begun make progress (the operating system schedules
  threads; the codec's tasks end). Nobody has to push, help or destroy. Mutex
  acquisition needs no more than weak fairness as a critical section is one action.
* `RtpReceiver`: weak fairness for each thread. Nobody has to close the window.
  The receive thread leaves its drain loop as the number of frames is bounded,
  which stands for what the comment at `pipeline_multi_threaded.cpp:43-48` relies
  on: the loop empties the kernel buffer faster than it fills.
* `RefinerQueueRevive`: a command that has begun ends (subprocesses have
  timeouts); the operator goes on running dispatch, bridge and launch, strongly fair
  as another command in progress disables each again and again. Which entry a command
  takes is not fair. The watcher owes nothing: it may stop between load and save.
  `PreparedIsLaunched` speaks of runs in which no save is stale any more from some time
  on. In the instance that comes true by itself when the records are used up; without
  the premise the claim is false, as a watcher with a stale save for every launch could
  take each back. Keys are finite: endless new entries are not covered.

* `WatchRuns`: weak fairness of the run in progress: builds, smoke tests and the
  fuzzer (by `-max_total_time`) end. Nobody has to start or kill a watch.
* `TileCodec`: weak fairness of every thread; no thread sleeps while it has something
  to do, as waits in the codec spin and yield. It is written out as
  `[]<>~CanStep(t) \/ []<><<ThreadStep(t)>>_vars`, where `CanStep` says when the step is
  possible: for TLC to find that out from the action it would run the transforms.
  Packets and headers have safety properties only.

### Findings

1. **The stop can be lost** (`frame_pipeline.hpp:102`). `notify()` and the store
   to `stop_flag` do without the slot's mutex. Both may fall between the
   predicate of `pop_wait` and the moment it blocks, after which the decode thread
   sleeps for good and `decode_thread.join()` hangs. Taking the mutex in
   `notify()` would close the window.
2. **A header in two packets is cached in part** (`frame_handler.cpp:180`).
   `assign` replaces the cache on each Main packet. When the main header spans an
   `MH = 1` and an `MH = 2` packet, a later frame that reuses it is handed out
   without its first piece, and the handler calls it complete.
3. **A launched entry can be armed again** (`hermes_watch.py:4380`). The finder
   of ready entries does not exclude `succeeded` and `failed`. A launched entry
   that is bridged once more shows `launch_succeeded`, but no finder takes it: it
   is neither launched again (for as long as its launch status stays on disk, which
   `LaunchedOnce` proves) nor verified. It takes no stale save to get there.

4. **The history can swallow the follow-up of a failure** (`hermes_watch.py:2987`).
   `fuzz-records/policies/fuzz-policy-v1.md:84` promises a regression trigger for every
   failed build and smoke test. A history trigger of equal priority replaces their
   action: after four crashes of which enough are repeated and shallow,
   `stability_drop` makes it `halt_and_review_harness`, for which no trigger is
   recorded, though the history says nothing about the failure.
5. **Two threads can share an allocation pool** (`coding_units.cpp:600`). A worker
   trusts its thread-local slot when its generation equals the tile's. Every tile has
   its own `EncodePoolCtx`, and its generation is 1 when the tile is encoded; so in
   the second tile a worker of the first keeps its slot while another one claims
   the same number from the new counter, and both allocate from one
   `cblk_data_pool`, which has no lock. `coding_units.hpp:43` says: "Each encoder
   thread owns its own instance via a per-thread slot". A generation that is
   global would do. In the first tile no pool is shared (`FirstTilePoolsNotShared`).

## 4. Theorems

`ThreadPoolProofs`, for any finite sets of workers and tasks, any ring and batch:

* `TypeCorrect`: types and *WindowFull*. Every slot between the indices holds a
  task, so that a drain never picks up an empty one. The argument is that a push
  writes slots at offsets below the free room from the tail, and a pop empties
  those at offsets below its count from the head, which never coincide modulo
  `RingCap`.
* `NoLostWakeup`: `NoStrandedWork`, from the types and *ExitedIsFinal* (who has
  returned found the ring empty after the stop).
* `TasksAreNeverLost`: every task has a place.
* `TasksAreInOnePlace`: `TaskInOnePlace`, so that no task is run twice or overwritten.
  The strengthening is *NothingTwice*: ring, chunks and threads hold each task at
  most once, and no two of these and of the fresh, refused and done tasks
  share one. A push takes different fresh tasks to different slots, as two slots
  never lie equally far past the tail; a pop empties the slots it reads.
* `PoolIsQueue`: `ImplementsTaskQueue`, every step of the pool is one of `TaskQueue` or
  changes nothing in it. A push extends the walk from head to tail by what fits, a pop
  drops its front; starting a task moves it between two places that the queue does not
  tell apart, and finishing one completes a task that, by *NothingTwice*, is nowhere else.
* `DestructorDrains`: `JoinedMeansDrained`, from the types, *ExitedIsFinal* and that no
  task is lost.

`FrameHandlerProofs`, for any streams, any width of the sequence number and any bounds on
loss, delay and repetition that stay below it:

* `FrameTypeCorrect` and `FramesStayCounted` (`EveryFrameAccounted`). The invariant
  `FrameInv` needs one more fact: a frame in progress never has its marker. So the
  finalize that a change of timestamp causes never hands out a frame, and the one
  `out_frame` of a push is enough.
* `EmittedFramesAreComplete`: `EmittedIsComplete`, if every stream is a `OneHeaderPacket`
  (TLC checks of the streams of the run that they are; the streams of
  `FrameHandlerSplit` are not, and there the property fails). `CompleteInv` says that
  the handler remembers the number of the packet that arrived last (*Recent*), that a
  frame is in progress exactly after a packet without marker, and that, while intact,
  the accumulator is what was sent of the frame so far (*InProgress*). A packet with
  the next number is the next packet (`NextIndex`), as losses and delays together
  stay below one wrap of the numbers.
* `WholeFramesArrive`: `IntactFramesArrive`, if moreover no frame of the stream is empty
  (`NoFrameEmpty`). A call leaves the frame intact exactly when the packet was the next one
  and the frame had, or now has, its main header (*Sound*), and `seq_gaps` counts exactly
  the packets that were not; so the frame that began `run` packets ago was never spoiled.

`RtpReceiverProofs`, for any number of frames and any limit: `ReceiverTypeCorrect`,
`FramesStayAccounted`, `PipelineStaysInOrder`, `NoFrameIsSleptOver`, `LimitStaysExact`.
The inductive invariant `ReceiverInv` has them as parts and adds: a thread holds a frame
exactly in the steps that handle one (*Hands*), every frame in the pipeline has been
emitted (*Numbered*), frames are ordered along all pairs of places from the window
back to the receive thread (*Order*), and a decode thread that is about to block
has found the slot empty (*Sleeper*).

`RefinerQueueProofs`, for any keys, registries and follow-ups, any number of crashes
and revivals: `QueueTypeCorrect`, `EntriesStayCoherent`, `BridgeScriptsRunOnce`,
`LifecyclesGoForward` (`LifecycleNeverRegresses`).

`LifecyclesGoForward` says which steps may take the lifecycle of an entry back: a revival
of that entry, and a step of a process that has loaded another version of the entry than
the one on disk. The latter does happen, by either process. What the theorem rules
out is that anything else does: a command that works on another entry of the file, the
merge of a follow-up, a launched entry that is armed again, a crash.
`BridgeScriptsRunOnce` counts the starts of a script since the entry's launch status was
last missing from the disk: a second start takes a crash that lost the outcome, a
revival or a stale save, and by `LifecyclesGoForward` a save is stale only where
another process saved the file meanwhile.

The inductive invariant `QueueInv` adds to the properties

* *Sound* entries on disk and in the hands of both processes. *Coherent* is
  `StagesCoherent` for one entry; *Lags* says that the lifecycle claims no more than
  the fields do, except at the start, where a merge sets the status back and leaves
  the lifecycle. As what is loaded may be arbitrarily old, nothing is said of how it
  compares with the disk: it was sound when it was loaded, and that is enough;
* that a process still holds each registry it has yet to save (*Held*), and that the
  entry in hand, **as loaded**, is what its finder looked for (*CommandFits*);
* *LaunchesLeft*: an entry without an outcome on disk was not started since, unless
  the script runs right now.

Of the constants the argument needs no more than that a review's follow-up has a key.

`WatchRunsProofs`, for any crash families, seeds, severities, history triggers, number
of watches and kills:

* `WatchTypeCorrect`: types, and that a run that is about to record a trigger has
  decided on one of the four actions that have one (*ActionsFit*).
* `NestingIsBounded`: no more than four runs nest. `NestingBounded` is not inductive;
  *Nest* is. A run that waits has a follow-up after it (*WaitersFollowUp*); that
  follow-up runs in the mode of its trigger, which is not its parent's mode, as such
  a trigger is skipped (*ModesAlternate*); the triggers being followed up stay
  "recorded" in the file while the last run may start another one
  (*WaitersStayPending*: the only saves that could change them are by runs that do
  nothing afterwards but end); so the most urgent pending trigger is at least
  as urgent as the parent's, and as its mode differs, more urgent (*UrgencyGrows*).
  The four reasons have, by urgency, the modes regression, triage, triage,
  regression, in which an alternating sequence has three members.
* `OwnTriggersAreKept`: `TopLevelTriggersKept`. Not only the file but also the copy each
  waiting run will save over it must have the trigger (*OwnKept*); a copy is
  taken while the run is the last one, with the trigger in the file.
* `FamiliesAreTriaged`: `NoFamilySkipsTriage`. A family in the crash index has been decided
  on as new, or a run that found it new is about to (*Triaged*); only a kill in between
  breaks that, and makes the family an orphan.
* `CrashesAreAccounted`: `CrashesAccounted`. The runs that have counted a crash of a family and
  not yet written their history entry are a set of positions of the stack; a step changes
  the last position or removes it, so the count changes by at most one, exactly when the
  index or the history does. A killed group is counted as a whole.

`LiftRingProofs`, for a level of any height and position, either filter, and a ring of 8 or
12 rows, has no theorem but the lemmas both directions of the transform rest on:

* *InRing*: a row has a level exactly when the row it shows, itself or the one it
  mirrors, has entered (*Arrived*), no slot being shared by two rows that are kept
  (`SlotsDiffer`: remainders by the ring's depth); its samples then are that
  row's, of this picture, with as many steps as the level says (*Faithful*); and the two
  parities stay within a step of each other (*Staggered*), without which a neighbour might
  be a step too far when a row is lifted. `EnterKeeps`, `LiftKeeps`, `PhaseKeeps` and
  `EvictKeeps` keep it.
* *Leaving*: the rows that left had all their steps, and when any was given up, one that
  left is still kept. *AtRest*: no row can be lifted; a cascade ends so, as the steps it
  still has to do are ranked (`PhaseRests`, `AllDoneRests`). In such a ring a row waits for a
  neighbour of lower rank or for one that has not come (`WaitsFor`), so its next row is held
  back only for want of one of the four after it (`NotHeldBack`): that is why evicting behind
  what left, in 8 or 12 rows, takes nothing that is still needed, and why all rows are
  out once the last is in. `Steady` is the three together.

`DecodeLinesProofs`, for any tile shape a codestream gives, any number of components,
levels, workers, block columns and pictures, with and without a pool:

* `RowsSettled`, of the row buffers by themselves, for any client that keeps to their
  contract: what `row_ptr` hands out is decoded, is the strip it claims, and is
  written by nobody. The inductive invariant `BufInv` says of each buffer that
  `par_cnt` counts the tasks outstanding (*Counted*), that these all write one half, the
  one being waited for or prefetched, with the strip and the picture it will be taken
  for (*Aimed*), and that each column of that half either is there or has its task
  (*Arriving*). The contract that a buffer is rewound only after its last strip
  was reached is needed: with a prefetch in flight, `par_cnt` would restart at zero
  under tasks that will still decrease it.
* `DecoderKeepsContract`: the decoder is such a client, `BufSpec`. The hard case is
  `NextPicture`, which rewinds all buffers without waiting for anything. The inductive
  invariant `DecInv` follows the rows from the callback down to the bands. *Paced*: the rows
  the driver delivered of a component were handed out by its finest level, so that after
  the last strip it has handed out all, and has read all its rows. *Chained*: the low-pass
  rows a level has taken in were given by the level below it; so by induction on the
  levels all of them have read all their rows. *Drawn*: a band whose last row was taken in
  had its last strip in the ring, and still has; then nothing is prefetched. *RingOK*,
  for every level: nothing lies in the ring that has not entered, so a level never hands
  out a row ahead of those it has read. *TaskOK*: the strip of a component is
  waiting, held once by one thread, or over, and `pull_cnt` counts those not over; so the
  barrier is passed, and the next strip begun, only when every pull has returned.
* `DecodedRowsSettled`: `ReadsSettled` of the decoder, by the two before.
* `DecodeTypeCorrect`: `TypeOK`, in which the frames of a pull are consecutive levels.
* `DecoderDeliversSource`: every step of the decoder is one of `LineSource` or changes
  nothing in it, which is `ImplementsLineSource` without its fairness. So the callback is
  shown each row of each picture once, in order, wholly lifted from that picture's samples.
  It has three parts.
  *A ring between two rows of its source* (`Streamed`, with the lemmas of `LiftRingProofs`
  above).
  *A pull*: `Told` adds to `DecInv` that every ring is at rest, of this picture and filter
  (*Lifts*), that the levels above the one on top wait, and that the row on its way up is the
  one asked for (*Poised*), and that no level gave more than was asked of it (*Exact*);
  with the buffers' theorem a subband row is of this picture (*InPicture*).
  *The driver*: a component has given the rows that the driver counts, into the strip's
  buffer in order (*OnTime*, *Handed*), and `shown` is what `LineSource` promises.
  Two hypotheses are left. There is a code-block column. And *Aligned*: when a tile has
  several strips, a strip has whole rows of every component. The code rounds the height
  of a strip up to a multiple of the *largest* subsampling factor
  (`coding_units.cpp:4759`), which is enough unless a smaller one does not divide it, such
  as 3 beside 4; then `strip_y0 / yr` is rounded (4799) and the rows the driver reads are
  not the ones pulled. Its comment (4750) says that the rounding puts every boundary on a
  row of every component.

What is assumed of the shapes is `WellFormed`, which TLC evaluates for those of the runs: a
component has no more rows than the first has at its subsampling, those of the colour
transform have as many as the first, and `Bufs` names every band.

`EncodeLinesProofs`, for any tiles, workers and block columns, with and without a pool:

* `BlocksInvariant`: the bookkeeping of the code-blocks. *LinesInv*: a level has put its rows up
  to `nextOut`, and the flags of its block rows are the halves of which the last of
  these rows is out, or which have no such row. *Placed*: a block is queued once, held by one
  thread or coded just when it is handed over (*IsSent*), which for an overlapped
  component is when both flags of its row are set, for any other when `t1_encode` has
  gone past its resolution. *Waited*: `enc_remaining` is the number of blocks queued and
  held, so that the next tile begins with none.
* `NoBlockCodedTwice`: of `EveryBlockCodedOnce` the half that needs nothing else. The row that
  completes half of a block row sets a flag that was not set, so a block row has both
  flags set once.
* `TransformInvariant`, for every tile and either filter; it has two storeys.
  *Rested* is about the ring of one level between two calls: it is `Steady` and keeps at
  most four of the rows that left. One lemma per operation: `PushedRests`,
  `EmittedRests`, `FlushedRests`. The last of them shows that in a ring of two rows or more
  `flush` finds no extension row to fill: each was filled when the row it mirrors came.
  Levels of one row (*Lone*) and of none (*Void*) are apart.
  *TransformInv* is about the chain of levels: a level has taken in the rows it was due
  (*RowsDue*: of the image for the finest, half of the rows out of the level above for
  others), so that after the last flush, from the finest level down (`AllRowsOut`), none is
  held back. `HalvedRows` is the arithmetic of that: the even rows of a level, counted from its
  first, are the rows of the next.
* For the 9/7 the loop of `cascade_f` has to be followed (`StableRests`). It lifts rows one
  at a time, and a step that another one enables has a higher rank, which counts the four
  kinds of steps A, B, C and D (`StepRank`). So after `k` passes over the ring no step of the
  first `k` kinds is possible any more, and after four, as the comment in `cascade_f` has it,
  none at all, and a pass that changes nothing shows that there is none.
* `EveryRowComesOut`: `RowsComeOut`, from that invariant.
* `BlocksReadOnlyFinishedRows` (`BlocksReadFinishedRows`) and `EveryBlockIsCodedOnce`
  (`EveryBlockCodedOnce`), from the two before. What is added here is that each block's last
  row lies at or above the row that completed the second half, also where a band has
  blocks in a block row past its own height: the tops of HL and LH are equal in an
  overlapped component, and the other half then covers it. The second has the hypothesis
  *RowsCounted*, that `num_cblk_rows` counts every block row of the overlapped bands.
  `AlignedRowsCounted` shows that it does where bands start at a multiple of the block
  height; in other tiles the overlap drops a block row (`coding_units.cpp:6406`).
  `OriginTilesAreCodedOnce` is the theorem without it, for tiles that start at row 0.
* `FirstTilePoolsNotShared`, that `PoolsNotShared` holds as long as the first tile is encoded
  (in later ones it does not, as run `LineCodecSlots` shows).

What is assumed of the jobs is `JobsAssumption` (tiles have rows in order, at least one
level and blocks of positive height) and `PowersAssumption` (what a power of two is).

Only model-checked:

* all liveness properties (out of the prover's reach): `AcceptedTasksRun` and the others of
  the pool, the receiver, the queue and the watch, `EncodeEnds`, and of
  `ImplementsLineSource` that the decoder gets to the last row;
* `PacketsInOrder`, about loops over the geometry of all resolutions, and `HeadersAgree`,
  about folds over bit strings: both would take inductions over data.

## 5. Not modelled

* Singleton and release of the pool, and tasks that throw.
* `FrameHandler::reset` and senders that change the main header while it is reused.
* The pacer: there is no time in the models yet.
* Queue weights and the candidate registry, which decide which entry is next;
  `queue_harness_apply_recovery_followup`, which records one more kind of entry;
  two operators at once, the shared `.tmp` path, a crash between two of the saves of
  a finder. That a stale save loses entries or takes launches back, and that it, or a
  crash between two saves, strands a planned entry, is in the model. Nothing in the
  repository promises otherwise, so no property excludes it.
* The fuzzer's output and the timing of progress and stalls, status files, reports
  and notifications of a watch, `--skip-build`, the cap on the history, two watches
  side by side, corpora. That triggers recorded by nested runs are lost, and that
  a kill between crash index and policy log leaves a family nobody triages, is in
  the model (`TopLevelTriggersKept` and `NoFamilySkipsTriage` say what does hold).
* Of the codec: whole-tile decoding and encoding; tiles whose bands are not aligned to
  code-blocks. For the encoder such a tile has a block row more than the
  overlap counts (`coding_units.cpp:6406`), which is then never coded; the comment at
  6490 says that the bands of an overlapped component are. Rate control, colour, the
  sums of lifting steps, the geometry of code-blocks in a precinct.
* Of packets and headers: SOP, PPM, placeholder passes and HT blocks of more than three
  passes, RESTART, BYPASS and MIXED code-blocks, several tiles.

Met while modelling packets and headers, and left out of the properties:

* A POC is lost on a kept tile (`coding_units.cpp:3147`): `add_tile_part` has put it into
  `porder_info` when `create_tile_buf` clears that. The model does so, and
  `PacketsInOrder` leaves such frames out. The fingerprint that decides on a cache hit
  (`decoder.cpp:745`) covers neither the POC nor, of COC, QCC and RGN, more than how
  many there are.
* A POC in the header of a tile-part other than the first is ignored
  (`coding_units.cpp:3124`). The model has POCs in the first one only.
* The reader loses step when a block is first included after empty packets that left its
  tree behind by more than the two visits it gives each node (`coding_units.cpp:1048`):
  two at the start, or one after the first layer. This encoder writes no such stream.
* The comment at `coding_units.cpp:1020` says MIXED mode is when both bits 14 and 15 of
  Ccap15 are set; the code takes either.
* `1U << (cPP.x + hd)` (3344) is undefined from 32 on, for precincts of 2^15 under 17
  levels and more.
* File formats, graphics, shell scripts, text.

## 6. Plan

In this order; done so far is the part above the line.

1. `TaskQueue`, `ThreadPool`, with proofs.
2. `FrameHandler`, with proofs.
3. `LatestSlot`, `RtpReceiver`, with proofs.
4. `RefinerQueue`, with proofs.
5. `WatchRuns`, with proofs.
6. `LiftRing`, `StreamIdwt`, `StreamFdwt`, `RowBuffers` with proofs, `DecodeLines`,
   `LineSource`, `EncodeLines`.
7. `TilePackets`, `PacketHeaders`.

---

8. `HarnessApply`: guarded apply, build and smoke probes, rollback, retry budget,
   recovery routing into the regeneration queue; crash between steps.
9. `CorpusSync`: synchronisation, quarantine, repair of the latest crash state;
   supervision of the fuzzer: reader, pipe, stall detection, stopping.
10. `Pacer`; operators for the RFC 9828 headers, candidate ranking.
