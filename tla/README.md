# Verification project for transcode

transcode is a video transcoder written in C. A process opens one input, decodes it in an audio
and a video *import thread*, passes the frames through *frame processing threads* that run the
filters, and encodes and multiplexes them in the *export loop*, which runs in the main thread. A
fourth thread waits for signals, and an optional fifth one serves a control socket. Everything
these threads share goes through two frame rings (`src/framebuffer.c`), one run status
(`src/runcontrol.c`) and a few unsynchronised globals. This directory holds the TLA+ models of
that machinery, the TLC configurations that check them, and the TLAPS proofs about them.

## Inventory

Paths are relative to the repository root; the tables of `PROJECT.json` name the exact lines.

| Component | State | Operations | What is hard | What makes it correct |
|---|---|---|---|---|
| Frame queues (`src/framebuffer.c`) | circular array (`first`, `last`, `num`) or binary heap in an array | `fifo_get/put`, `heap_get/put`, sift loops | wrap-around; the sift-down loop looks one slot past the end; equal ids of clones | the FIFO is a bounded FIFO; the heap always returns a smallest id |
| Frame pools (`src/framebuffer.c`) | a queue, a mutex, a condition, `waiting` | blocking `get_frame`, `put_frame`, `wakeup` | lost or swallowed signals, spurious wake-ups, interruption | no frame stays in a pool while a thread sleeps for it; an interruption releases every thread |
| Frame rings (`src/framebuffer.c`) | five pools per medium, the frames and their status | register, reserve, retrieve, push_next, remove, reinject, dup, flush, interrupt | ownership of a frame crosses threads; flush and interrupt run against live threads | every frame is in exactly one place; none is lost; one owner at a time |
| Frame threads (`src/frame_threads.c`) | run flag and workers per medium | init, close, worker loops, clone handling | frames pass several workers, clones are registered while others register, end of stream stops only one worker | every imported frame reaches the READY pool once |
| Import threads (`src/decoder.c`) | `active` flag, return status, frame counter | create, cancel, import loops, multi-file import | cancel against a blocked importer; end of stream is a frame attribute | every stream ends with exactly one END_OF_STREAM frame |
| Export loop (`libtcexport/export.c`, `encoder.c`, `src/encoder-buffer.c`) | counters, skip interval, error flag | `tc_export_loop`, acquire, encode, multiplex, dispose, clone reinjection | pairs two streams whose frames can be skipped, cloned or interrupted independently | audio and video stay paired; every acquired frame is disposed of; counters add up |
| Multiplexor and rotation (`libtcexport/multiplexor.c`) | rotors with their limits and counters, open files | open, write, rotate, close, limits | a rotation in the middle of a pair; a failure between closing a chunk and opening the next; a limit set before the rotor it is for exists | a pair stays in one file; no file is opened twice; a limit set before the output is opened is kept (it is not, see the findings) |
| Synchronizer (`src/synchronizer.c`) | counters of both media, saved frame | none / adjust methods | two threads update shared counters | every source frame is delivered once, dropped or repeated as the counters say; a drift inside the margin corrects nothing |
| Run control (`src/runcontrol.c`) | run status, pause flag | start, stop, interrupt, pause | signal handler against its own thread, pause against interruption, a test of the status followed by a sleep | an interruption ends the program |
| Session (`src/transcode.c`) | the transcoding modes | default, directory, PSU and DVD modes, event thread | order of start, stop, cancel, flush and join | the program always ends |
| Filter chain (`src/filter.c`) | table of filters | add, remove, find, enable, process | the socket thread edits the table that workers walk, without a lock, and the walk reads an id up to three times | a frame enters initialised filters only; none that stays enabled is passed over |
| Module factory (`libtcmodule/tcmodule.c`) | descriptors with reference counts, instances | create, delete, load, unload | partial failure of load and init | a plugin stays loaded while an instance lives, and goes with its last one |
| Lists and globs (`libtcutil/tclist.c`, `tcglob.c`) | doubly linked list with an item cache; match cursor | append, insert, pop, iterate | recycled items | the list is the sequence of inserted items |
| Control socket (`src/socket.c`) | connection, preview mailbox | command handlers | commands against running workers and against the shutdown | no command keeps the program from ending |
| Frame codes and ranges (`libtc/framecode.c`) | list of time ranges | parse, in-range tests | boundary frames | a range is half open |
| Profiles, configuration, probing (`libtcexport/export_profile.c`, `libtcutil/cfgfile.c`, `src/probe.c`) | options | parse | text formats | - |
| Containers (`avilib/`), codecs and modules (`import/`, `export/`, `encode/`, `decode/`, `demultiplex/`, `multiplex/`, `filter/`) | file formats, codec state | read, write | byte formats, third-party codecs | - |
| Pixel and sample kernels (`libtcvideo/`, `libtcaudio/`, `aclib/`) | none | arithmetic on buffers | data volume | - |

## The modules and the code

| Module | Code | What it is |
|---|---|---|
| `BoundedFifo`, `PriorityPool` | what `tc_frame_queue_get/put` promise | abstract specifications |
| `FrameQueue` | `TCFrameQueue` | the size, which both flavours of the queue have |
| `FrameFifo` | `fifo_get`, `fifo_put` (`src/framebuffer.c`) | the circular array |
| `FrameHeap` | `heap_get`, `heap_put`, `heap_up`, `heap_down` | the binary heap, one action per iteration of a sift loop |
| `FramePool` | `tc_frame_pool_get_frame`, `put_frame`, `wakeup` | one pool: mutex, condition variable, sleepers |
| `FramePipeline` | frame ring, import loop, frame threads, encoder buffer, shutdown | one medium, from the source to the encoder |
| `ExportLoop` | `tc_export_loop`, `transcode_mode_default` | two media, paired and selected by the main thread |
| `Session` | the four modes of `transcode.c`, `decoder.c`, the flush of `framebuffer.c` | both media through several units: cancel, flush, restart |
| `Synchronizer` | `synchronizer.c` between `decoder.c` and `tc_export_loop` | frames asked for, delivered, dropped and cloned |
| `Multiplexor` | `multiplexor.c` and its callers in `export.c` | rotors, chunks and failures |
| `FilterTable` | `filter.c` | the table of filters and the walk through it |
| `ControlSocket` | the filter commands of `socket.c`, the shutdown of `transcode.c` | composes `FilterTable` with a frame, the client and the shutdown |
| `Interruption` | `runcontrol.c`, `event_thread`, `socket.c`, the claims of `framebuffer.c`, the shutdown | signals, pause and end of the job against all the threads that sleep |
| `ModuleFactory` | `libtcmodule/tcmodule.c` | descriptors, reference counts, deletion |
| `MC*` | - | the instances for TLC |
| `*Proofs` | - | theorems; `FrameBufferProofs` has those about `FrameFifo`, `FrameHeap` and `FramePool` |

The modules are levels of one system. A pool in the code is a queue behind a monitor:
`FrameFifo` and `FrameHeap` are the queue and show that it is a bounded FIFO or a bounded bag
that returns a smallest id; `FramePool` is the monitor and takes the queue as a set, because the
order does not matter to it. `FramePipeline` takes both results for granted: a claim, a put and a
wake-up are one action each, on a sequence, FIFO for the pools NULL, EMPTY and WAIT and ordered by
id for READY. `ExportLoop` finally takes for granted that a source delivers its frames in order,
each again if it is reinjected, and then the mark of the end: `InOrder` and `NoneLost` of
`FramePipeline` say so, with at most one frame thread. With more of them they do not hold (see
the remarks), and then the results about `ExportLoop` do not apply either.

The other modules look at the same machinery from further sides. `Session` has both rings and the
main thread over several units, without frame threads; `Synchronizer` sits between the source and
the rings, which are bounded queues there; `Multiplexor` is behind `tc_export_frames`;
`ControlSocket` has the frame threads only as walks through the filter table and the main thread
only as the one that stops and unloads; `Interruption` has every thread that sleeps in a pool, and
of a pool only how many frames it holds. `ModuleFactory` is what all the modules are created by.

**FrameFifo.** `array`, `population`, `first`, `last` are the fields `frames`, `num`, `first` and
`last` of `TCFrameQueue`; `answer` is what the last call returned. Get and put have one action per outcome.

**FrameHeap.** A frame is represented by its id, the one field the heap compares. The sift loops
run under the lock of the pool, so no other operation interleaves; they are modelled iteration
by iteration because the interesting states are inside of them (the stale slot of `heap_down`).

**FramePool.** A thread goes through `loop` (the test of `tc_running`), `claim`, then `has`, or
`blocked` and `woken`. The code between a lock and its unlock, or between either and
`pthread_cond_wait`, is one action. A woken thread must get the lock again, so that one that never
slept can take its frame first; `pthread_cond_wait` may return for no reason. `outside` are the
frames that other pools and threads have; anybody may put them.

**FramePipeline.** One action per call of the frame ring. What a thread does to a frame that only
it holds (filling, filtering, marking) is part of the step that claims or publishes the frame,
except where the code reads or writes the frame after it has published it: then the steps are
separate (`vframe_dup`, `vframe_dup_put`, `dup_mark`, `dup_push`). The importer is
`video_import_loop`, a worker is `process_video_frame`, the encoder is the main thread with
`encoder_acquire_vframe`, the loop of `tc_export_loop`, `encoder_dispose_vframe`, `tc_stop_all`,
`tc_import_threads_cancel` and `tc_frame_threads_close`; the event thread delivers one signal of the
user. Filters are external code: a slot may set `IS_SKIPPED` or `IS_CLONED` wherever the `setup`,
chosen at the start, says so. The histories `encoded`, `wanted` and `doubled` exist for the properties only.

**ExportLoop.** A state is the loop's position, the ids and attributes of its pair of frames, the
counters of `export.c` and how far each source has been read. A job (ranges, interval, length of
the streams, what may happen) is chosen at the start and never changes.

**Session.** `pc` has the position of the main thread in the mode, of each import thread in its loop
and of the event thread. A part is a range, a unit or a file; `pool`, `status` and `mark` are those
of both rings. A frame remembers in `origin` which moment of which part it is from, and `encoded` has, for
each part, the pairs that reached the encoder. The flush takes one step for each index (`flushed`), the
audio ring first; only the main thread runs then.

**Synchronizer.** A frame is the number of the source frame in it, a fill that fails leaves what the
buffer held. The test of the run status (`import_loop`), the claim and the sleep (`register`,
`register_wait`) are steps of their own, so that the program may stop between them. `adjust_get` and `adjust_decide` are the two halves of `tc_sync_adjust_get_video`: the
audio thread counts between them, since nothing is locked. `due` and `too_far` are its conditions.

**Multiplexor.** A rotor is a record, and every rotor that was ever allocated stays in `rotors` with
its `live` flag, as a file does in `chunks`. The client is `export.c` as the modes call it; every
call to a module answers TC_OK or, while `left` is not zero, TC_ERROR.

**FilterTable, ControlSocket.** Nothing is locked, so each access to the shared table is a step of
its own. The walk reads the id of a slot (`process_id`), its flag and the choice so far
(`process_enabled`), both ids again (`process_compare`), and the id of the choice once more
(`process_last_id`); where the C compiler may use the value it has or load it again, the model does
either. A removal closes, unloads and clears the slot in three steps, and `enabled` and the id stay
until the last one. An addition writes the id, calls INIT and sets `enabled` in separate steps; only its search for a
slot and an id is one step (`add_reserve`), because nobody else adds. `tc_filter_fini` is one pass
over the slots (`cursor`). A call into a filter whose code is unloaded ends the program (`crashed`).
`applied`, `early`, `removed`, `steady` and `reconfigured` are histories for the properties.

**Interruption.** The importer, the frame threads and the main thread go round the same loop: test of
the run status, test of their flag, claim, `asleep`, `woken`, `has`. A test and the claim that follows it are two
steps, and a claim falls asleep without a look at the status. `Interrupt` are the mutexes that
`tc_interrupt` and `tc_framebuffer_interrupt` take one after the other; the event thread does so for an
unknown command (`serving`), and the signal handler (`handling`) does so on the event thread, wherever
that is: in particular while that thread is in a mutex (`held`), which it then waits for. `late` remembers
who has fallen asleep after a test that the stop has outdated, and has not been woken since.

**ModuleFactory.** The library is called by one thread, and a call is an action. `orphans` is a
history: the descriptors in which an initialisation failed since their plugin was loaded.

## The runs

| Run | Bounds | Distinct states |
|---|---|---|
| `FrameQueues` | queues of 7 slots: a FIFO with 2 frames, a heap with 4 ids, so that ids repeat | 356 946 |
| `FramePool` | 2 frames, 3 threads, broadcast | 2 794 |
| `Pipeline` | 3 buffers, 3 frames and the end, one or no worker, all filter marks; 2 buffers with up to 2 workers, failures and interruptions; duplicates by one worker | 718 113 |
| `ExportLoop` | streams of 3 to 7 frames, one or two ranges, intervals 1 to 3 | 124 193 |
| `Session` | rings of 2 frames, one or two parts of up to 4 frames, all modes | 253 879 |
| `SessionFlush` | two units | violation |
| `Synchronizer` | rings of 3, sources of up to 6 frames, margins 0 to 4, intervals, shifts -1 to 6 | 625 462 |
| `Multiplexor` | one unit of 4 pairs with 2 failures, two units of 2 pairs, limits by frames and by size | 210 316 |
| `MuxSplit` | one unit of 4 pairs, a limit of 1 to 3 | violation |
| `ControlSocket` | 2 filters, 3 slots, up to 4 commands | 953 502 |
| `Interruption` | a ring of 2 frames, up to 2 frame threads, 2 commands or 1 and a signal | 574 914 |
| `ModuleFactory` | 4 plugins, 3 slots, 4 instances | 7 084 up to symmetry |

What they show, and why the bounds are enough:

- `FrameQueues`: a queue of each flavour; they share nothing, so a behaviour works on one of them.
  The two positions of the FIFO wrap independently, with each population from empty to full at each
  position, and two frames tell the slots apart; `ImplementsFifo` is the refinement of `BoundedFifo`. Seven slots are a complete
  tree of three levels, so that a sift loop can stop in the middle, a node can have both sons, only the
  left one, or the stale slot as its son.
- `FramePool`: with more threads than frames a woken thread loses its frame to one that barges in;
  with two frames two signals are on their way at once. `WaitingExact` and `NoFrameLeftBehind` are
  what makes "signal only if somebody waits" right; `SleepersReleased` needs the broadcast.
- `Pipeline`: the setups are chosen at the start. Undisturbed, three buffers carry four frames, so that
  every buffer is used again and NULL, WAIT and READY can each be empty; filters skip in all four
  slots and clone in the late ones, where the clone is made by reinjection: `InOrder`, `NoneLost` and
  `SessionEnds` are the promise of the pipeline. Disturbed, two workers, the importer, the encoder and
  an interruption get at two buffers in all orders; then `StatusIsPool` is claimed. With a frame thread
  that duplicates frames, `DamageContained` says that its double put is the only way for a buffer to
  be in two places, and that nothing is lost before it happens.
- `ExportLoop`: intervals of three and ranges with every start and end around streams of four to
  six frames contain every position of a range relative to the end of a stream and to the period of
  the interval. Delays and clones are tried with one range.

- `Session`: rings of two frames are used again within a part, and can be full of frames left behind
  when the part ends. `FramesConserved` is checked through every cancel, interruption, flush and
  restart; `PartWhole` says what reaches the encoder of each part; `InterruptObeyed` and `SessionEnds`
  what an interruption and the ends of the sources do. The conditions in the last two and in
  `PartWhole` are where the code does less (remarks); the sessions leave more than a ring holds, exactly
  as much, and less.
- `Synchronizer`: margins below, at and above the size of a ring. `VideoAccounted` ties what is
  delivered to the counters of clones and drops, `NoNeedlessCorrection` says that a margin as large as a
  ring never corrects, whatever the scheduling.
- `Multiplexor`: limits that a pair reaches exactly and that fall between its two frames, failures at
  each call, and a second unit. A limit that is set in the order `multiplexor.h:47-48` requires is lost
  (`MuxSplit`), so that the code of the rotation is reached only by the sessions that set it when the output is
  open; both kinds are run. What is checked there is that a rotation loses no pair, no file and no rotor; where it
  takes place is not claimed.
- `ControlSocket`: three slots are full after three loads, so that a fourth finds none or takes the
  slot of a failed initialisation again; with three filters in the table the walk compares, passes by and
  starts over, and every access of it can meet every step of the next command and of the shutdown.
- `Interruption`: with two frames each pool can be empty while another one is not, and two frame
  threads share the pool that is broadcast to; a command and a signal are two interruptions at once, one
  of them inside the other. A ring with more frames only delays the first sleep.
- `ModuleFactory`: more plugins than slots; the descriptor that stops the deletion of the factory has
  others before and after it.

The limits on state are constants: `MaxClones` (no filter clones a frame to be encoded more often),
`MaxModules` and `MaxCount` in `ModuleFactory`, the length of the sessions, and in `ExportLoop` one
counted clone. They are named in the modules; no state or action constraint is used.

Deadlock is checked in `FrameQueues`, `ExportLoop`, `Multiplexor` and
`ModuleFactory`. It is off in `FramePool`, where every thread has left its loop and no frame is outside
in the end; in `Pipeline`, where a worker may stay asleep or wait for a buffer for ever (remarks); in
`Session`, `Synchronizer` and `Interruption`, where the program has ended, or an import thread that missed
its wake-up is joined for ever, or the signal handler waits for its own thread; in `ControlSocket`, where the program ends or
crashes; and in the violation runs, which check one property each.

### Fairness

The specification of `FramePool` has weak fairness for each claiming thread (a thread that can run
does, the mutexes are held for a few instructions only) and for the interruption once the program
was stopped, because `tc_stop_all` calls one right after the other. Nothing forces a frame to be
put, a spurious wake-up, or a stop. `FramePipeline` has weak fairness for each of its threads as a
whole; the signal handler's thread finishes its wake-ups once it has begun, the user need not send
a signal. The source is finite because a file is. `ExportLoop` is one thread with weak fairness;
its blocking claims are disabled, not looping, when a source is exhausted, so that waiting for ever
shows up as a deadlock and in `AllRangesTried`.

In `Session` and `Synchronizer` every thread has weak fairness as a whole, and nobody needs to send a
signal. POSIX lets a sleeper be overtaken at its mutex again and again, and `SleepersReleased` and
`SessionEnds` hold all the same. `Interruption` has weak fairness for the main thread, for each import
and frame thread, for the event thread and for a signal handler that has begun; commands, signals,
connections and the end of the job are never promised. That a thread waits for a mutex of the event
thread is a guard there, and weak fairness is enough because the event thread leaves it in its next
step, or never does (`SelfDeadlock`). `ControlSocket` claims no liveness and assumes no fairness.

## Proofs

| Theorem | Says, for every value of the constants |
|---|---|
| `FrameBufferProofs!ArrayCorrect` | the three indices of the circular array agree and stay inside |
| `FrameBufferProofs!FifoRefinement` | the circular array implements `BoundedFifo` |
| `FrameBufferProofs!HeapCorrect`, `StaleSlotIgnored` | the sift loops restore the heap; the stale slot is harmless |
| `FrameBufferProofs!SmallestFirst` | a get returns a smallest id |
| `FrameBufferProofs!HeapRefinement` | the heap implements `PriorityPool` |
| `FrameBufferProofs!PoolSafe`, `PoolTyped`, `WaitersCounted`, `FrameOwnedOnce` | `waiting` is exact, no wake-up is lost, every frame has one owner |
| `FramePipelineProofs!DamageIsContained` | only a frame pushed twice by a frame thread is in two places; before that no pool refuses a frame and none is lost |
| `FramePipelineProofs!StatusTellsPool` | until then the status of a pooled frame is its pool |
| `FramePipelineProofs!EncodedInOrder` | with at most one frame thread frames are encoded in the order of decoding |
| `FramePipelineProofs!NoneIsLost` | ... and all of them that nothing left out, none more often than wanted |
| `ExportLoopProofs!SelectionKept` | an undisturbed loop over ranges with a frame in between encodes exactly what the ranges and the interval select |
| `ExportLoopProofs!StaysInStep` | without delays and clones every pair is of one moment, also when the encoder fails |
| `ExportLoopProofs!AudioKept` | no audio frame is encoded twice or out of order; with everything selected none is left out |
| `ExportLoopProofs!RangeKept` | a loop never looks at a frame behind the end of its range |
| `SessionProofs!SessionTyped` | the types, for any session; no source is read behind its end |
| `SessionProofs!FramesKept` | no cancellation, interruption, flush or restart loses or doubles a frame of a ring |
| `SessionProofs!InterruptionObeyed` | at most one pair is encoded after an interruption |
| `SessionProofs!PartsWhole` | the first range, and every unit that starts with its first frame, is encoded whole and in order |
| `SynchronizerProofs!NeverCorrected` | a margin as large as a ring never clones or drops a frame |
| `SynchronizerProofs!AudioShiftedOnce` | a shift of n frames makes the audio begin with frame n + 1, without a gap |
| `SynchronizerProofs!EveryFrameAccounted` | the delivered video is the source up to counted drops and clones |
| `MultiplexorProofs!RotorsSafe` | an open output has its rotors; without failures none is left behind |
| `MultiplexorProofs!NeverOverwritten` | in mono mode no file is opened twice |
| `MultiplexorProofs!PairsInOneFile` | in mono mode a pair whose export succeeded is in one file |
| `ControlSocketProofs!ReadyFiltersOnly` | while no filter is removed under it, a frame enters initialised filters only, but for `config`; none is in the chain while the program unloads it |
| `ControlSocketProofs!WalkComplete` | a filter that stays enabled while a frame is in the chain gets the frame, while no filter is removed under it |
| `ModuleFactoryProofs!FactorySafe`, `ReferencesCounted`, `UnusedUnloaded` | a live module's plugin stays loaded, counts are exact, unused plugins go |

Assumptions: the null pointer is no frame, and a ring, a queue and the filter table have at
least one slot (`tc_frame_ring_init` and `MAX_FILTERS` make that true); ids are natural numbers;
frames and threads are finite sets, and no frame thread has the name of another thread; the factory
has at least one slot and one module; the setups, jobs and sessions are of their types. TLC evaluates
all of them in the runs. The sets of filters, sessions and limits are arbitrary, and so are the numbers
of frame threads, buffers and source frames. `MaxClones`, `MaxModules` and `MaxCount` are any numbers.
`ExportLoop` and `Session` are proved for jobs and sessions of any number of ranges and parts, of any
length.

- *FrameFifo*: `IndicesAgree` is inductive together with the types. The work is arithmetic modulo
  the size, which the lemmas `SumMod` and `SlotLinear` turn into a case distinction. For the
  refinement, `Contents` after a step is shown equal to the tail, or to the sequence with the frame
  appended, position by position.
- *FrameHeap*: `IsHeap` says nothing while a loop runs. The inductive invariant adds `UpInv` and
  `DownInv`: while a frame climbs, only the edge to its parent may be out of order, while one
  sinks, only the edges to its sons, and in both cases the frames around it are in order among each
  other. `StaleSlotHarmless` is needed inside of the proof of `heap_down`: if the loop moved the
  stale slot up, the heap would contain a frame that had been given away. `RootSmallest` goes from
  the order on edges to the order on all keys by taking the smallest key that beats the root. For the
  refinement a swap of two keys is a bijection between the keys that hold an id before and after it, a
  get swaps the last frame with the root and drops it, and the size of the bag (`Held`) is `num` because
  each key is numbered among those that hold its id.
- *FramePool*: the four properties are inductive together. A put that does not signal is right only
  because `waiting = 0` implies that nobody is blocked, which is `WaitingExact`; and
  `NoFrameLeftBehind` survives a claim by a barging thread because the frame it takes
  reduces what the woken threads have to cover. The lemmas `Sleeps`, `WakesUp` and `Leaves` give
  the cardinalities.
- *ModuleFactory*: `CountsExact` is inductive only with `PointsIntoLoaded` (a live module is in a loaded
  slot of its type, so that a free slot has no module and a load may set its count to zero) and
  `OneSlotEach`. `descriptor_count` can be too high after a deletion of the factory that was refused;
  `NoneUncounted` says that it is never too low, hence a factory that is freed has no plugin loaded.
  The bounds on modules and on the count are constants of the theorem, so that they exclude nothing.

- *FramePipeline, where frames are*: `Unshared` puts every frame that is not exempt into one place at
  most: one pool, the hands of one thread, or, before `vframe_dup` has put it anywhere, a worker's
  `dup`. `Present` says that no frame is gone, `StatusIsPool` belongs to the same induction, since a put
  both moves a frame and marks it. That a pool never refuses a frame (`NotRefused`) is the pigeonhole
  principle: a pool without repetitions that does not hold the frame has a slot left. The step from
  `dup_put` to `dup_push` is where it ends, because there the duplicate is pushed while the pool has it.
- *FramePipeline, order*: ids do not grow from the source to the encoder, through five places: the
  importer's hand (5), WAIT (4), the worker's hand (3), READY (2), the encoder's hand (1). `InRank`
  compares the ids of two places, `Queues` those in one pool, and `Behind` what has been encoded with
  all of them. A reinjected clone goes back from rank 1 to 2 and stays the smallest. The pool
  WAIT counts as on the way only while somebody passes frames on (`Passing`): between `dup_mark` and
  `dup_push` the duplicate is in WAIT with the id of the frame in the worker's hand. A worker that is
  waiting to duplicate is in order; one that has pushed a duplicate twice ends the promise (`OneWay`).
- *FramePipeline, nothing lost*: each id has an account. What was encoded, plus what the frame
  underway with that id is still to be encoded (`Rest`, from its marks), is at most what is `wanted`,
  and less only if the frame was encoded before; an id without a frame underway is settled. Two frames
  underway never have the same id, the frame that marks the end is the only one with the last id, and
  it is never duplicated (`EndNotDoubled`). When the encoder holds the mark, the order by ranks leaves no
  older frame on its way, so all accounts are settled. The account may fall short because the encoder
  clears the marks of a clone before it reinjects it (remarks, `AllEncoded`).
- *ExportLoop*: `LoopInv` has the types, which frames the loop holds at each position, and who may set
  which mark. `Reading` says how far a loop reads: up to the end of its range and, when it is left,
  one frame more. `Contiguous` relates the last pair that had sound with the next audio frame, which
  is the same one while a delayed frame is about to come again. For `SelectionEncoded`, `Chosen` says that
  what was encoded is the part of `Selected` that the sources have passed (`Ids = Past`), that the ranges
  before lie behind, and, in `Countdown`, that `skip` is zero exactly at the frames the interval
  selects; the lemmas `ModNext` and `ModPast` are the arithmetic behind it. When a stream ends, all that
  is left of the selection is behind it, which is why later ranges need no case of their own.
- *Session, where frames are*: `Base` has the types, who holds a frame (`Hands`) and what is known at the
  positions of the main thread (`Phases`: nothing but the main thread lives while it flushes).
  `Rings` says for each ring that the pools are injective, disjoint from the hands and complete, and
  that the status of a pooled frame is its pool. The flush looks at one frame and moves another one, and is right about it
  only because the status it looks at is a pool. `GivenUp` is the one case in which a thread keeps
  a frame it does not work on: the loop was left between the two claims of a pair by an interruption, and then
  no other part is begun.
- *Session, parts*: `Course` starts from `Quiet`, which is what `PartWhole` takes for granted before the
  loop is left. While a part is encoded (`InLoop`), each medium has a `Line`: the frames in READY and in the hand of the main thread
  are at consecutive positions of the part, those that were taken first, and the ids run with the positions;
  both media are done with the same number of frames, and so many have been encoded (`Encodes`). The id of the
  frame that is filled is the highest, so the ordered pool puts it last. `LeftOver` follows what the part
  leaves behind through cancel, join and flush: what is ready plus what was taken is at most what was
  read; a frame that is alone in READY has an index the flush has yet to reach, so that it is freed; and
  the next unit begins with empty rings. With two of them the argument breaks, as does the code
  (`SessionFlush`).
- *Synchronizer*: the drift that the adjust method looks at is the difference of what is ready in the
  two rings. Frames are claimed in pairs (`InPairs`) and a ring has `Buffers` frames (`RingBound`), so
  the drift is at most the size of a ring, and a margin as large as that is never exceeded. `ShiftInv`
  balances what was read, what was delivered and what is left of the shift. For the video, `Stream`
  counts the steps of 0 and of 2 in what was delivered; between `adjust_get` and `adjust_decide`, and
  while a clone or a drop is pending, `Accounted` says by how much the counters run ahead of it.
- *Multiplexor*: `OwnInv` says which rotors are allocated at each position of an open, a rotation
  and a close, and which of them the output owns. `NameInv` adds that the numbers of the chunks of a
  unit are below the next one, which is the reason why a name is new. `WholeInv` follows a pair from the
  video write to the answer of the export.
- *ControlSocket*: `Closing` relates the places of the main thread and the frame thread, and gives the part
  about the shutdown. `InSlots` is what the event thread knows of the slot it works on, and `InTable` what the table
  is between two commands: the one slot that is being added is not enabled and has the highest id
  (`BeingAdded`), every other enabled slot has a filter that is initialised unless a `config` came
  (`ReadySlots`), and no id occurs twice (`UniqueIds`). From that follows what the walk relies on as long as
  nothing is removed (`Undisturbed`): the ids it has read are those that are there now, so that reading
  one again changes nothing; in the slots it has passed by (`InWalk`) there is no filter that was enabled all the time with
  an id between `last_id` and that of its choice; and the filters with ids up to `last_id`
  that were enabled since the frame came have had it (`Sent`). An addition into a slot the walk has passed does not matter,
  since its id is higher than every id the walk has chosen. Nothing of this
  survives a removal, and `removed` is how the theorems say so: the invariant then claims the table only.

Only model-checked is all liveness (`SleepersReleased`, `SessionEnds`, `AllRangesTried`, `InterruptEnds`): it needs
ENABLED.

## Findings

Each one is a run that TLC must find violated; `PROJECT.json` has the lines.

- `SessionFlush` (`src/framebuffer.c:902`): the flush goes through the frames by index and pulls the
  first frame of the pool that the indexed one is in. Where the order of the pool is another one, only
  one of two frames in READY is flushed, and the other is encoded as a frame of the next unit.
  `framebuffer.h:230-231` says that all frames are marked as unused.
- `MuxSplit` (`src/transcode.c:467`): the limits of a chunk are stored in the rotor, and opening the
  output allocates the rotor anew. The options `-t` and `--split_size` never split anything, against
  `multiplexor.h:84` and `cmdline_def.h:251`, although the limits are set in the order that
  `multiplexor.h:47-48` requires.

### Remarks

Further places where code and text disagree, or where a property holds only under a condition. The
formulas are in the modules; to see the counterexample, change the configuration as described
(`MCFramePipeline` has the setups).

- `FramePool` with `Broadcast = FALSE` and two or more threads violates `SleepersReleased`. The
  NULL pool is signalled only, and more than the importer sleeps there if frame threads make
  duplicates.
- `ClaimsFailAfterInterrupt` (`FramePool`) is violated: `framebuffer.h:142` says that claiming
  functions fail after an interruption, but a claim that finds a frame never looks at the run
  status. `InterruptionEndsAll` (`framebuffer.h:265-267`) is violated by the thread that tested the
  run status before the stop and sleeps after the wake-up (`framebuffer.c:517`).
- `AllDone`, and `InOrder` without its condition (`FramePipeline`), are violated by `Overtaking`: with two frame threads the
  frame that marks the end of the stream can be passed on while the other thread still filters the
  frame before it (`frame_threads.c:187`). The encoder stops at the mark and that frame is never
  encoded, while `transcode.c:553` says that the loop "returns when done with all frames"; READY sorts
  only what is there when the encoder comes (`docs/tech/architecture.txt:16-17`).
- `WorkersTerminate` is violated by the same setup with an interruption: a frame thread tests the run
  flag, then the program is stopped and the sleepers are woken, and then it falls asleep
  (`frame_threads.c:180`). `tc_frame_threads_close` wakes nobody and joins it for ever.
- `OneOwner` (`FramePipeline`) is violated by `Doubling`: `vframe_dup` puts the duplicate in the WAIT pool
  and `DUP_vptr_if_cloned` pushes it there again (`frame_threads.c:140`, `framebuffer.h:277-278`). The buffer
  can be claimed twice.
- `AllEncoded` is violated by filters that set `IS_CLONED` in the last slot (`LateClones`): the encoder clears the
  attributes of a frame (`libtcexport/encoder.c:180`), so that it is encoded once, where
  `docs/tech/architecture.txt:139-140` promises the clones.
- `CloneIsMade` is violated by `Exhausting`: the frame thread holds a frame, the
  importer holds one or has queued the others, and the duplicate waits for a free buffer for ever
  (`docs/tech/architecture.txt:152`). `CloneIsChecked` is violated by `InDup`: an interrupted
  `vframe_dup` returns NULL, which `DUP_vptr_if_cloned` dereferences under the comment "ptr was
  successfully cloned" (`frame_threads.c:130`).
- `SelectionEncoded` without `RangesApart` is violated by adjacent ranges: with `-c 0-2,2-4` the first
  range consumes frame 2 to see that it is over, and the second range never gets it (`libtcexport/export.c:267`).
- `AllRangesTried` is violated by the ranges `<<0, 2>>, <<3, 9>>, <<10, 12>>` on streams of six
  frames: the second range ends at the end of the stream, and the third waits for a frame that
  never comes. The jobs of the run have second ranges that start inside the streams.
- `RangeRespected` without its exemption is violated by a counted clone, two ranges and an interval
  of three: the frame id jumps over `frame_last`, which `is_last_frame` tests with equality. For the same
  reason it needs `RangesAscend`: a range that ends before the one in front of it is over only at the end
  of the stream.
- `SessionEnds` (`FramePipeline`, `Session`) needs that what the export loop leaves of each source fits into the
  ring. If more is left, after an encoder that fails, with a range that ends before the source, or with one medium that is longer than
  the other, the importer tests the run status, the program is stopped and its sleepers are woken, and
  then the importer falls asleep in the empty NULL pool (`framebuffer.c:517`) and is joined for ever. The same goes for
  `Synchronizer`, whose `SessionEnds` names that thread (`Missed`). And an import thread cancelled while the program runs is
  woken in an empty NULL pool, sees the program running, sleeps again and is joined for ever
  (`transcode.c:567`). A directory of two files never ends: the import loop clears `active` at the end
  of each file and the next one returns at once (`decoder.c:965`).
- `PartWhole` without its conditions: `framecount` goes on from part to part (`decoder.c:544`), so that a
  later range of the default mode misses the frames that its ids stand for. For the same reason the end
  of a later unit must be an id that no frame has (`Endless`), as `TC_FRAME_LAST` is.
- `InterruptObeyed` counts while the program knows: `tc_start` of the next PSU overwrites an interruption
  that came since the last test (`transcode.c:715`). And a loop that is interrupted between its two
  claims keeps the video frame in `input` (`export.c:508`): it never returns to its pool, but no other part is
  begun (`GivenUp` in `SessionProofs`).
- `Synchronizer`: the adjust method answers TC_OK when the source has failed, so that the end of the
  video is lost (`synchronizer.h:112-114`); the session ends with the audio. A negative shift (`-D`)
  blanks a frame that the fill overwrites at once: no silence is added. With a margin smaller than a
  ring (the default is 1, with 10 buffers) what is cloned or dropped depends on the scheduling of the two
  import threads alone. `vob->sync` is set again at each range (`transcode.c:571`), which nobody reads:
  the synchronizer is initialised once.
- `Multiplexor`, dual mode: `dual_write` gives the audio to the main module (`multiplexor.c:413`), so that
  the separate file of `-m` stays empty, and a main module without audio drops it in silence; the
  auxiliary file would be opened under its one name at each rotation, and the answer of that rotation
  replaces the one of the video. `PairsWhole` and `NothingOverwritten` are about mono mode.
- `Multiplexor`: a limit counts the two frames of a pair; 4096 megabytes are zero in 32 bits
  (`multiplexor.c:214`), which would rotate after every pair if the limit were kept; when reopening fails, later writes go to a closed module; a rotor stays allocated
  when closing fails, which is why `RotorsOwned` is about sessions without failures there.
- `ControlSocket`: the comparison with `stop` lacks its `== 0` (`socket.c:644`): every unknown command
  interrupts the program, and `stop` alone answers FAILED and does nothing, against
  `docs/socket_protocol.txt:93`. The answers of `config` are inverted.
- `FramesSeeReadyFilters` without `reconfigured`: `config` closes a filter while a frame is in the chain
  and frames enter it closed; if its initialisation fails, a later `enable` sends frames to it.
- `AllEnabledFilters`, and `FramesSeeReadyFilters` without its exception for `removed`: a filter whose
  initialisation fails is removed by `tc_filter_add` (`filter.c:316`) while a frame may be in the middle of the
  walk. It was not enabled, so the walk has not chosen it; but `filter.c:325` enables the emptied slot, which the walk then
  takes for the filter whose id it read there, and the next command loads another filter into the same
  slot. The walk calls that one before its INIT, or records its id as `last_id` (`filter.c:195`) and skips the
  enabled filters below it, where `filter.c:155-156` promises all of them; or it calls into code that is
  unloaded. Filters are removed under the walk in no other way, since `unload` is not implemented
  (`socket.c:639-640`).
- `InterruptEnds` without its exceptions: a signal inside the mutex of the run status, or of a pool that a
  command is waking up, makes the handler wait for its own thread (`transcode.c:244-245`); `tc_pause` does not look at the run status
  (`runcontrol.c:50`); and a thread that tested the run status before the interruption and claims after the
  wake-up sleeps on (`framebuffer.c:517`). Frame threads have no second wake-up, and the importer's
  (`decoder.c:690`) can come as early as the first. In `ControlSocket`, the filters are unloaded before the event thread is stopped, so that a command
  under way calls into a filter that is gone (`transcode.c:2652`). After a signal the event thread accepts
  a connection that nobody makes (`socket.c:814`), and serves no command until one comes.
- `FilterTable`: `tc_filter_add` answers 1 where the comment promises the id (`filter.c:224`), and it does so for a filter whose
  initialisation failed, too.
- `ModuleFactory`: a plugin whose initialisation failed stays loaded when the last instance goes, and
  `descriptor_count` then keeps the factory from being freed, against `tcmodule-core.h:363-364` and 339.
  Its `orphans` are the exception in `UnloadedWhenUnused`. The instance id is `instance_count + 1`, so
  that two instances can have the same one, which `tc_compare_modules` takes for the same instance; and
  `CHECK_VALID_ID` lets the id `TC_FACTORY_MAX_HANDLERS` through (no caller has it).

## Not modelled

The two media share the run status only; `FramePipeline` is one of them, so a step in which audio
waits for video is seen by `ExportLoop`, `Session` and `Synchronizer` alone. A filter is what it does
to a frame's attributes, or whether it is initialised. Not modelled: the module registry (a table read
from a file), lists and globs (sequential containers), the queries and the preview parameters of the
control socket, parsers and probing (text formats, no state), containers and codec modules (byte
formats, third-party code), pixel and sample kernels (arithmetic on large buffers), the command line
tools, and cluster mode, whose frame counter only an external clone module writes. Most of the source
is in these last groups.

## Plan

What exists was ordered by how much depends on it: the queues, the pool around them, the pipeline of
one medium, the pairing of two, the session over several units, and then the components around them.
All of the passing runs' properties are proved but the liveness. What is left:

1. The preview mailbox of the control socket, written by the event thread and read by a filter.
2. Audio and video sharing the session in `Interruption`, whose ring is that of one medium.

The runs are kept few; a disagreement that only needs a formula and another setup is a remark above.
