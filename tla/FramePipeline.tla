--------------------------- MODULE FramePipeline ---------------------------
(***************************************************************************)
(* The life of one medium in transcode: the import thread registers frames *)
(* of the NULL pool and fills them, the frame threads filter the frames of *)
(* the WAIT pool, the main thread encodes the frames of the READY pool and *)
(* gives them back; at the end of the stream the main thread stops the     *)
(* program, wakes the sleepers up and joins everybody                      *)
(* (decoder.c, frame_threads.c, encoder-buffer.c, export.c, transcode.c).  *)
(*                                                                         *)
(* The pools are monitors, whose inside FramePool checks: here a claim, a  *)
(* put and a wake-up are one action each.  What a thread does to a frame   *)
(* that only it holds is part of the step that claims or publishes it.     *)
(***************************************************************************)
EXTENDS Integers, Sequences, FiniteSets, SequencesExt

CONSTANTS Frames,     \* the buffers there may be, for the ring of every setup
          Workers,    \* the frame threads there may be
          Setups,     \* the sessions: see Setup
          MaxClones,  \* bound: no filter clones a frame to be encoded more often
          NULL        \* the null frame pointer

(* The slots of docs/tech/architecture.txt: ES runs in the import thread,  *)
(* EM and OM in the frame threads, OS in the encoder.                      *)
Slots == {"ES", "EM", "OM", "OS"}

(* What the user chooses: the buffers of the ring, the frame threads that  *)
(* tc_frame_threads_init starts (none is the default), how many frames the *)
(* source has before its end, the slots of the filters that may set        *)
(* IS_CLONED and of those that may set IS_SKIPPED, whether the loop leaves *)
(* frames out (--frame_interval), whether the encoder may fail, and        *)
(* whether the user interrupts the program.                                *)
Setup == [ring : (SUBSET Frames) \ {{}}, team : SUBSET Workers, source : Nat,
          clones : SUBSET Slots, skips : SUBSET Slots,
          intervals : BOOLEAN, failures : BOOLEAN, interrupts : BOOLEAN]

ASSUME FramesAssumption == IsFiniteSet(Frames) /\ Frames # {} /\ NULL \notin Frames
ASSUME SetupAssumption == \A c \in Setups : c \in Setup
ASSUME BoundAssumption == MaxClones \in Nat

Importer == "importer"
Encoder  == "encoder"
Event    == "event"      \* the thread that handles the signals
Threads  == Workers \union {Importer, Encoder, Event}

ASSUME WorkersAssumption ==
    IsFiniteSet(Workers) /\ Workers \intersect {Importer, Encoder, Event} = {}

Stages   == {"NULL", "EMPTY", "WAIT", "READY"}    \* LOCKED is never used
Attributes == {"eos", "skipped", "is_cloned", "was_cloned"}

VARIABLES
    setup,       \* the setup of this session
    pool,        \* the frames in each pool, next to be claimed first
    pc,          \* where each thread is
    sleep,       \* "no", "asleep" in a pool's wait set, or "woken"
    hold,        \* the frame each thread works on
    dup,         \* tmptr: the duplicate each worker is making
    id, attributes, status,   \* of each frame
    framecount,  \* of the import thread
    active,      \* active_flag of the import thread
    running,     \* running flag of the frame threads
    tc_run_status,
    encoded,     \* history: the ids the encoder was given
    wanted,      \* history: how often each id is to be encoded
    doubled      \* history: the frames that DUP_vptr_if_cloned has pushed

ring    == <<pool, id, attributes, status>>
control == <<setup, framecount, active, running, tc_run_status>>
history == <<encoded, wanted, doubled>>
vars    == <<setup, pool, pc, sleep, hold, dup, id, attributes, status, framecount,
             active, running, tc_run_status, encoded, wanted, doubled>>

tc_running == tc_run_status = "RUNNING"
Ids == 0 .. setup.source

Init ==
    /\ setup \in Setups
    /\ pool = [S \in Stages |-> IF S = "NULL" THEN SetToSeq(setup.ring) ELSE <<>>]
    /\ pc = [t \in Threads |-> IF t \in Workers \ setup.team THEN "none" ELSE "loop"]
    /\ sleep = [t \in Threads |-> "no"]
    /\ hold = [t \in Threads |-> NULL]
    /\ dup = [t \in Workers |-> NULL]
    /\ id = [f \in Frames |-> 0]
    /\ attributes = [f \in Frames |-> {}]
    /\ status = [f \in Frames |-> "NULL"]
    /\ framecount = 0 /\ active = TRUE /\ running = TRUE
    /\ tc_run_status = "RUNNING"
    /\ encoded = <<>>
    /\ wanted = [i \in Ids |-> 1]
    /\ doubled = {}

(* tc_frame_threads_have_video_workers. *)
Team == setup.team

Goto(t, label) == pc' = [pc EXCEPT ![t] = label]

-----------------------------------------------------------------------------
(* The pools.                                                              *)

(* Which pool a thread claims from, where it stands.                       *)
ClaimsFrom(t) ==
    CASE t = Importer -> "NULL"
      [] t = Encoder  -> "READY"
      [] OTHER        -> IF pc[t] = "dup" THEN "NULL" ELSE "WAIT"   \* a worker

Claiming(t) == pc[t] \in {"register", "reserve", "dup", "retrieve"}

Sleepers(S) == {t \in Threads : sleep[t] = "asleep" /\ ClaimsFrom(t) = S}

Signal(S) ==
    IF Sleepers(S) = {} THEN UNCHANGED sleep
    ELSE \E t \in Sleepers(S) : sleep' = [sleep EXCEPT ![t] = "woken"]

(* tc_frame_pool_wakeup as frame_stages[] has it: WAIT is broadcast.       *)
Wakeup(S) ==
    IF S = "WAIT"
    THEN sleep' = [t \in Threads |-> IF t \in Sleepers(S) THEN "woken" ELSE sleep[t]]
    ELSE Signal(S)

(* Mutant: the READY queue is a FIFO like the others. *)
Mut_Queued(S, f) ==
    IF Len(pool[S]) = Cardinality(setup.ring) THEN {pool[S]} ELSE {Append(pool[S], f)}

(* The READY queue is ordered by frame id (frames with one id in any       *)
(* order; in any order at all once the id of a queued frame was changed),  *)
(* the others are FIFOs.  A full queue refuses the frame.                  *)
Queued(S, f) ==
    LET Positions == 1 .. Len(pool[S]) + 1
        Ordered   == {i \in Positions :
                        /\ \A k \in 1 .. i - 1 : id[pool[S][k]] <= id[f]
                        /\ \A k \in i .. Len(pool[S]) : id[f] <= id[pool[S][k]]}
    IN  IF Len(pool[S]) = Cardinality(setup.ring) THEN {pool[S]}
        ELSE IF S # "READY" THEN {Append(pool[S], f)}
        ELSE {InsertAt(pool[S], i, f) :
                i \in IF Ordered = {} THEN Positions ELSE Ordered}

(* Mutant: the frame keeps the status it had. *)
Mut_Put(S, f) ==
    /\ status' = status
    /\ \E q \in Queued(S, f) : pool' = [pool EXCEPT ![S] = q]
    /\ IF Len(pool[S]) < Cardinality(setup.ring) THEN Signal(S) ELSE UNCHANGED sleep

(* tc_frame_ring_put_frame: the status, and then the pool. *)
Put(S, f) ==
    /\ status' = [status EXCEPT ![f] = S]
    /\ \E q \in Queued(S, f) : pool' = [pool EXCEPT ![S] = q]
    /\ IF Len(pool[S]) < Cardinality(setup.ring) THEN Signal(S) ELSE UNCHANGED sleep

(* Mutant: the claimed frame stays in its pool. *)
Mut_Got(t, f) ==
    /\ sleep[t] = "no" \/ (sleep[t] = "woken" /\ tc_running)
    /\ pool[ClaimsFrom(t)] # <<>>
    /\ f = Head(pool[ClaimsFrom(t)])
    /\ pool' = pool
    /\ sleep' = [sleep EXCEPT ![t] = "no"]

(* tc_frame_pool_get_frame: a frame, ... *)
Got(t, f) ==
    /\ sleep[t] = "no" \/ (sleep[t] = "woken" /\ tc_running)
    /\ pool[ClaimsFrom(t)] # <<>>
    /\ f = Head(pool[ClaimsFrom(t)])
    /\ pool' = [pool EXCEPT ![ClaimsFrom(t)] = Tail(@)]
    /\ sleep' = [sleep EXCEPT ![t] = "no"]

(* ... or sleep, ... *)
get_frame_wait(t) ==
    /\ Claiming(t)
    /\ sleep[t] = "no" \/ (sleep[t] = "woken" /\ tc_running)
    /\ pool[ClaimsFrom(t)] = <<>>
    /\ sleep' = [sleep EXCEPT ![t] = "asleep"]
    /\ UNCHANGED <<ring, pc, hold, dup, control, history>>

(* ... or NULL. *)
Interrupted(t) ==
    /\ sleep[t] = "woken"
    /\ ~tc_running
    /\ sleep' = [sleep EXCEPT ![t] = "no"]
    /\ UNCHANGED pool

-----------------------------------------------------------------------------
(* The filters: what one slot, or several in a row, may make of the        *)
(* attributes.  A filter clones neither a clone (docs/tech/clone.txt) nor  *)
(* a frame that is skipped, and the end of the stream is not filtered.     *)

Slot(slot, i, a) ==
    {a} \union (IF slot \in setup.skips THEN {a \union {"skipped"}} ELSE {})
        \union (IF /\ slot \in setup.clones /\ wanted[i] <= MaxClones
                   /\ a \intersect {"is_cloned", "was_cloned", "skipped"} = {}
                THEN {a \union {"is_cloned"}} ELSE {})

(* What a slot may make of a frame that may have any of the attributes as. *)
Filtered(slot, f, as) ==
    UNION {IF "eos" \in a THEN {a} ELSE Slot(slot, id[f], a) : a \in as}

(* How often a frame is to be encoded once a filter has changed its        *)
(* attributes from a to b: once more if it cloned the frame, not at all if *)
(* it skipped it (a frame skipped and cloned is skipped twice).            *)
Wants(f, a, b) ==
    LET n == wanted[id[f]]
        m == IF "is_cloned" \in b \ a THEN n + 1 ELSE n
    IN  IF "skipped" \notin b \ a THEN m
        ELSE m - (IF "is_cloned" \in b THEN 2 ELSE 1)

Remark(f, b) ==
    /\ attributes' = [attributes EXCEPT ![f] = b]
    /\ wanted' = [wanted EXCEPT ![id[f]] = Wants(f, attributes[f], b)]

Holds(t, f)   == hold' = [hold EXCEPT ![t] = f]
Releases(t)   == hold' = [hold EXCEPT ![t] = NULL]

-----------------------------------------------------------------------------
(* The import thread: video_import_loop.                                   *)

(* next, as video_import_loop computes it: *)
NextStage == IF Team = {} THEN "READY" ELSE "WAIT"

import_loop ==
    /\ pc[Importer] = "loop"
    /\ Goto(Importer, IF tc_running /\ active THEN "register" ELSE "done")
    /\ UNCHANGED <<ring, sleep, hold, dup, control, history>>

vframe_register ==
    /\ pc[Importer] = "register"
    /\ \E f \in Frames :
        /\ Got(Importer, f)
        /\ Holds(Importer, f)
        /\ id' = [id EXCEPT ![f] = framecount]
        /\ attributes' = [attributes EXCEPT ![f] = {}]
        /\ status' = [status EXCEPT ![f] = "EMPTY"]
    /\ Goto(Importer, "fill")
    /\ UNCHANGED <<dup, control, history>>

vframe_register_interrupted ==
    /\ pc[Importer] = "register"
    /\ Interrupted(Importer)
    /\ Goto(Importer, "done")
    /\ UNCHANGED <<hold, dup, id, attributes, status, control, history>>

(* Mutant: the end of the source is noticed one frame too late. *)
Mut_import_frame ==
    /\ pc[Importer] = "fill"
    /\ framecount <= setup.source
    /\ \E b \in Filtered("ES", hold[Importer], {{}}) : Remark(hold[Importer], b)
    /\ Put(NextStage, hold[Importer])
    /\ Releases(Importer)
    /\ framecount' = framecount + 1
    /\ Goto(Importer, "loop")
    /\ UNCHANGED <<setup, dup, id, active, running, tc_run_status, encoded, doubled>>

(* A frame of the source, filtered and pushed... *)
import_frame ==
    /\ pc[Importer] = "fill"
    /\ framecount < setup.source
    /\ \E b \in Filtered("ES", hold[Importer], {{}}) : Remark(hold[Importer], b)
    /\ Put(NextStage, hold[Importer])
    /\ Releases(Importer)
    /\ framecount' = framecount + 1
    /\ Goto(Importer, "loop")
    /\ UNCHANGED <<setup, dup, id, active, running, tc_run_status, encoded, doubled>>

(* ... or the frame that marks its end. *)
import_end_of_stream ==
    /\ pc[Importer] = "fill"
    /\ framecount = setup.source
    /\ attributes' = [attributes EXCEPT ![hold[Importer]] = {"eos"}]
    /\ Put(NextStage, hold[Importer])
    /\ Releases(Importer)
    /\ active' = FALSE
    /\ Goto(Importer, "done")
    /\ UNCHANGED <<setup, dup, id, framecount, running, tc_run_status, history>>

Import ==
    \/ import_loop
    \/ vframe_register \/ get_frame_wait(Importer) \/ vframe_register_interrupted
    \/ import_frame \/ import_end_of_stream

-----------------------------------------------------------------------------
(* A frame thread: process_video_frame.                                    *)

stop_requested == ~tc_running \/ ~running

process_loop(w) ==
    /\ pc[w] = "loop"
    /\ Goto(w, IF stop_requested THEN "done" ELSE "reserve")
    /\ UNCHANGED <<ring, sleep, hold, dup, control, history>>

(* Claim a frame; the last one of the stream stops the pool.  A frame that *)
(* is not skipped yet goes through the EM filters.                         *)
vframe_reserve(w) ==
    /\ pc[w] = "reserve"
    /\ \E f \in Frames :
        /\ Got(w, f)
        /\ Holds(w, f)
        /\ running' = (running /\ "eos" \notin attributes[f])
        /\ \E b \in IF "skipped" \in attributes[f] THEN {attributes[f]}
                                                 ELSE Filtered("EM", f, {attributes[f]}) :
            /\ Remark(f, b)
            /\ Goto(w, IF "skipped" \in b THEN "drop"
                       ELSE IF "is_cloned" \in b THEN "dup" ELSE "post")
    /\ UNCHANGED <<setup, dup, id, status, framecount, active, tc_run_status, encoded, doubled>>

vframe_reserve_interrupted(w) ==
    /\ pc[w] = "reserve"
    /\ Interrupted(w)
    /\ running' = FALSE
    /\ Goto(w, "done")
    /\ UNCHANGED <<setup, hold, dup, id, attributes, status, framecount, active, tc_run_status, history>>

(* Mutant: a skipped frame is not given back to the ring. *)
Mut_drop_frame(w) ==
    /\ pc[w] = "drop"
    /\ Releases(w)
    /\ Goto(w, "loop")
    /\ UNCHANGED <<pool, sleep, status, dup, id, attributes, control, history>>

drop_frame(w) ==
    /\ pc[w] = "drop"
    /\ Put("NULL", hold[w])
    /\ Releases(w)
    /\ Goto(w, "loop")
    /\ UNCHANGED <<dup, id, attributes, control, history>>

(* DUP_vptr_if_cloned: vframe_dup claims a free frame and copies this one  *)
(* into it, ...                                                            *)
vframe_dup(w) ==
    /\ pc[w] = "dup"
    /\ \E f \in Frames :
        /\ Got(w, f)
        /\ dup' = [dup EXCEPT ![w] = f]
        /\ id' = [id EXCEPT ![f] = id[hold[w]]]
        /\ attributes' = [attributes EXCEPT ![f] = attributes[hold[w]]]
        /\ status' = [status EXCEPT ![f] = "WAIT"]
    /\ Goto(w, "dup_put")
    /\ UNCHANGED <<hold, control, history>>

(* ... or returns NULL, which the caller dereferences, ...                 *)
vframe_dup_interrupted(w) ==
    /\ pc[w] = "dup"
    /\ Interrupted(w)
    /\ Goto(w, "crashed")
    /\ UNCHANGED <<hold, dup, id, attributes, status, control, history>>

(* ... and puts the copy in the WAIT pool; ...                             *)
vframe_dup_put(w) ==
    /\ pc[w] = "dup_put"
    /\ Put("WAIT", dup[w])
    /\ Goto(w, "dup_mark")
    /\ UNCHANGED <<hold, dup, id, attributes, control, history>>

(* ... the caller updates the flags of both, ...                           *)
dup_mark(w) ==
    /\ pc[w] = "dup_mark"
    /\ attributes' = [attributes EXCEPT
            ![hold[w]] = @ \ {"is_cloned"},
            ![dup[w]]  = (@ \ {"is_cloned"}) \union {"was_cloned"}]
    /\ Goto(w, "dup_push")
    /\ UNCHANGED <<pool, sleep, hold, dup, id, status, control, history>>

(* ... and pushes the copy to the WAIT pool.                               *)
dup_push(w) ==
    /\ pc[w] = "dup_push"
    /\ Put("WAIT", dup[w])
    /\ dup' = [dup EXCEPT ![w] = NULL]
    /\ doubled' = doubled \union {dup[w]}
    /\ Goto(w, "post")
    /\ UNCHANGED <<hold, id, attributes, control, encoded, wanted>>

(* The OM filters, and then the frame is dropped or ready. *)
process_done(w) ==
    /\ pc[w] = "post"
    /\ \E b \in Filtered("OM", hold[w], {attributes[hold[w]]}) :
        /\ Remark(hold[w], b)
        /\ Put(IF "skipped" \in b THEN "NULL" ELSE "READY", hold[w])
    /\ Releases(w)
    /\ Goto(w, "loop")
    /\ UNCHANGED <<dup, id, control, encoded, doubled>>

Process(w) ==
    \/ process_loop(w)
    \/ vframe_reserve(w) \/ get_frame_wait(w) \/ vframe_reserve_interrupted(w)
    \/ drop_frame(w)
    \/ vframe_dup(w) \/ vframe_dup_interrupted(w) \/ vframe_dup_put(w)
    \/ dup_mark(w) \/ dup_push(w)
    \/ process_done(w)

-----------------------------------------------------------------------------
(* The main thread: tc_export_loop over encoder-buffer.c, and what         *)
(* transcode_mode_default and main do after it.                            *)

export_loop ==
    /\ pc[Encoder] = "loop"
    /\ Goto(Encoder, IF tc_running THEN "retrieve" ELSE "stop")
    /\ UNCHANGED <<ring, sleep, hold, dup, control, history>>

(* Without frame threads the encoder runs their filters, too. *)
EncoderFiltered(f, a) ==
    Filtered("OS", f, IF Team = {} THEN Filtered("OM", f, Filtered("EM", f, {a})) ELSE {a})

(* Mutant: the loop gets the skipped frames, too. *)
Mut_vframe_retrieve ==
    /\ pc[Encoder] = "retrieve"
    /\ \E f \in Frames :
        /\ Got(Encoder, f)
        /\ Holds(Encoder, f)
        /\ IF "eos" \in attributes[f]
           THEN /\ attributes' = [attributes EXCEPT ![f] = @ \ {"eos"}]
                /\ Goto(Encoder, "dispose_last")
                /\ UNCHANGED <<encoded, wanted>>
           ELSE \E b \in EncoderFiltered(f, attributes[f]) :
                /\ wanted' = [wanted EXCEPT ![id[f]] = Wants(f, attributes[f], b)]
                /\ attributes' = [attributes EXCEPT ![f] = {}]
                /\ encoded' = Append(encoded, id[f])
                /\ Goto(Encoder, "dispose")
    /\ UNCHANGED <<dup, id, status, control, doubled>>

(* encoder_acquire_vframe, and then what the loop does with the frame: it  *)
(* consumes the mark of the end; it encodes, which clears the attributes   *)
(* (tc_encoder_process), and may fail; or it leaves the frame out.  A      *)
(* skipped frame is never returned to the loop.                            *)
vframe_retrieve ==
    /\ pc[Encoder] = "retrieve"
    /\ \E f \in Frames :
        /\ Got(Encoder, f)
        /\ Holds(Encoder, f)
        /\ IF "eos" \in attributes[f]
           THEN /\ attributes' = [attributes EXCEPT ![f] = @ \ {"eos"}]
                /\ Goto(Encoder, "dispose_last")
                /\ UNCHANGED <<encoded, wanted>>
           ELSE \E b \in EncoderFiltered(f, attributes[f]) :
                LET n == Wants(f, attributes[f], b)
                    Marked(c, m, e, next) ==
                        /\ attributes' = [attributes EXCEPT ![f] = c]
                        /\ wanted' = [wanted EXCEPT ![id[f]] = m]
                        /\ encoded' = e
                        /\ Goto(Encoder, next)
                IN  \/ "skipped" \in b /\ Marked(b, n, encoded, "requeue")
                    \/ "skipped" \notin b /\ Marked({}, n, Append(encoded, id[f]), "dispose")
                    \/ "skipped" \notin b /\ setup.intervals /\ Marked(b, n - 1, encoded, "dispose")
                    \/ "skipped" \notin b /\ setup.failures /\ Marked({}, n, encoded, "dispose_last")
    /\ UNCHANGED <<dup, id, status, control, doubled>>

vframe_retrieve_interrupted ==
    /\ pc[Encoder] = "retrieve"
    /\ Interrupted(Encoder)
    /\ Goto(Encoder, "stop")
    /\ UNCHANGED <<hold, dup, id, attributes, status, control, history>>

(* A frame to be seen again is reinjected where it came from, as a clone;  *)
(* any other one is free.                                                  *)
give_back(f) ==
    IF "is_cloned" \in attributes[f]
    THEN /\ attributes' = [attributes EXCEPT ![f] = (@ \ {"is_cloned"}) \union {"was_cloned"}]
         /\ Put(status[f], f)
    ELSE Put("NULL", f) /\ UNCHANGED attributes

(* Mutant: a skipped frame is reinjected instead of removed. *)
Mut_requeue ==
    /\ pc[Encoder] = "requeue"
    /\ Put(status[hold[Encoder]], hold[Encoder])
    /\ Releases(Encoder)
    /\ Goto(Encoder, "retrieve")
    /\ UNCHANGED <<dup, id, attributes, control, history>>

(* encoder_acquire_vframe on a skipped frame: try the next one at once. *)
requeue ==
    /\ pc[Encoder] = "requeue"
    /\ give_back(hold[Encoder])
    /\ Releases(Encoder)
    /\ Goto(Encoder, "retrieve")
    /\ UNCHANGED <<dup, id, control, history>>

encoder_dispose_vframe ==
    /\ pc[Encoder] \in {"dispose", "dispose_last"}
    /\ give_back(hold[Encoder])
    /\ Releases(Encoder)
    /\ Goto(Encoder, IF pc[Encoder] = "dispose" THEN "loop" ELSE "stop")
    /\ UNCHANGED <<dup, id, control, history>>

(* tc_stop_all: tc_stop, and tc_framebuffer_interrupt pool after pool      *)
(* (nobody sleeps in the others).                                          *)
tc_stop ==
    /\ pc[Encoder] = "stop"
    /\ tc_run_status' = IF tc_running THEN "STOPPED" ELSE tc_run_status
    /\ Goto(Encoder, "wake_NULL")
    /\ UNCHANGED <<setup, ring, sleep, hold, dup, framecount, active, running, history>>

tc_framebuffer_interrupt(t, next) ==
    /\ \/ pc[t] = "wake_NULL"  /\ Wakeup("NULL")  /\ Goto(t, "wake_WAIT")
       \/ pc[t] = "wake_WAIT"  /\ Wakeup("WAIT")  /\ Goto(t, "wake_READY")
       \/ pc[t] = "wake_READY" /\ Wakeup("READY") /\ Goto(t, next)
    /\ UNCHANGED <<ring, hold, dup, control, history>>

tc_import_threads_cancel ==
    /\ pc[Encoder] = "cancel"
    /\ active' = FALSE
    /\ Wakeup("NULL")
    /\ Goto(Encoder, "join_import")
    /\ UNCHANGED <<setup, ring, hold, dup, framecount, running, tc_run_status, history>>

join_import ==
    /\ pc[Encoder] = "join_import"
    /\ pc[Importer] = "done"
    /\ Goto(Encoder, "close")
    /\ UNCHANGED <<ring, sleep, hold, dup, control, history>>

tc_frame_threads_close ==
    /\ pc[Encoder] = "close"
    /\ running' = (running /\ Team = {})
    /\ Goto(Encoder, "join_workers")
    /\ UNCHANGED <<setup, ring, sleep, hold, dup, framecount, active, tc_run_status, history>>

join_workers ==
    /\ pc[Encoder] = "join_workers"
    /\ \A w \in Team : pc[w] = "done"
    /\ Goto(Encoder, "ended")
    /\ UNCHANGED <<ring, sleep, hold, dup, control, history>>

Export ==
    \/ export_loop
    \/ vframe_retrieve \/ get_frame_wait(Encoder) \/ vframe_retrieve_interrupted
    \/ requeue \/ encoder_dispose_vframe
    \/ tc_stop \/ tc_framebuffer_interrupt(Encoder, "cancel")
    \/ tc_import_threads_cancel \/ join_import
    \/ tc_frame_threads_close \/ join_workers

(* event_handler, in the event thread, on a signal of the user: tc_interrupt, *)
(* and then tc_framebuffer_interrupt.                                       *)
tc_interrupt ==
    /\ setup.interrupts
    /\ pc[Event] = "loop"
    /\ tc_run_status' = "INTERRUPTED"
    /\ Goto(Event, "wake_NULL")
    /\ UNCHANGED <<setup, ring, sleep, hold, dup, framecount, active, running, history>>

event_handler == tc_framebuffer_interrupt(Event, "done")

(* The session is over. *)
Ended == pc[Encoder] = "ended" /\ UNCHANGED vars

Next == Import \/ (\E w \in Workers : Process(w)) \/ Export
        \/ tc_interrupt \/ event_handler \/ Ended

(* Every thread runs when it can; the user need not interrupt. *)
Spec ==
    /\ Init /\ [][Next]_vars
    /\ WF_vars(Import) /\ WF_vars(Export) /\ WF_vars(event_handler)
    /\ \A w \in Workers : WF_vars(Process(w))

-----------------------------------------------------------------------------

Count(i) == Cardinality({k \in DOMAIN encoded : encoded[k] = i})

(* Type invariant of the pipeline.                                         *)
TypeOK ==
    /\ \A S \in Stages : pool[S] \in Seq(Frames) /\ Len(pool[S]) <= Cardinality(setup.ring)
    /\ sleep \in [Threads -> {"no", "asleep", "woken"}]
    /\ hold \in [Threads -> Frames \union {NULL}]
    /\ dup \in [Workers -> Frames \union {NULL}]
    /\ id \in [Frames -> Ids]
    /\ attributes \in [Frames -> SUBSET Attributes]
    /\ status \in [Frames -> Stages]
    /\ framecount \in Ids
    /\ tc_run_status \in {"RUNNING", "STOPPED", "INTERRUPTED"}

(* In how many places a frame is: pools, threads.                          *)
Places(f) ==
    Cardinality({p \in Stages \X (1 .. Cardinality(setup.ring)) :
                    p[2] <= Len(pool[p[1]]) /\ pool[p[1]][p[2]] = f})
    + Cardinality({t \in Threads : hold[t] = f})
    + Cardinality({w \in Workers : dup[w] = f})

(* Every frame of the ring is in exactly one place: in one pool, once, or  *)
(* in the hands of one thread.  Nothing is lost, and no frame is claimed   *)
(* twice, as framebuffer.h says of the claiming functions.                 *)
OneOwner == \A f \in setup.ring : Places(f) = 1

(* The most that holds with frame threads that duplicate frames: only a    *)
(* frame that has been pushed by both vframe_dup and DUP_vptr_if_cloned is *)
(* ever in two places, and no put is refused, so that no frame is lost,    *)
(* before there is one.  Without duplicates that is OneOwner.              *)
DamageContained ==
    \A f \in setup.ring :
        /\ Places(f) > 1 => f \in doubled \union {dup[w] : w \in Workers}
        /\ Places(f) = 0 => doubled # {}

(* A pooled frame has the status of its pool: reinjection and flushing     *)
(* find the pool of a frame by the frame's own status.  (A frame that was  *)
(* pushed twice can be registered while it is queued.)                     *)
StatusIsPool ==
    doubled = {} =>
        \A S \in Stages : \A i \in DOMAIN pool[S] : status[pool[S][i]] = S

(* The frames take one way: nobody overtakes, and no frame is in two pools.*)
OneWay == Cardinality(Team) <= 1 /\ doubled = {}

(* The order of the frames denotes the decoding and therefore the encoding *)
(* order (docs/tech/architecture.txt), and a clone follows its frame; two  *)
(* frame threads finish in any order.                                      *)
InOrder ==
    OneWay => \A k \in 1 .. Len(encoded) - 1 : encoded[k] <= encoded[k + 1]

AtTheEnd == pc[Encoder] = "dispose_last" /\ id[hold[Encoder]] = setup.source

(* The encoding loop returns when done with all frames: when it takes the  *)
(* frame that marks the end, every frame before it that no filter (and no  *)
(* --frame_interval) left out has been encoded, no other one has, and none *)
(* more often than wanted: a frame nobody cloned exactly once.             *)
AllDone ==
    AtTheEnd => \A i \in 0 .. setup.source - 1 :
                    Count(i) \in IF wanted[i] = 0 THEN {0} ELSE 1 .. wanted[i]

(* ... which holds with at most one frame thread; with two, the mark of    *)
(* the end overtakes a frame (README, remarks).                            *)
NoneLost == OneWay => AllDone

(* A cloned frame is encoded twice (docs/tech/architecture.txt).           *)
AllEncoded == AtTheEnd => \A i \in 0 .. setup.source - 1 : Count(i) = wanted[i]

(* The session ends: no thread waits for a frame, or for another thread,   *)
(* for ever.  That takes a user who does not interrupt, at most one frame  *)
(* thread, none if the encoder may fail, and none that duplicates frames:  *)
(* a thread that has tested the run status may fall asleep after the       *)
(* wake-ups.  If the encoder fails, the importer does not when all that is *)
(* left of its source fits into the ring (README, remarks).                *)
SessionEnds ==
    /\ ~setup.interrupts
    /\ \/ Team = {} /\ (setup.failures => setup.source <= Cardinality(setup.ring))
       \/ Cardinality(Team) = 1 /\ ~setup.failures /\ "EM" \notin setup.clones
    => <>(pc[Encoder] = "ended")

(* frame_threads.h: the frame threads are terminated for any reason        *)
(* (regular stop, end of stream reached, forced interruption).             *)
WorkersTerminate == \A w \in Workers : ~tc_running ~> pc[w] \in {"done", "none"}

(* Every filter in every slot can clone frames (docs/tech/architecture.txt):*)
(* the frame thread of a frame to be cloned gets its duplicate.            *)
CloneIsMade == \A w \in Workers : pc[w] = "dup" ~> pc[w] # "dup"

(* The code that uses a duplicate knows that it was successfully cloned    *)
(* (frame_threads.c).                                                      *)
CloneIsChecked == \A w \in Workers : pc[w] # "crashed"
=============================================================================
