------------------------------ MODULE Session ------------------------------
(***************************************************************************)
(* The modes of transcode.c that work on a source in parts: the ranges of  *)
(* the default mode with a navigation offset each, the program stream      *)
(* units (the DVD chapters likewise) and the files of a directory.         *)
(* Between two parts the import threads are cancelled, the source is       *)
(* opened again, and the rings of both media are flushed; the frame        *)
(* counters of the import threads go on.                                   *)
(*                                                                         *)
(* FramePool checks the inside of a pool: a claim, a put and a wake-up are *)
(* one action each.  There are no frame threads and no filters here        *)
(* (FramePipeline has them), so that a frame goes from NULL to READY.      *)
(***************************************************************************)
EXTENDS Integers, Sequences, FiniteSets, SequencesExt

CONSTANTS Size,      \* how many frames each ring has
          Sessions   \* the sessions: see SessionType

ASSUME SizeAssumption == Size \in Nat \ {0}

(* A part is where the loop starts and ends, by frame id, and how many     *)
(* frames each source has behind the offset of the part.                   *)
PartType == [first : Nat, last : Nat, video : Nat, audio : Nat]
SessionType == [mode : {"ranges", "units", "directory"}, parts : Seq(PartType),
                interrupts : BOOLEAN]

ASSUME SessionAssumption == \A s \in Sessions : s \in SessionType /\ s.parts # <<>>

Frames  == 1 .. Size
Media   == {"video", "audio"}
Main    == "main"
Event   == "event"
Threads == Media \union {Main, Event}   \* the import thread of a medium has its name
Stages  == {"NULL", "EMPTY", "READY"}
NoFrame == 0

VARIABLES
    session,
    part,        \* the range, unit or directory entry the main thread works on
    file,        \* the source each import thread reads, its index in parts
    read,        \* how many frames of it have been read
    pc, sleep,
    filling,     \* the frame each import thread fills
    input,       \* the pair of frames the main thread encodes
    pool,        \* the frames in each pool of each ring, next first
    status, id,
    mark,        \* "no", "eos" or "skipped", of each frame
    origin,      \* history: the part and the position each frame is from
    active, framecount, tc_run_status,
    flushed,     \* how many frames of each ring the flush has looked at
    encoded,     \* history: of each part, the origins of the pairs encoded, in order
    late         \* history: how many pairs were encoded after the interruption

ring    == <<pool, status, id, mark, origin>>
source  == <<file, read, active, framecount>>
hands   == <<filling, input>>
history == <<encoded, late>>
vars    == <<session, part, file, read, pc, sleep, filling, input, pool, status,
             id, mark, origin, active, framecount, tc_run_status,
             flushed, encoded, late>>

tc_running == tc_run_status = "RUNNING"
mode       == session.mode
ThisPart   == session.parts[part]
LastPart   == part = Len(session.parts)

Both(x) == [m \in Media |-> x]

Init ==
    /\ session \in Sessions
    /\ part = 1 /\ file = Both(1) /\ read = Both(0)
    /\ pc = [t \in Threads |-> CASE t = Main -> "start" [] t = Event -> "wait" [] OTHER -> "none"]
    /\ sleep = [t \in Threads |-> "no"]
    /\ filling = Both(NoFrame) /\ input = Both(NoFrame)
    /\ pool = Both([S \in Stages |-> IF S = "NULL" THEN [i \in Frames |-> i] ELSE <<>>])
    /\ status = Both([f \in Frames |-> "NULL"])
    /\ id = Both([f \in Frames |-> 0])
    /\ mark = Both([f \in Frames |-> "no"])
    /\ origin = Both([f \in Frames |-> <<0, 0>>])
    /\ active = Both(FALSE) /\ framecount = Both(0)
    /\ tc_run_status = "STOPPED"
    /\ flushed = Both(0)
    /\ encoded = [k \in DOMAIN session.parts |-> <<>>] /\ late = 0

Goto(t, label) == pc' = [pc EXCEPT ![t] = label]

-----------------------------------------------------------------------------
(* The pools.  In NULL only the import thread of the medium ever sleeps,   *)
(* in READY only the main thread.                                          *)

Sleeper(m, S) == IF S = "NULL" THEN m ELSE Main

SleepsIn(m, S) ==
    LET t == Sleeper(m, S) IN
    /\ sleep[t] = "asleep"
    /\ t = Main => pc[Main] = m

Signalled(pools) ==
    [t \in Threads |-> IF \E p \in pools : t = Sleeper(p[1], p[2]) /\ SleepsIn(p[1], p[2])
                       THEN "woken" ELSE sleep[t]]

(* The pools as they are once f was put into S; READY is ordered by id,    *)
(* frames with one id in any order.                                        *)
Queued(m, S, f) ==
    LET q == pool[m][S]
        Ordered == {i \in 1 .. Len(q) + 1 :
                        /\ \A k \in 1 .. i - 1 : id[m][q[k]] <= id[m][f]
                        /\ \A k \in i .. Len(q) : id[m][f] <= id[m][q[k]]}
    IN  IF S = "READY" THEN {InsertAt(q, i, f) : i \in Ordered} ELSE {Append(q, f)}

CanClaim(t) == sleep[t] = "no" \/ (sleep[t] = "woken" /\ tc_running)

Claimed(t, m, S, f) ==
    /\ CanClaim(t)
    /\ pool[m][S] # <<>> /\ f = Head(pool[m][S])
    /\ pool' = [pool EXCEPT ![m][S] = Tail(@)]
    /\ sleep' = [sleep EXCEPT ![t] = "no"]

get_frame_wait(t, m, S) ==
    /\ CanClaim(t)
    /\ pool[m][S] = <<>>
    /\ sleep' = [sleep EXCEPT ![t] = "asleep"]
    /\ UNCHANGED <<session, part, source, pc, hands, ring, tc_run_status, flushed, history>>

Interrupted(t) ==
    /\ sleep[t] = "woken" /\ ~tc_running
    /\ sleep' = [sleep EXCEPT ![t] = "no"]

-----------------------------------------------------------------------------
(* The import thread of a medium: video_import_loop, audio_import_loop,    *)
(* and around them multi_import_thread in directory mode.                  *)

import_loop(m) ==
    /\ pc[m] = "loop"
    /\ Goto(m, IF tc_running /\ active[m] THEN "register" ELSE "returned")
    /\ UNCHANGED <<session, part, source, sleep, hands, ring, tc_run_status, flushed, history>>

register(m) ==
    /\ pc[m] = "register"
    /\ \E f \in Frames :
        /\ Claimed(m, m, "NULL", f)
        /\ status' = [status EXCEPT ![m][f] = "EMPTY"]
        /\ id' = [id EXCEPT ![m][f] = framecount[m]]
        /\ mark' = [mark EXCEPT ![m][f] = "no"]
        /\ filling' = [filling EXCEPT ![m] = f]
    /\ Goto(m, "fill")
    /\ UNCHANGED <<session, part, source, input, origin, tc_run_status, flushed, history>>

register_interrupted(m) ==
    /\ pc[m] = "register"
    /\ Interrupted(m)
    /\ Goto(m, "returned")
    /\ UNCHANGED <<session, part, source, hands, ring, tc_run_status, flushed, history>>

(* Mutant: nobody is signalled. *)
Mut_push_next(m, f) ==
    /\ status' = [status EXCEPT ![m][f] = "READY"]
    /\ \E q \in Queued(m, "READY", f) : pool' = [pool EXCEPT ![m]["READY"] = q]
    /\ sleep' = sleep
    /\ filling' = [filling EXCEPT ![m] = NoFrame]

push_next(m, f) ==
    /\ status' = [status EXCEPT ![m][f] = "READY"]
    /\ \E q \in Queued(m, "READY", f) : pool' = [pool EXCEPT ![m]["READY"] = q]
    /\ sleep' = Signalled({<<m, "READY">>})
    /\ filling' = [filling EXCEPT ![m] = NoFrame]

(* Mutant: one frame more than the source has. *)
Mut_AtEnd(m) == read[m] > session.parts[file[m]][m]

AtEnd(m) == read[m] = session.parts[file[m]][m]

import_frame(m) ==
    /\ pc[m] = "fill"
    /\ ~AtEnd(m)
    /\ origin' = [origin EXCEPT ![m][filling[m]] = <<file[m], read[m]>>]
    /\ push_next(m, filling[m])
    /\ read' = [read EXCEPT ![m] = @ + 1]
    /\ framecount' = [framecount EXCEPT ![m] = @ + 1]
    /\ Goto(m, "loop")
    /\ UNCHANGED <<session, part, file, active, input, id, mark, tc_run_status, flushed, history>>

(* tc_has_more_video_in_file: other files follow. *)
has_more_files(m) == mode = "directory" /\ file[m] < Len(session.parts)

import_end(m) ==
    /\ pc[m] = "fill"
    /\ AtEnd(m)
    /\ mark' = [mark EXCEPT ![m][filling[m]] = IF has_more_files(m) THEN "skipped" ELSE "eos"]
    /\ origin' = [origin EXCEPT ![m][filling[m]] = <<file[m], read[m]>>]
    /\ push_next(m, filling[m])
    /\ active' = [active EXCEPT ![m] = FALSE]
    /\ Goto(m, "returned")
    /\ UNCHANGED <<session, part, file, read, framecount, input, id, tc_run_status, flushed, history>>

(* The loop has returned: that ends the thread, but in directory mode the  *)
(* next file is opened if there is one, ...                                *)
next_file(m) ==
    /\ pc[m] = "returned"
    /\ IF has_more_files(m)
       THEN /\ file' = [file EXCEPT ![m] = @ + 1]
            /\ read' = [read EXCEPT ![m] = 0]
            /\ Goto(m, IF tc_running /\ active[m] THEN "loop" ELSE "interrupt")
       ELSE /\ Goto(m, IF mode = "directory" THEN "interrupt" ELSE "done")
            /\ UNCHANGED <<file, read>>
    /\ UNCHANGED <<session, part, active, framecount, sleep, hands, ring, tc_run_status, flushed, history>>

(* ... and at the end tc_framebuffer_interrupt is called. *)
multi_import_end(m) ==
    /\ pc[m] = "interrupt"
    /\ sleep' = Signalled(Media \X {"NULL", "READY"})
    /\ Goto(m, "done")
    /\ UNCHANGED <<session, part, source, hands, ring, tc_run_status, flushed, history>>

Import(m) ==
    \/ import_loop(m) \/ register(m) \/ register_interrupted(m)
    \/ pc[m] = "register" /\ get_frame_wait(m, m, "NULL")
    \/ import_frame(m) \/ import_end(m)
    \/ next_file(m) \/ multi_import_end(m)

-----------------------------------------------------------------------------
(* The main thread: tc_export_loop, with encoder_acquire_*frame and        *)
(* encoder_dispose_*frame; its label is the medium while it claims.        *)

(* Mutant: the run status is not tested. *)
Mut_export_loop ==
    /\ pc[Main] = "loop"
    /\ Goto(Main, "video")
    /\ UNCHANGED <<session, part, source, sleep, hands, ring, tc_run_status, flushed, history>>

export_loop ==
    /\ pc[Main] = "loop"
    /\ Goto(Main, IF tc_running THEN "video" ELSE "leave")
    /\ UNCHANGED <<session, part, source, sleep, hands, ring, tc_run_status, flushed, history>>

acquire(m, next) ==
    /\ pc[Main] = m
    /\ \E f \in Frames :
        /\ Claimed(Main, m, "READY", f)
        /\ mark[m][f] # "skipped"
        /\ input' = [input EXCEPT ![m] = f]
    /\ Goto(Main, next)
    /\ UNCHANGED <<session, part, source, filling, status, id, mark, origin, tc_run_status, flushed, history>>

(* A skipped frame is removed, and the next one is tried. *)
acquire_skipped(m) ==
    /\ pc[Main] = m
    /\ CanClaim(Main)
    /\ pool[m]["READY"] # <<>>
    /\ LET f == Head(pool[m]["READY"]) IN
        /\ mark[m][f] = "skipped"
        /\ pool' = [pool EXCEPT ![m]["READY"] = Tail(@), ![m]["NULL"] = Append(@, f)]
        /\ status' = [status EXCEPT ![m][f] = "NULL"]
    /\ sleep' = [Signalled({<<m, "NULL">>}) EXCEPT ![Main] = "no"]
    /\ UNCHANGED <<session, part, source, pc, hands, id, mark, origin, tc_run_status, flushed, history>>

(* Neither frame may be had: the loop is left, with the video frame in its *)
(* hands if it was the audio frame.                                        *)
acquire_interrupted ==
    /\ pc[Main] \in Media
    /\ Interrupted(Main)
    /\ Goto(Main, "leave")
    /\ UNCHANGED <<session, part, source, hands, ring, tc_run_status, flushed, history>>

is_last_frame ==
    \/ \E m \in Media : mark[m][input[m]] = "eos"
    \/ id["video"][input["video"]] = ThisPart.last

is_in_range ==
    /\ ThisPart.first <= id["video"][input["video"]]
    /\ id["video"][input["video"]] < ThisPart.last

(* Encode the pair or leave it out, and dispose of it. *)
tc_export_frames ==
    /\ pc[Main] = "encode"
    /\ IF ~is_last_frame /\ is_in_range
       THEN /\ encoded' = [encoded EXCEPT ![part] =
                               Append(@, [m \in Media |-> origin[m][input[m]]])]
            /\ late' = late + (IF tc_run_status = "INTERRUPTED" THEN 1 ELSE 0)
       ELSE UNCHANGED history
    /\ Goto(Main, IF is_last_frame THEN "leave" ELSE "loop")
    /\ status' = [m \in Media |-> [status[m] EXCEPT ![input[m]] = "NULL"]]
    /\ mark' = [m \in Media |-> [mark[m] EXCEPT ![input[m]] = "no"]]
    /\ pool' = [m \in Media |-> [pool[m] EXCEPT !["NULL"] = Append(@, input[m])]]
    /\ sleep' = Signalled(Media \X {"NULL"})
    /\ input' = Both(NoFrame)
    /\ UNCHANGED <<session, part, source, filling, id, origin, tc_run_status, flushed>>

-----------------------------------------------------------------------------
(* The main thread: transcode_mode_default, transcode_mode_psu and         *)
(* transcode_mode_directory.                                               *)

(* tc_import_open and tc_import_threads_create. *)
open(k) ==
    /\ file' = Both(k) /\ read' = Both(0)
    /\ active' = Both(TRUE)
    /\ pc' = [t \in Threads |-> IF t \in Media THEN "loop" ELSE IF t = Main THEN "loop" ELSE pc[t]]

(* tc_start, at the beginning of the session or of each unit. *)
start ==
    /\ pc[Main] = "start"
    /\ tc_run_status' = "RUNNING"
    /\ open(part)
    /\ UNCHANGED <<session, part, framecount, sleep, hands, ring, flushed, history>>

(* What follows tc_export_loop. *)
leave ==
    /\ pc[Main] = "leave"
    /\ CASE mode = "units" -> Goto(Main, "cancel") /\ part' = part
         [] mode = "ranges" /\ tc_run_status # "INTERRUPTED" /\ ~LastPart ->
                Goto(Main, "cancel") /\ part' = part
         [] OTHER -> Goto(Main, "stop") /\ part' = part
    /\ UNCHANGED <<session, source, sleep, hands, ring, tc_run_status, flushed, history>>

(* tc_import_threads_cancel, up to the join: between two parts the program *)
(* is running.                                                             *)
tc_import_threads_cancel ==
    /\ pc[Main] \in {"cancel", "last_cancel"}
    /\ active' = Both(FALSE)
    /\ sleep' = Signalled(Media \X {"NULL"})
    /\ Goto(Main, IF pc[Main] = "cancel" THEN "join" ELSE "last_join")
    /\ UNCHANGED <<session, part, file, read, framecount, hands, ring, tc_run_status, flushed, history>>

join ==
    /\ pc[Main] \in {"join", "last_join"}
    /\ \A m \in Media : pc[m] = "done"
    /\ Goto(Main, IF pc[Main] = "join" THEN "flush" ELSE "ended")
    /\ UNCHANGED <<session, part, source, sleep, hands, ring, tc_run_status, flushed, history>>

(* Mutant: the frame looked at is marked free, not the one that was pulled. *)
Mut_flush_frame(m, i) ==
    LET S == status[m][i]
        f == Head(pool[m][S])
    IN  IF S = "NULL" \/ pool[m][S] = <<>> THEN UNCHANGED <<pool, status>>
        ELSE /\ pool' = [pool EXCEPT ![m][S] = Tail(@), ![m]["NULL"] = Append(@, f)]
             /\ status' = [status EXCEPT ![m][i] = "NULL"]

(* For the frame with the index i, if it is not free: by its status, some  *)
(* frame of that pool is pulled and pushed into NULL.                      *)
flush_frame(m, i) ==
    LET S == status[m][i]
        f == Head(pool[m][S])
    IN  IF S = "NULL" \/ pool[m][S] = <<>> THEN UNCHANGED <<pool, status>>
        ELSE /\ pool' = [pool EXCEPT ![m][S] = Tail(@), ![m]["NULL"] = Append(@, f)]
             /\ status' = [status EXCEPT ![m][f] = "NULL"]

(* Mutant: the last frame of the ring is forgotten. *)
Mut_flush_more(m) == flushed[m] < Size - 1

flush_more(m) == flushed[m] < Size

(* One iteration of the loop in tc_frame_ring_flush; the audio ring is the *)
(* first.                                                                  *)
tc_frame_ring_flush(m) ==
    /\ pc[Main] = "flush"
    /\ m = "video" => ~flush_more("audio")
    /\ flush_more(m)
    /\ flush_frame(m, flushed[m] + 1)
    /\ flushed' = [flushed EXCEPT ![m] = @ + 1]
    /\ UNCHANGED <<session, part, source, pc, sleep, hands, id, mark, origin, tc_run_status, history>>

tc_framebuffer_flush ==
    /\ pc[Main] = "flush"
    /\ \A m \in Media : ~flush_more(m)
    /\ flushed' = Both(0)
    /\ Goto(Main, "next")
    /\ UNCHANGED <<session, part, source, sleep, hands, ring, tc_run_status, history>>

next_range ==
    /\ pc[Main] = "next" /\ mode = "ranges"
    /\ part' = part + 1
    /\ open(part + 1)
    /\ UNCHANGED <<session, framecount, sleep, hands, ring, tc_run_status, flushed, history>>

(* The next unit if there is one and the user did not interrupt. *)
next_unit ==
    /\ pc[Main] = "next" /\ mode = "units"
    /\ IF LastPart \/ tc_run_status = "INTERRUPTED"
       THEN Goto(Main, "stop") /\ part' = part
       ELSE Goto(Main, "start") /\ part' = part + 1
    /\ UNCHANGED <<session, source, sleep, hands, ring, tc_run_status, flushed, history>>

tc_stop_all ==
    /\ pc[Main] = "stop"
    /\ tc_run_status' = IF tc_running THEN "STOPPED" ELSE tc_run_status
    /\ sleep' = Signalled(Media \X {"NULL", "READY"})
    /\ Goto(Main, IF mode = "units" THEN "ended" ELSE "last_cancel")
    /\ UNCHANGED <<session, part, source, hands, ring, flushed, history>>

MainThread ==
    \/ export_loop
    \/ acquire("video", "audio") \/ acquire("audio", "encode")
    \/ \E m \in Media : acquire_skipped(m) \/ (pc[Main] = m /\ get_frame_wait(Main, m, "READY"))
    \/ acquire_interrupted \/ tc_export_frames
    \/ start \/ leave \/ tc_import_threads_cancel \/ join
    \/ (\E m \in Media : tc_frame_ring_flush(m)) \/ tc_framebuffer_flush \/ next_range \/ next_unit \/ tc_stop_all

(* event_handler: tc_interrupt, and then tc_framebuffer_interrupt. *)
tc_interrupt ==
    /\ session.interrupts
    /\ pc[Event] = "wait" /\ pc[Main] # "ended"
    /\ tc_run_status' = "INTERRUPTED"
    /\ Goto(Event, "wake")
    /\ UNCHANGED <<session, part, source, sleep, hands, ring, flushed, history>>

event_handler ==
    /\ pc[Event] = "wake"
    /\ sleep' = Signalled(Media \X {"NULL", "READY"})
    /\ Goto(Event, "done")
    /\ UNCHANGED <<session, part, source, hands, ring, tc_run_status, flushed, history>>

Ended == pc[Main] = "ended" /\ UNCHANGED vars

Next == (\E m \in Media : Import(m)) \/ MainThread \/ tc_interrupt \/ event_handler \/ Ended

Spec ==
    /\ Init /\ [][Next]_vars
    /\ \A m \in Media : WF_vars(Import(m))
    /\ WF_vars(MainThread) /\ WF_vars(event_handler)

-----------------------------------------------------------------------------

(* Type invariant of the session.                                          *)
TypeOK ==
    /\ part \in DOMAIN session.parts /\ file \in [Media -> DOMAIN session.parts]
    /\ \A m \in Media : read[m] \in 0 .. session.parts[file[m]][m] /\ framecount[m] \in Nat
    /\ sleep \in [Threads -> {"no", "asleep", "woken"}]
    /\ filling \in [Media -> Frames \union {NoFrame}] /\ input \in [Media -> Frames \union {NoFrame}]
    /\ \A m \in Media, S \in Stages : pool[m][S] \in Seq(Frames)
    /\ status \in [Media -> [Frames -> Stages]]
    /\ mark \in [Media -> [Frames -> {"no", "eos", "skipped"}]]
    /\ tc_run_status \in {"RUNNING", "STOPPED", "INTERRUPTED"}
    /\ flushed \in [Media -> 0 .. Size]

(* The places of a frame: a position of a pool, or a hand.                 *)
Places(m, f) ==
    (UNION {{S} \X {i \in DOMAIN pool[m][S] : pool[m][S][i] = f} : S \in Stages})
    \union {p \in {<<"filling", 0>>} : filling[m] = f}
    \union {p \in {<<"input", 0>>} : input[m] = f}

(* Whatever is cancelled, interrupted, flushed and started again: every    *)
(* frame of a ring is in one pool, once and with the status of that pool,  *)
(* or in the hands of one thread, and nobody leaves a pool without its     *)
(* frame.                                                                  *)
FramesConserved ==
    \A m \in Media : \A f \in Frames :
        /\ Cardinality(Places(m, f)) = 1
        /\ \A S \in Stages : f \in {pool[m][S][i] : i \in DOMAIN pool[m][S]} => status[m][f] = S

(* The pairs the main thread takes for a part whose ids start from 0,      *)
(* with the one that ends it, and the frames of a medium it leaves behind, *)
(* with the mark of the end.                                               *)
Least(S) == CHOOSE x \in S : \A y \in S : x <= y
Pairs(p) == Least({p.last, p.video, p.audio}) + 1
Leftover(p, m) == p[m] + 1 - Pairs(p)
LeavesAtMost(k, n) == \A m \in Media : Leftover(session.parts[k], m) <= n

(* What is known before the k-th part: the parts before it left at most    *)
(* one frame of each medium to flush.                                      *)
CleanBefore(k) == \A j \in 1 .. k - 1 : LeavesAtMost(j, 1)

(* The loop of a later unit ends with its sources, since TC_FRAME_LAST is  *)
(* an id that no frame has.                                                *)
Endless(k) == session.parts[k].last > framecount["video"]

(* A part is encoded completely, every pair once, in order, and made of    *)
(* two frames of one moment: the first range, and every unit that starts   *)
(* with its first frame.  (The frame ids go on from part to part, so that  *)
(* a later range misses its frames, and two frames left over may survive   *)
(* the flush: README, remarks.)                                            *)
PartWhole ==
    LET whole == Least({ThisPart.last, ThisPart.video, ThisPart.audio}) - ThisPart.first
    IN  /\ pc[Main] = "leave" /\ pc[Event] = "wait"
        /\ CleanBefore(part)
        /\ part = 1 \/ (mode = "units" /\ ThisPart.first = 0)
        /\ \A k \in 2 .. part : Endless(k)
        /\ mode = "directory" => Len(session.parts) = 1
        => /\ Len(encoded[part]) = IF whole < 0 THEN 0 ELSE whole
           /\ \A i \in DOMAIN encoded[part] : \A m \in Media :
                encoded[part][i][m] = <<part, ThisPart.first + i - 1>>

(* Once the program is interrupted, and as long as it knows, the loop      *)
(* encodes at most the pair it is about to have, whatever part it is in.   *)
InterruptObeyed == late <= 1

(* The session ends, if what the loop leaves of each source fits into the  *)
(* ring, whatever the mode: an import thread that tested the run status    *)
(* before the stop falls asleep after the wake-up in an empty NULL pool,   *)
(* one that is cancelled while the program runs is woken, sees it running  *)
(* and sleeps again, and either is joined for ever (README, remarks).  A   *)
(* second range, whose ids go on, may end with its first pair, so that all *)
(* of its frames have to fit.  A directory of several files never ends.    *)
SessionEnds ==
    LET n == Len(session.parts) IN
    /\ ~session.interrupts
    /\ CleanBefore(n)
    /\ CASE mode = "units"     -> LeavesAtMost(n, Size)
         [] mode = "ranges"    -> \/ n = 1 /\ LeavesAtMost(1, Size)
                                  \/ n = 2 /\ \A m \in Media : session.parts[2][m] <= Size
         [] mode = "directory" -> n = 1 /\ LeavesAtMost(1, Size)
    => <>(pc[Main] = "ended")

(* tc_framebuffer_flush will reset ringbuffers to an empty state, ready to *)
(* be used again (framebuffer.h).                                          *)
FlushEmpties == pc[Main] = "next" => \A m \in Media : Len(pool[m]["NULL"]) = Size
=============================================================================
