---------------------------- MODULE Synchronizer ----------------------------
(***************************************************************************)
(* src/synchronizer.c between its callers: the two import threads ask it   *)
(* for frames, each from its own side and without a lock, and the main     *)
(* thread takes the frames in pairs until one of a pair ends its stream.   *)
(*                                                                         *)
(* The rings are bounded queues here, with the sleep of an import thread   *)
(* that finds no free frame (FramePool has the inside of the pools, Session*)
(* the interruptions).  A frame is the number of the source frame in it.   *)
(***************************************************************************)
EXTENDS Integers, Sequences, FiniteSets

CONSTANTS Buffers,   \* how many frames each ring has
          Jobs       \* what to import: see JobType

(* The method ("adjust" is -M 5), the lengths of the two sources, vob->sync *)
(* (the -D option) and the two --resync options.                           *)
JobType == [method : {"none", "adjust"}, video : Nat, audio : Nat, sync : Int,
            frames_margin : Nat, frames_interval : Nat]

ASSUME BuffersAssumption == Buffers \in Nat \ {0}
ASSUME JobsAssumption    == \A j \in Jobs : j \in JobType

VARIABLES
    job,
    pc,              \* of "video" and "audio" (import) and "main"
    tc_running,
    read,            \* how many frames each source was asked for
    frame,           \* the frame each thread works on
    ret,             \* what the synchronizer answered to each import thread
    sleep,           \* each import thread in its NULL pool: "no", "asleep", "woken"
    queue,           \* frames that are ready, of each medium
    held,            \* the frame of each medium the main thread holds, if any
    audio_shift,
    op, video_counter, audio_counter, video_cloned, video_dropped,
    saved,           \* the frame kept for a clone
    delivered        \* history: the frames the synchronizer filled

counters == <<video_counter, audio_counter, video_cloned, video_dropped>>
ring == <<queue, held, sleep>>
vars == <<job, pc, tc_running, read, frame, ret, ring, audio_shift, op, counters,
          saved, delivered>>

Media == {"video", "audio"}
BLANK == 0         \* a blank frame
STALE == -1        \* whatever the buffer held: a fill that failed
Both(x) == [m \in Media |-> x]

Init ==
    /\ job \in Jobs
    /\ pc = [t \in Media \union {"main"} |-> IF t = "main" THEN "claim_video" ELSE "loop"]
    /\ tc_running = TRUE
    /\ read = Both(0) /\ frame = Both(STALE) /\ ret = Both("TC_OK")
    /\ queue = Both(<<>>) /\ held = Both("none") /\ sleep = Both("no")
    /\ audio_shift = job.sync
    /\ op = "none" /\ video_counter = 0 /\ audio_counter = 0
    /\ video_cloned = 0 /\ video_dropped = 0
    /\ saved = BLANK /\ delivered = Both(<<>>)

go(t, to) == pc' = [pc EXCEPT ![t] = to]

(* video_get_frame and audio_get_frame, n times: each call reads on, the   *)
(* last one leaves its frame or fails.                                     *)
length(m) == IF m = "video" THEN job.video ELSE job.audio
filler(m, n) ==
    /\ read' = [read EXCEPT ![m] = @ + n]
    /\ frame' = [frame EXCEPT ![m] = IF read'[m] <= length(m) THEN read'[m] ELSE STALE]
filled(m) == IF read'[m] <= length(m) THEN "TC_OK" ELSE "TC_ERROR"
answer(m, r) ==
    /\ ret' = [ret EXCEPT ![m] = r]
    /\ delivered' = [delivered EXCEPT ![m] = Append(@, frame'[m])]

-----------------------------------------------------------------------------
(* The import loops: register a frame, have it filled, push it.            *)

(* The loop tests the run status, and then the frame is claimed, so that   *)
(* the program may stop in between.                                        *)
import_loop(m) ==
    /\ pc[m] = "loop"
    /\ go(m, IF tc_running THEN "register" ELSE "end")
    /\ UNCHANGED <<job, tc_running, read, frame, ret, ring, audio_shift, op, counters,
                   saved, delivered>>

(* tc_frame_pool_get_frame of the NULL pool: a free frame is taken,        *)
(* whatever the run status; it is tested after a wake-up only.             *)
Free(m)        == Len(queue[m]) + (IF held[m] = "none" THEN 0 ELSE 1) < Buffers
Interrupted(m) == sleep[m] = "woken" /\ ~tc_running

register(m) ==
    /\ pc[m] = "register" /\ sleep[m] # "asleep" /\ ~Interrupted(m)
    /\ Free(m)
    /\ sleep' = [sleep EXCEPT ![m] = "no"]
    /\ go(m, "get")
    /\ UNCHANGED <<job, tc_running, read, frame, ret, queue, held, audio_shift, op, counters,
                   saved, delivered>>

register_wait(m) ==
    /\ pc[m] = "register" /\ sleep[m] # "asleep" /\ ~Interrupted(m)
    /\ ~Free(m)
    /\ sleep' = [sleep EXCEPT ![m] = "asleep"]
    /\ UNCHANGED <<job, pc, tc_running, read, frame, ret, queue, held, audio_shift, op, counters,
                   saved, delivered>>

register_interrupted(m) ==
    /\ pc[m] = "register" /\ Interrupted(m)
    /\ sleep' = [sleep EXCEPT ![m] = "no"]
    /\ go(m, "end")
    /\ UNCHANGED <<job, tc_running, read, frame, ret, queue, held, audio_shift, op, counters,
                   saved, delivered>>

(* A signal to the NULL pools of both rings. *)
Woken == [m \in Media |-> IF sleep[m] = "asleep" THEN "woken" ELSE sleep[m]]

(* Mutant: the frame that ends the stream is not marked. *)
Mut_push_next(m) ==
    /\ pc[m] = "push"
    /\ queue' = [queue EXCEPT ![m] = Append(@, "frame")]
    /\ go(m, IF ret[m] = "TC_OK" THEN "loop" ELSE "end")
    /\ UNCHANGED <<job, tc_running, read, frame, ret, held, sleep, audio_shift, op, counters,
                   saved, delivered>>

(* A fill that fails makes the frame the end of the stream. *)
push_next(m) ==
    /\ pc[m] = "push"
    /\ queue' = [queue EXCEPT ![m] = Append(@, IF ret[m] = "TC_OK" THEN "frame" ELSE "eos")]
    /\ go(m, IF ret[m] = "TC_OK" THEN "loop" ELSE "end")
    /\ UNCHANGED <<job, tc_running, read, frame, ret, held, sleep, audio_shift, op, counters,
                   saved, delivered>>

-----------------------------------------------------------------------------
(* The synchronizer, called by the video import thread. *)

tc_sync_none_get_video ==
    /\ pc["video"] = "get" /\ job.method = "none"
    /\ filler("video", 1)
    /\ answer("video", filled("video"))
    /\ go("video", "push")
    /\ UNCHANGED <<job, tc_running, ring, audio_shift, op, counters, saved>>

(* tc_sync_adjust_get_video: what was decided at the frame before.         *)
(* Mutant: a frame to drop is read, but not overwritten by the next one.   *)
Mut_Reads == 1
Reads == IF op = "drop" THEN 2 ELSE 1

adjust_get ==
    /\ pc["video"] = "get" /\ job.method = "adjust"
    /\ IF op = "clone"
       THEN /\ frame' = [frame EXCEPT !["video"] = IF video_cloned = 0 THEN BLANK ELSE saved]
            /\ UNCHANGED read
       ELSE filler("video", Reads)
    /\ op' = "none"
    /\ go("video", "decide")
    /\ UNCHANGED <<job, tc_running, ret, ring, audio_shift, counters, saved, delivered>>

drift == audio_counter - video_counter
due ==
    /\ job.frames_margin # 0 /\ video_counter # 0 /\ audio_counter # 0
    /\ job.frames_interval = 0 \/ video_counter % job.frames_interval = 0

(* Mutant: the margin itself is already too much. *)
Mut_too_far == drift >= job.frames_margin \/ -drift >= job.frames_margin
too_far == drift > job.frames_margin \/ -drift > job.frames_margin

(* And what to do at the next one.  The answer is TC_OK, whatever the      *)
(* filler said.                                                            *)
adjust_decide ==
    /\ pc["video"] = "decide"
    /\ IF due /\ too_far
       THEN IF drift > 0
            THEN /\ op' = "clone" /\ saved' = frame["video"]
                 /\ video_cloned' = video_cloned + 1
                 /\ UNCHANGED video_dropped
            ELSE /\ op' = "drop"
                 /\ video_dropped' = video_dropped + 1
                 /\ UNCHANGED <<saved, video_cloned>>
       ELSE UNCHANGED <<op, saved, video_cloned, video_dropped>>
    /\ video_counter' = video_counter + 1
    /\ UNCHANGED frame
    /\ answer("video", "TC_OK")
    /\ go("video", "push")
    /\ UNCHANGED <<job, tc_running, read, ring, audio_shift, audio_counter>>

-----------------------------------------------------------------------------
(* The synchronizer, called by the audio import thread.                    *)
(* tc_sync_audio_shift: frames to drop are read, their answers ignored; a  *)
(* blank frame is overwritten by the fill that follows.                    *)
(* Mutant: the shift is done for every frame.                              *)
Mut_shift_done == job.sync
shift_done == 0

tc_sync_audio_shift ==
    /\ pc["audio"] = "get"
    /\ CASE audio_shift < 0 -> /\ frame' = [frame EXCEPT !["audio"] = BLANK]
                               /\ UNCHANGED read
         [] audio_shift > 0 -> filler("audio", audio_shift)
         [] OTHER           -> UNCHANGED <<read, frame>>
    /\ audio_shift' = shift_done
    /\ go("audio", "fill")
    /\ UNCHANGED <<job, tc_running, ret, ring, op, counters, saved, delivered>>

(* tc_sync_none_get_audio and tc_sync_adjust_get_audio; only the latter    *)
(* counts.                                                                 *)
get_audio ==
    /\ pc["audio"] = "fill"
    /\ audio_counter' = IF job.method = "adjust" THEN audio_counter + 1 ELSE audio_counter
    /\ filler("audio", 1)
    /\ answer("audio", filled("audio"))
    /\ go("audio", "push")
    /\ UNCHANGED <<job, tc_running, ring, audio_shift, op, video_counter, video_cloned,
                   video_dropped, saved>>

-----------------------------------------------------------------------------
(* The main thread: the export loop, without ranges (ExportLoop has them), *)
(* and the end of transcode_mode_default.                                  *)

claim(m, from, to) ==
    /\ pc["main"] = from /\ queue[m] # <<>>
    /\ held' = [held EXCEPT ![m] = Head(queue[m])]
    /\ queue' = [queue EXCEPT ![m] = Tail(@)]
    /\ go("main", to)
    /\ UNCHANGED <<job, tc_running, read, frame, ret, sleep, audio_shift, op, counters, saved,
                   delivered>>

(* The frames of the pair are free again, and who waits for one is woken.  *)
encode ==
    /\ pc["main"] = "encode"
    /\ held' = Both("none")
    /\ sleep' = Woken
    /\ go("main", IF "eos" \in {held["video"], held["audio"]} THEN "stop" ELSE "claim_video")
    /\ UNCHANGED <<job, tc_running, read, frame, ret, queue, audio_shift, op, counters, saved,
                   delivered>>

(* tc_stop_all: tc_stop, then tc_framebuffer_interrupt; later              *)
(* tc_import_threads_cancel wakes once more and joins both threads.        *)
tc_stop ==
    /\ pc["main"] = "stop"
    /\ tc_running' = FALSE
    /\ go("main", "interrupt")
    /\ UNCHANGED <<job, read, frame, ret, ring, audio_shift, op, counters, saved, delivered>>

wake_up(from, to) ==
    /\ pc["main"] = from
    /\ sleep' = Woken
    /\ go("main", to)
    /\ UNCHANGED <<job, tc_running, read, frame, ret, queue, held, audio_shift, op, counters,
                   saved, delivered>>

join ==
    /\ pc["main"] = "join" /\ \A m \in Media : pc[m] = "end"
    /\ go("main", "end")
    /\ UNCHANGED <<job, tc_running, read, frame, ret, ring, audio_shift, op, counters, saved,
                   delivered>>

Finished == pc["main"] = "end"

import(m) == import_loop(m) \/ register(m) \/ register_wait(m) \/ register_interrupted(m)
             \/ push_next(m)
import_video == import("video") \/ tc_sync_none_get_video \/ adjust_get \/ adjust_decide
import_audio == import("audio") \/ tc_sync_audio_shift \/ get_audio
export == \/ claim("video", "claim_video", "claim_audio")
          \/ claim("audio", "claim_audio", "encode")
          \/ encode \/ tc_stop
          \/ wake_up("interrupt", "cancel") \/ wake_up("cancel", "join")
          \/ join

Next == import_video \/ import_audio \/ export

(* Each is a thread that goes on when it can. *)
Fairness == WF_vars(import_video) /\ WF_vars(import_audio) /\ WF_vars(export)

Spec == Init /\ [][Next]_vars /\ Fairness

-----------------------------------------------------------------------------
TypeOK ==
    /\ job \in Jobs /\ tc_running \in BOOLEAN
    /\ pc \in [Media \union {"main"} ->
                  {"loop", "register", "get", "decide", "fill", "push", "end", "claim_video",
                   "claim_audio", "encode", "stop", "interrupt", "cancel", "join"}]
    /\ pc["video"] \in {"loop", "register", "get", "decide", "push", "end"}
    /\ pc["audio"] \in {"loop", "register", "get", "fill", "push", "end"}
    /\ pc["main"] \in {"claim_video", "claim_audio", "encode", "stop", "interrupt", "cancel",
                       "join", "end"}
    /\ sleep \in [Media -> {"no", "asleep", "woken"}]
    /\ read \in [Media -> Nat] /\ frame \in [Media -> Int]
    /\ ret \in [Media -> {"TC_OK", "TC_ERROR"}]
    /\ queue \in [Media -> Seq({"frame", "eos"})] /\ held \in [Media -> {"none", "frame", "eos"}]
    /\ \A m \in Media : Len(queue[m]) + (IF held[m] = "none" THEN 0 ELSE 1) <= Buffers
    /\ audio_shift \in Int /\ op \in {"none", "clone", "drop"} /\ saved \in Int
    /\ video_counter \in Nat /\ audio_counter \in Nat
    /\ video_cloned \in Nat /\ video_dropped \in Nat
    /\ delivered \in [Media -> Seq(Int)]

(* Every frame of the video source that was asked for is delivered once    *)
(* and in order, except that a counted drop leaves one out and a counted   *)
(* clone repeats the frame before it; a decision takes effect at the next  *)
(* frame, exactly once.                                                    *)
VideoAccounted ==
    (read["video"] <= job.video /\ pc["video"] # "decide") =>
        LET d == delivered["video"]
            Steps(n) == Cardinality({k \in 2 .. Len(d) : d[k] = d[k - 1] + n})
            Pending(o) == IF op = o THEN 1 ELSE 0
        IN /\ d # <<>> => d[1] = 1
           /\ \A k \in 2 .. Len(d) : d[k] - d[k - 1] \in 0 .. 2
           /\ Steps(0) = video_cloned - Pending("clone")
           /\ Steps(2) = video_dropped - Pending("drop")

(* The counters count frames that are delivered, and the pairs tie the two *)
(* streams together: with a margin as large as a ring no frame is ever     *)
(* cloned or dropped, however the two threads are scheduled.               *)
NoNeedlessCorrection ==
    job.frames_margin >= Buffers => video_cloned = 0 /\ video_dropped = 0

(* With a shift of n >= 0 the audio begins with frame n + 1 and is without *)
(* a gap; the shift happens once.                                          *)
AudioFromShift ==
    job.sync >= 0 =>
        \A k \in DOMAIN delivered["audio"] :
            delivered["audio"][k] = IF k + job.sync <= job.audio THEN k + job.sync ELSE STALE

(* An import thread that tested the run status before the stop and fell    *)
(* asleep after the last wake-up: it is joined for ever.                   *)
Missed(m) == pc["main"] = "join" /\ sleep[m] = "asleep"

(* The end of a stream is always told: the export loop ends, and then the  *)
(* program, but for an import thread that misses the wake-ups (README,     *)
(* remarks).  The adjust method never tells the end of the video, so that  *)
(* this rests on the end of the audio alone, and the two threads must not  *)
(* block each other before it comes.                                       *)
SessionEnds == <>(Finished \/ \E m \in Media : Missed(m))

=============================================================================
