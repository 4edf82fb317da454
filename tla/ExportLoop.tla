----------------------------- MODULE ExportLoop -----------------------------
(***************************************************************************)
(* tc_export_loop (libtcexport/export.c) as transcode_mode_default calls   *)
(* it, once per range of the -c option: it pairs the frames of the two     *)
(* frame sources, decides by their ids which pairs to encode, and gives    *)
(* the frames back.                                                        *)
(*                                                                         *)
(* A frame source delivers the frames of its stream in order, each again   *)
(* if it is reinjected, and then the frame that marks its end; after that  *)
(* one nothing comes any more and a caller waits for ever (see             *)
(* FramePipeline).                                                         *)
(***************************************************************************)
EXTENDS Integers, Sequences, FiniteSets

CONSTANT Jobs     \* the jobs to do

(* A job: the ranges <<stf, etf>> of vob->ttime, the interval, how many    *)
(* frames each stream has, and what may happen: the video encoder delays   *)
(* its output, a video filter clones (until one clone is counted), the     *)
(* encoder or the multiplexor fails.                                       *)
ASSUME JobsAssumption ==
    \A j \in Jobs : /\ j.ranges \in Seq(Nat \X Nat) /\ j.ranges # <<>>
                    /\ j.frame_interval \in Nat \ {0}
                    /\ j.video \in Nat /\ j.audio \in Nat
                    /\ j.events \subseteq {"delay", "clone", "failure"}

VARIABLES
    job,
    range,         \* index of the range being encoded
    vnext, anext,  \* id of the next frame of each source
    video, audio,  \* expdata.input: the ids of the two frames, NoFrame if none
    vattr, aattr,  \* attributes of the two frames
    skip,          \* frames to skip before the next one to encode
    error_flag,
    frames_cloned, \* the counter of export.c
    frame_id,
    encoded,       \* history: the pairs encoded; audio NoFrame if delayed
    pc

vars == <<job, range, vnext, anext, video, audio, vattr, aattr, skip,
          error_flag, frames_cloned, frame_id, encoded, pc>>
input == <<video, audio, vattr, aattr>>

NoFrame == -1
frame_first == job.ranges[range][1]
frame_last  == job.ranges[range][2]

Init ==
    /\ job \in Jobs
    /\ range = 1
    /\ vnext = 0 /\ anext = 0
    /\ video = NoFrame /\ audio = NoFrame
    /\ vattr = {} /\ aattr = {}
    /\ skip = 0 /\ error_flag = FALSE
    /\ frames_cloned = 0 /\ frame_id = 0
    /\ encoded = <<>>
    /\ pc = "loop"

(* while (!eos && !need_stop(...)): eos has its own way out. *)
loop ==
    /\ pc = "loop"
    /\ pc' = IF error_flag THEN "next" ELSE "video"
    /\ UNCHANGED <<job, range, vnext, anext, input, skip, error_flag,
                   frames_cloned, frame_id, encoded>>

(* fs->get_video_frame and fs->get_audio_frame.  The filters may have      *)
(* cloned a video frame that is in one of the ranges (MARK_TIME_RANGE).    *)
InRanges(i) == \E k \in DOMAIN job.ranges : job.ranges[k][1] <= i /\ i < job.ranges[k][2]

get_video_frame ==
    /\ pc = "video"
    /\ vnext <= job.video
    /\ video' = vnext
    /\ vattr' \in {IF vnext = job.video THEN {"eos"} ELSE vattr}
                    \union (IF "clone" \in job.events /\ vnext < job.video
                               /\ InRanges(vnext) /\ frames_cloned = 0
                               /\ "was_cloned" \notin vattr THEN {{"is_cloned"}} ELSE {})
    /\ pc' = "audio"
    /\ UNCHANGED <<job, range, vnext, anext, audio, aattr, skip, error_flag,
                   frames_cloned, frame_id, encoded>>

get_audio_frame ==
    /\ pc = "audio"
    /\ anext <= job.audio
    /\ audio' = anext
    /\ aattr' = IF anext = job.audio THEN {"eos"} ELSE aattr
    /\ frame_id' = video + frames_cloned
    /\ pc' = "work"
    /\ UNCHANGED <<job, range, vnext, anext, video, vattr, skip, error_flag,
                   frames_cloned, encoded>>

EndOfStream == "eos" \in vattr \union aattr

(* Mutants: a loop that does not stop at the end of its range; a range     *)
(* that excludes its first frame.                                          *)
Mut_is_last_frame == EndOfStream
Mut_is_in_range   == frame_first < frame_id /\ frame_id < frame_last

is_last_frame == EndOfStream \/ frame_id = frame_last
is_in_range   == frame_first <= frame_id /\ frame_id < frame_last

(* The last frame of the range, or a frame outside it: tc_export_skip.     *)
(* is_last_frame consumes the marks of the end.                            *)
skip_last ==
    /\ pc = "work"
    /\ is_last_frame
    /\ vattr' = vattr \ {"eos"} /\ aattr' = aattr \ {"eos"}
    /\ pc' = "free_last"
    /\ UNCHANGED <<job, range, vnext, anext, video, audio, skip, error_flag,
                   frames_cloned, frame_id, encoded>>

(* Mutant: the loop continues without giving the frames back. *)
Mut_skip_out_of_range ==
    /\ pc = "work"
    /\ ~is_last_frame /\ ~is_in_range
    /\ pc' = "loop"
    /\ UNCHANGED <<job, range, vnext, anext, input, skip, error_flag,
                   frames_cloned, frame_id, encoded>>

skip_out_of_range ==
    /\ pc = "work"
    /\ ~is_last_frame /\ ~is_in_range
    /\ pc' = "free"
    /\ UNCHANGED <<job, range, vnext, anext, input, skip, error_flag,
                   frames_cloned, frame_id, encoded>>

skip_interval ==
    /\ pc = "work"
    /\ ~is_last_frame /\ is_in_range
    /\ skip > 0
    /\ skip' = skip - 1
    /\ pc' = "free"
    /\ UNCHANGED <<job, range, vnext, anext, input, error_flag,
                   frames_cloned, frame_id, encoded>>

(* tc_encoder_process: a video frame the encoder delays keeps its audio    *)
(* frame for the next pair.                                                *)
tc_encoder_process(delayed) ==
    /\ vattr' = {}
    /\ aattr' = IF delayed THEN {"is_cloned"} ELSE {}
    /\ encoded' = Append(encoded, <<video, IF delayed THEN NoFrame ELSE audio>>)

(* Mutant: the counter of skipped frames starts one too high. *)
Mut_SkipAfter == job.frame_interval

SkipAfter == job.frame_interval - 1

tc_export_frames ==
    /\ pc = "work"
    /\ ~is_last_frame /\ is_in_range
    /\ skip = 0
    /\ \E delayed \in {FALSE, "delay" \in job.events} : tc_encoder_process(delayed)
    /\ error_flag' \in {FALSE, "failure" \in job.events}
    /\ skip' = SkipAfter
    /\ pc' = "free"
    /\ UNCHANGED <<job, range, vnext, anext, video, audio, frames_cloned, frame_id>>

(* Mutant: a reinjected audio frame is not seen again. *)
Mut_Reinjected(attr) == FALSE

Reinjected(attr) == "is_cloned" \in attr

(* Mutant: the loop is left before the last audio frame is given back. *)
Mut_free_frames ==
    /\ pc \in {"free", "free_last"}
    /\ frames_cloned' = frames_cloned + IF "was_cloned" \in vattr THEN 1 ELSE 0
    /\ vnext' = IF Reinjected(vattr) THEN vnext ELSE vnext + 1
    /\ anext' = IF Reinjected(aattr) \/ pc = "free_last" THEN anext ELSE anext + 1
    /\ vattr' = IF Reinjected(vattr) THEN {"was_cloned"} ELSE {}
    /\ aattr' = IF Reinjected(aattr) THEN {"was_cloned"} ELSE {}
    /\ video' = NoFrame /\ audio' = NoFrame
    /\ pc' = IF pc = "free" THEN "loop" ELSE "next"
    /\ UNCHANGED <<job, range, skip, error_flag, frame_id, encoded>>

(* fs->free_video_frame and fs->free_audio_frame: a clone comes again; the *)
(* second time it is counted.                                              *)
free_frames ==
    /\ pc \in {"free", "free_last"}
    /\ frames_cloned' = frames_cloned + IF "was_cloned" \in vattr THEN 1 ELSE 0
    /\ vnext' = IF Reinjected(vattr) THEN vnext ELSE vnext + 1
    /\ anext' = IF Reinjected(aattr) THEN anext ELSE anext + 1
    /\ vattr' = IF Reinjected(vattr) THEN {"was_cloned"} ELSE {}
    /\ aattr' = IF Reinjected(aattr) THEN {"was_cloned"} ELSE {}
    /\ video' = NoFrame /\ audio' = NoFrame
    /\ pc' = IF pc = "free" THEN "loop" ELSE "next"
    /\ UNCHANGED <<job, range, skip, error_flag, frame_id, encoded>>

(* transcode_mode_default: the next range, with its flags reset. *)
next_range ==
    /\ pc = "next"
    /\ range < Len(job.ranges)
    /\ range' = range + 1
    /\ error_flag' = FALSE /\ skip' = 0
    /\ pc' = "loop"
    /\ UNCHANGED <<job, vnext, anext, input, frames_cloned, frame_id, encoded>>

no_more_ranges ==
    /\ pc = "next"
    /\ range = Len(job.ranges)
    /\ pc' = "done"
    /\ UNCHANGED <<job, range, vnext, anext, input, skip, error_flag,
                   frames_cloned, frame_id, encoded>>

Done == pc = "done" /\ UNCHANGED vars

Next ==
    \/ loop \/ get_video_frame \/ get_audio_frame
    \/ skip_last \/ skip_out_of_range \/ skip_interval \/ tc_export_frames
    \/ free_frames \/ next_range \/ no_more_ranges \/ Done

(* One thread, which runs when it can. *)
Spec == Init /\ [][Next]_vars /\ WF_vars(Next)

-----------------------------------------------------------------------------

(* Type invariant of the export loop.                                      *)
TypeOK ==
    /\ range \in DOMAIN job.ranges
    /\ vnext \in 0 .. job.video + 1 /\ anext \in 0 .. job.audio + 1
    /\ video \in {NoFrame, vnext} /\ audio \in {NoFrame, anext}
    /\ vattr \union aattr \subseteq {"eos", "is_cloned", "was_cloned"}
    /\ skip \in 0 .. job.frame_interval - 1
    /\ error_flag \in BOOLEAN
    /\ frames_cloned \in Nat
    /\ pc \in {"loop", "video", "audio", "work", "free", "free_last", "next", "done"}

(* The frames the options ask for: every frame_interval-th frame of each   *)
(* range, its last frame excluded, as far as the streams go.               *)
Streams == IF job.video < job.audio THEN job.video ELSE job.audio
Wanted(k, i) ==
    /\ job.ranges[k][1] <= i /\ i < job.ranges[k][2]
    /\ (i - job.ranges[k][1]) % job.frame_interval = 0
Selected == {i \in 0 .. Streams - 1 : \E k \in DOMAIN job.ranges : Wanted(k, i)}

(* The ranges follow one another, with a frame in between: the loop takes  *)
(* the frame behind a range to see that it is over.                        *)
RangesApart ==
    \A k, l \in DOMAIN job.ranges :
        /\ job.ranges[k][1] <= job.ranges[k][2]
        /\ k < l => job.ranges[k][2] < job.ranges[l][1]

(* Encode only the frames of the ranges (-c f1-f2[,f3-f4]), only every     *)
(* N-th of them (--frame_interval N), every such frame, and in order.      *)
SelectionEncoded ==
    pc = "done" /\ job.events = {} /\ RangesApart =>
        /\ {encoded[k][1] : k \in DOMAIN encoded} = Selected
        /\ \A k, l \in DOMAIN encoded : k < l => encoded[k][1] < encoded[l][1]

(* Without delays and clones the two media stay in step, even when the     *)
(* encoder fails and the loop goes on with the next range: a pair that is  *)
(* encoded is made of the frames of one moment, and the loop never reads   *)
(* one source further than the other.                                      *)
InStep ==
    job.events \intersect {"delay", "clone"} = {} =>
        /\ \A k \in DOMAIN encoded : encoded[k][1] = encoded[k][2]
        /\ vnext = anext

(* Which encoded pairs have sound, and when all frames are to be encoded.  *)
Sounds(k)  == encoded[k][2] # NoFrame
EveryFrame == Len(job.ranges) = 1 /\ job.frame_interval = 1 /\ "clone" \notin job.events

(* However often the video encoder delays its output, no audio frame is    *)
(* encoded twice and, with one range and every frame selected, none        *)
(* between two encoded ones is lost.                                       *)
AudioContiguous ==
    \A k, l \in DOMAIN encoded :
        k < l /\ Sounds(k) /\ Sounds(l) =>
            /\ encoded[k][2] < encoded[l][2]
            /\ EveryFrame /\ (\A n \in k + 1 .. l - 1 : ~Sounds(n))
               => encoded[l][2] = encoded[k][2] + 1

(* Each range ends later than the one before it.                           *)
RangesAscend ==
    \A k \in 1 .. Len(job.ranges) - 1 : job.ranges[k][2] < job.ranges[k + 1][2]

(* Unless a clone is counted in between, a loop does not read beyond the   *)
(* last frame of its range, so that the frames of the next range, if it    *)
(* ends later, are still there.                                            *)
RangeRespected ==
    pc \in {"work", "free", "free_last"} /\ "clone" \notin job.events /\ RangesAscend
        => frame_id <= frame_last

(* The encoding loop returns when done with all frames (transcode.c), so   *)
(* that all the ranges get their turn.                                     *)
AllRangesTried == <>(pc = "done")
=============================================================================
