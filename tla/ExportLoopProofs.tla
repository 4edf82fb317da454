-------------------------- MODULE ExportLoopProofs --------------------------
(***************************************************************************)
(* The export loop, for any ranges, interval and streams: what is encoded, *)
(* and that audio and video stay paired.                                   *)
(***************************************************************************)
EXTENDS ExportLoop, TLAPS

USE JobsAssumption

-----------------------------------------------------------------------------
(* The types, and which frames the loop has at each position.              *)

Labels   == {"loop", "video", "audio", "work", "free", "free_last", "next", "done"}
HasVideo == {"audio", "work", "free", "free_last"}
HasPair  == {"work", "free", "free_last"}
Marks    == {"eos", "is_cloned", "was_cloned"}

Job ==
    /\ job.ranges \in Seq(Nat \X Nat) /\ job.ranges # <<>>
    /\ job.frame_interval \in Nat \ {0}
    /\ job.video \in Nat /\ job.audio \in Nat

Types ==
    /\ Job
    /\ range \in 1 .. Len(job.ranges)
    /\ vnext \in Nat /\ anext \in Nat
    /\ vattr \subseteq Marks /\ aattr \subseteq Marks
    /\ skip \in 0 .. job.frame_interval - 1
    /\ frames_cloned \in Nat
    /\ encoded \in Seq(Int \X Int)
    /\ pc \in Labels

Pair ==
    /\ pc \in HasVideo => video = vnext
    /\ pc \in HasPair  => audio = anext /\ frame_id = vnext + frames_cloned

(* A frame has the mark of the end while it is looked at.                  *)
Ends ==
    /\ pc \notin {"audio", "work"} => "eos" \notin vattr
    /\ pc # "work" => "eos" \notin aattr
    /\ pc \in {"audio", "work"} => vnext <= job.video /\ ("eos" \in vattr <=> vnext = job.video)
    /\ pc = "work" => anext <= job.audio /\ ("eos" \in aattr <=> anext = job.audio)

(* Only the encoder marks an audio frame to come again, only the filters a *)
(* video frame.                                                            *)
Clones ==
    /\ pc # "free" => "is_cloned" \notin aattr
    /\ "delay" \notin job.events => {"is_cloned", "was_cloned"} \intersect aattr = {}
    /\ "clone" \notin job.events =>
          /\ {"is_cloned", "was_cloned"} \intersect vattr = {}
          /\ frames_cloned = 0

LoopInv == Types /\ Pair /\ Ends /\ Clones

(* How far a loop reads.                                                   *)
Reading ==
    "clone" \notin job.events /\ RangesAscend =>
        /\ pc \in {"loop", "video", "audio", "work", "free_last"} => vnext <= frame_last
        /\ pc = "free" => vnext < frame_last
        /\ pc = "next" => vnext <= frame_last + 1

(* The audio frames that were encoded come before the next one of the      *)
(* source, or at the moment include it.                                    *)
Sounding ==
    /\ \A k \in DOMAIN encoded :
          Sounds(k) => /\ encoded[k][2] <= anext
                       /\ pc # "free" \/ Reinjected(aattr) => encoded[k][2] < anext
    /\ AudioContiguous

(* With every frame selected: the last one that was encoded is the one     *)
(* before the next.                                                        *)
LastSound(k) == k \in DOMAIN encoded /\ Sounds(k) /\ \A n \in DOMAIN encoded : Sounds(n) => n <= k

Contiguous ==
    EveryFrame =>
        /\ encoded # <<>> => frame_first <= vnext
        /\ \A k \in DOMAIN encoded :
              LastSound(k) =>
                  /\ pc \in {"loop", "video", "audio", "work"} => anext = encoded[k][2] + 1
                  /\ pc = "free" => anext = encoded[k][2] + IF Reinjected(aattr) THEN 1 ELSE 0

AudioInv == Sounding /\ Contiguous

(* Without clones, delays and failures: what was encoded is the part of    *)
(* the selection that the sources have passed.                             *)
Ids  == {encoded[k][1] : k \in DOMAIN encoded}
Past == {i \in Selected : i < vnext \/ (pc = "free" /\ i = vnext)}

(* The ranges before lie behind, and skip counts down to the next frame to *)
(* encode.                                                                 *)
Behind == \A k \in DOMAIN job.ranges : k < range => job.ranges[k][2] < vnext

Countdown(i) ==
    IF i < frame_first THEN skip = 0 ELSE (i - frame_first + skip) % job.frame_interval = 0

Chosen ==
    /\ ~error_flag
    /\ Ids = Past
    /\ \A k, l \in DOMAIN encoded : k < l => encoded[k][1] < encoded[l][1]
    /\ pc \in {"loop", "video", "audio", "work"} /\ vnext <= Streams => Behind /\ Countdown(vnext)
    /\ pc = "free" /\ vnext <= Streams => Behind /\ Countdown(vnext + 1)
    /\ pc = "free_last" => vnext >= Streams \/ vnext = frame_last
    /\ pc \in {"next", "done"} => vnext > Streams \/ vnext = frame_last + 1
    /\ pc = "done" => range = Len(job.ranges)

SelectInv == job.events = {} /\ RangesApart => Chosen

IInv == LoopInv /\ InStep /\ Reading /\ AudioInv /\ SelectInv

-----------------------------------------------------------------------------
(* The types and the pair.                                                 *)

LEMMA InitLoop == Init => LoopInv
  <1> SUFFICES ASSUME Init PROVE LoopInv
    OBVIOUS
  <1>1. Job
    BY DEF Init, Job
  <1>2. Len(job.ranges) \in Nat \ {0}
    BY <1>1 DEF Job
  <1>3. Types
    BY <1>1, <1>2 DEF Init, Types, Labels, Marks, Job
  <1> QED
    BY <1>1, <1>3 DEF Init, LoopInv, Pair, Ends, Clones, HasVideo, HasPair, Job

(* The ends of the range that is being encoded.                            *)
LEMMA RangeNat ==
    ASSUME Types, NEW k \in DOMAIN job.ranges
    PROVE  job.ranges[k][1] \in Nat /\ job.ranges[k][2] \in Nat
  <1>1. job.ranges[k] \in Nat \X Nat
    BY DEF Types, Job
  <1> QED
    BY <1>1

LEMMA RangeDomain ==
    ASSUME Types
    PROVE  DOMAIN job.ranges = 1 .. Len(job.ranges) /\ Len(job.ranges) \in Nat
  <1>1. job.ranges \in Seq(Nat \X Nat)
    BY DEF Types, Job
  <1> QED
    BY <1>1

LEMMA RangeEnds ==
    ASSUME Types
    PROVE  range \in DOMAIN job.ranges /\ frame_first \in Nat /\ frame_last \in Nat
  <1>1. range \in DOMAIN job.ranges
    BY DEF Types, Job
  <1> QED
    BY <1>1, RangeNat DEF frame_first, frame_last

(* The job never changes.                                                  *)
LEMMA SameJob ==
    ASSUME [Next]_vars
    PROVE  job' = job
  BY DEF Next, vars, loop, get_video_frame, get_audio_frame, skip_last, skip_out_of_range,
         skip_interval, tc_export_frames, free_frames, next_range, no_more_ranges, Done

LEMMA NextLoop == LoopInv /\ [Next]_vars => LoopInv'
  <1> SUFFICES ASSUME LoopInv, [Next]_vars PROVE LoopInv'
    OBVIOUS
  <1> USE DEF LoopInv, HasVideo, HasPair
  <1>1. CASE loop
    BY <1>1 DEF loop, input, Types, Job, Labels, Pair, Ends, Clones
  <1>2. CASE get_video_frame
    <2>1. vattr' \subseteq Marks /\ vattr' \subseteq vattr \union {"eos", "is_cloned"}
      BY <1>2 DEF get_video_frame, Types, Marks
    <2>2. Types'
      BY <1>2, <2>1 DEF get_video_frame, Types, Job, Labels
    <2>3. "eos" \in vattr' <=> vnext = job.video
      BY <1>2 DEF get_video_frame, Ends, Types, Job
    <2>4. "clone" \notin job.events => {"is_cloned", "was_cloned"} \intersect vattr' = {}
      BY <1>2 DEF get_video_frame, Clones
    <2> QED
      BY <1>2, <2>2, <2>3, <2>4 DEF get_video_frame, Pair, Ends, Clones
  <1>3. CASE get_audio_frame
    <2>1. Types'
      BY <1>3 DEF get_audio_frame, Types, Job, Labels, Marks
    <2>2. Pair'
      BY <1>3 DEF get_audio_frame, Pair
    <2> QED
      BY <1>3, <2>1, <2>2 DEF get_audio_frame, Ends, Clones
  <1>4. CASE skip_last
    BY <1>4 DEF skip_last, Types, Job, Labels, Pair, Ends, Clones
  <1>5. CASE skip_out_of_range
    BY <1>5 DEF skip_out_of_range, is_last_frame, EndOfStream, input,
                Types, Job, Labels, Pair, Ends, Clones
  <1>6. CASE skip_interval
    <2>1. skip' \in 0 .. job.frame_interval - 1
      <3>1. skip \in 0 .. job.frame_interval - 1 /\ job.frame_interval \in Nat
        BY DEF Types, Job
      <3> QED
        BY <1>6, <3>1 DEF skip_interval
    <2>2. Types'
      BY <1>6, <2>1 DEF skip_interval, input, Types, Job, Labels
    <2> QED
      BY <1>6, <2>2 DEF skip_interval, is_last_frame, EndOfStream, input, Pair, Ends, Clones
  <1>7. CASE tc_export_frames
    <2>1. PICK delayed \in {FALSE, "delay" \in job.events} : tc_encoder_process(delayed)
      BY <1>7 DEF tc_export_frames
    <2>2. video \in Int /\ audio \in Int /\ NoFrame \in Int
      BY <1>7 DEF tc_export_frames, Types, Pair, NoFrame
    <2>3. encoded' \in Seq(Int \X Int)
      BY <2>1, <2>2 DEF tc_encoder_process, Types
    <2>4. skip' \in 0 .. job.frame_interval - 1
      <3>1. job.frame_interval \in Nat \ {0}
        BY DEF Types, Job
      <3> QED
        BY <1>7, <3>1 DEF tc_export_frames, SkipAfter
    <2>5. vattr' = {} /\ aattr' \subseteq Marks /\ "eos" \notin aattr'
          /\ ("delay" \notin job.events => aattr' = {})
      BY <2>1 DEF tc_encoder_process, Marks
    <2>6. Types'
      BY <1>7, <2>3, <2>4, <2>5 DEF tc_export_frames, Types, Job, Labels
    <2> QED
      BY <1>7, <2>5, <2>6 DEF tc_export_frames, Pair, Ends, Clones
  <1>8. CASE free_frames
    <2>1. vattr' \subseteq {"was_cloned"} /\ aattr' \subseteq {"was_cloned"}
      BY <1>8 DEF free_frames
    <2>2. Types'
      BY <1>8, <2>1 DEF free_frames, Types, Job, Labels, Marks
    <2>3. Clones'
      BY <1>8, <2>1 DEF free_frames, Clones, Reinjected, Types
    <2> QED
      BY <1>8, <2>1, <2>2, <2>3 DEF free_frames, Pair, Ends
  <1>9. CASE next_range
    <2>1. Len(job.ranges) \in Nat /\ job.frame_interval \in Nat \ {0}
      BY DEF Types, Job
    <2>2. range' \in 1 .. Len(job.ranges) /\ skip' \in 0 .. job.frame_interval - 1
      BY <1>9, <2>1 DEF next_range, Types
    <2> QED
      BY <1>9, <2>2 DEF next_range, input, Types, Job, Labels, Pair, Ends, Clones
  <1>10. CASE no_more_ranges
    BY <1>10 DEF no_more_ranges, input, Types, Job, Labels, Pair, Ends, Clones
  <1>11. CASE UNCHANGED vars
    BY <1>11 DEF vars, Types, Job, Pair, Ends, Clones
  <1> QED
    BY <1>1, <1>2, <1>3, <1>4, <1>5, <1>6, <1>7, <1>8, <1>9, <1>10, <1>11 DEF Next, Done

-----------------------------------------------------------------------------
(* The streams stay in step.                                               *)

(* What is encoded grows by one pair at its end.                           *)
LEMMA OneMore ==
    ASSUME NEW T, NEW s \in Seq(T), NEW p \in T
    PROVE  /\ DOMAIN Append(s, p) = DOMAIN s \union {Len(s) + 1}
           /\ \A k \in DOMAIN s : Append(s, p)[k] = s[k] /\ k < Len(s) + 1 /\ k \in Nat
           /\ Append(s, p)[Len(s) + 1] = p
           /\ Len(s) + 1 \notin DOMAIN s
  <1>1. DOMAIN s = 1 .. Len(s) /\ Len(s) \in Nat
    OBVIOUS
  <1>2. /\ DOMAIN Append(s, p) = 1 .. Len(s) + 1
        /\ \A k \in 1 .. Len(s) : Append(s, p)[k] = s[k]
        /\ Append(s, p)[Len(s) + 1] = p
    OBVIOUS
  <1> QED
    BY <1>1, <1>2

(* The pair that tc_export_frames encodes.                                 *)
LEMMA PairEncoded ==
    ASSUME LoopInv, tc_export_frames
    PROVE  \E delayed \in {FALSE, "delay" \in job.events} :
              /\ encoded' = Append(encoded, <<vnext, IF delayed THEN NoFrame ELSE anext>>)
              /\ <<vnext, IF delayed THEN NoFrame ELSE anext>> \in Int \X Int
              /\ aattr' = IF delayed THEN {"is_cloned"} ELSE {}
              /\ vattr' = {}
  <1>1. PICK delayed \in {FALSE, "delay" \in job.events} : tc_encoder_process(delayed)
    BY DEF tc_export_frames
  <1>2. video = vnext /\ audio = anext
    BY DEF tc_export_frames, LoopInv, Pair, HasPair, HasVideo
  <1>3. vnext \in Int /\ anext \in Int /\ NoFrame \in Int
    BY DEF LoopInv, Types, NoFrame
  <1> QED
    BY <1>1, <1>2, <1>3 DEF tc_encoder_process

(* The other steps leave what was encoded and the positions alone.         *)
LEMMA OnlyTwo ==
    ASSUME [Next]_vars, ~tc_export_frames, ~free_frames
    PROVE  UNCHANGED <<job, vnext, anext, encoded>>
  BY DEF Next, vars, loop, get_video_frame, get_audio_frame, skip_last, skip_out_of_range,
         skip_interval, next_range, no_more_ranges, Done

LEMMA NextInStep == LoopInv /\ InStep /\ [Next]_vars => InStep'
  <1> SUFFICES ASSUME LoopInv, InStep, [Next]_vars PROVE InStep'
    OBVIOUS
  <1>0. job' = job
    BY SameJob
  <1> SUFFICES ASSUME job.events \intersect {"delay", "clone"} = {}
               PROVE  /\ \A k \in DOMAIN encoded' : encoded'[k][1] = encoded'[k][2]
                      /\ vnext' = anext'
    BY <1>0 DEF InStep
  <1>1. CASE tc_export_frames
    <2>1. /\ encoded' = Append(encoded, <<vnext, anext>>)
          /\ <<vnext, anext>> \in Int \X Int /\ encoded \in Seq(Int \X Int)
      BY <1>1, PairEncoded DEF LoopInv, Types
    <2>2. vnext' = vnext /\ anext' = anext
      BY <1>1 DEF tc_export_frames
    <2> QED
      BY <2>1, <2>2, OneMore DEF InStep
  <1>2. CASE free_frames
    <2>1. ~Reinjected(vattr) /\ ~Reinjected(aattr)
      BY DEF LoopInv, Clones, Reinjected
    <2> QED
      BY <1>2, <2>1 DEF free_frames, InStep
  <1>3. CASE ~tc_export_frames /\ ~free_frames
    BY <1>3, OnlyTwo DEF InStep
  <1> QED
    BY <1>1, <1>2, <1>3

-----------------------------------------------------------------------------
(* How far a loop reads.                                                   *)

LEMMA InitReading == Init => Reading
  <1> SUFFICES ASSUME Init PROVE Reading
    OBVIOUS
  <1>1. Types
    BY InitLoop DEF LoopInv
  <1>2. frame_last \in Nat
    BY <1>1, RangeEnds
  <1> QED
    BY <1>2 DEF Init, Reading

LEMMA NextReading == LoopInv /\ Reading /\ [Next]_vars => Reading'
  <1> SUFFICES ASSUME LoopInv, Reading, [Next]_vars PROVE Reading'
    OBVIOUS
  <1>0. job' = job
    BY SameJob
  <1> SUFFICES ASSUME "clone" \notin job.events, RangesAscend
               PROVE  /\ pc' \in {"loop", "video", "audio", "work", "free_last"} => vnext' <= frame_last'
                      /\ pc' = "free" => vnext' < frame_last'
                      /\ pc' = "next" => vnext' <= frame_last' + 1
    BY <1>0 DEF Reading, RangesAscend
  <1>1. /\ pc \in {"loop", "video", "audio", "work", "free_last"} => vnext <= frame_last
        /\ pc = "free" => vnext < frame_last
        /\ pc = "next" => vnext <= frame_last + 1
    BY DEF Reading
  <1>2. vnext \in Nat /\ frame_last \in Nat
    BY RangeEnds DEF LoopInv, Types
  <1>3. CASE free_frames
    <2>1. vnext' = vnext + 1 /\ frame_last' = frame_last
      BY <1>3 DEF free_frames, LoopInv, Clones, Reinjected, frame_last
    <2> QED
      BY <1>1, <1>2, <1>3, <2>1 DEF free_frames
  <1>4. CASE next_range
    <2>1. /\ range \in 1 .. Len(job.ranges) - 1 /\ range' = range + 1
          /\ range \in DOMAIN job.ranges /\ range + 1 \in DOMAIN job.ranges
      <3>1. Len(job.ranges) \in Nat /\ DOMAIN job.ranges = 1 .. Len(job.ranges)
        BY DEF LoopInv, Types, Job
      <3> QED
        BY <1>4, <3>1 DEF next_range, LoopInv, Types
    <2>2. job.ranges[range][2] < job.ranges[range + 1][2]
      BY <2>1 DEF RangesAscend
    <2>3. job.ranges[range + 1][2] \in Nat
      BY <2>1, RangeNat DEF LoopInv
    <2> QED
      BY <1>1, <1>2, <1>4, <2>1, <2>2, <2>3 DEF next_range, frame_last
  <1>5. ASSUME pc = "work"
        PROVE  frame_id = vnext
    BY <1>2, <1>5 DEF LoopInv, Pair, HasPair, Clones
  <1>6. CASE pc = "work"
    <2>1. frame_id = vnext /\ vnext <= frame_last
      BY <1>1, <1>5, <1>6
    <2>2. CASE skip_last
      BY <1>1, <1>6, <2>2 DEF skip_last, frame_last
    <2>3. CASE skip_out_of_range \/ skip_interval \/ tc_export_frames
      <3>1. frame_id # frame_last /\ pc' = "free" /\ UNCHANGED <<job, range, vnext>>
        BY <2>3 DEF skip_out_of_range, skip_interval, tc_export_frames, is_last_frame
      <3> QED
        BY <1>2, <2>1, <3>1 DEF frame_last
    <2>4. CASE UNCHANGED vars
      BY <1>1, <2>4 DEF vars, frame_last
    <2> QED
      BY <1>6, <2>2, <2>3, <2>4 DEF Next, loop, get_video_frame, get_audio_frame, free_frames,
                                    next_range, no_more_ranges, Done
  <1>7. CASE loop \/ get_video_frame \/ get_audio_frame \/ no_more_ranges \/ Done \/ UNCHANGED vars
    <2>1. /\ UNCHANGED <<job, range, vnext>>
          /\ \/ pc \in {"loop", "video", "audio"} /\ pc' \in {"next", "video", "audio", "work"}
             \/ pc' = "done" \/ pc' = pc
      BY <1>7 DEF loop, get_video_frame, get_audio_frame, no_more_ranges, Done, vars
    <2> QED
      BY <1>1, <1>2, <2>1 DEF frame_last
  <1> QED
    BY <1>3, <1>4, <1>6, <1>7 DEF Next, skip_last, skip_out_of_range, skip_interval, tc_export_frames

(* With the ranges in ascending order a loop does not read beyond its      *)
(* range.                                                                  *)
LEMMA ReadingRespects == LoopInv /\ Reading => RangeRespected
  <1> SUFFICES ASSUME LoopInv, Reading, pc \in {"work", "free", "free_last"},
                      "clone" \notin job.events, RangesAscend
               PROVE  frame_id <= frame_last
    BY DEF RangeRespected
  <1>1. vnext \in Nat /\ frame_last \in Nat
    BY RangeEnds DEF LoopInv, Types
  <1>2. frame_id = vnext
    BY <1>1 DEF LoopInv, Pair, HasPair, Clones
  <1> QED
    BY <1>1, <1>2 DEF Reading

-----------------------------------------------------------------------------
(* The audio frames that were encoded.                                     *)

LEMMA InitAudio == Init => AudioInv
  BY DEF Init, AudioInv, Sounding, Contiguous, AudioContiguous, LastSound

(* A new pair is the last of what was encoded, and its audio frame, if it  *)
(* has one, is the next of its source.                                     *)
LEMMA NewSound ==
    ASSUME LoopInv, tc_export_frames
    PROVE  /\ DOMAIN encoded' = DOMAIN encoded \union {Len(encoded) + 1}
           /\ Len(encoded) + 1 \notin DOMAIN encoded /\ Len(encoded) \in Nat
           /\ \A k \in DOMAIN encoded : encoded'[k] = encoded[k] /\ k < Len(encoded) + 1 /\ k \in Nat
           /\ UNCHANGED <<job, range, vnext, anext>> /\ pc = "work" /\ pc' = "free"
           /\ \/ encoded'[Len(encoded) + 1][2] = anext /\ anext # NoFrame /\ aattr' = {}
              \/ encoded'[Len(encoded) + 1][2] = NoFrame /\ Reinjected(aattr')
  <1>1. PICK delayed \in {FALSE, "delay" \in job.events} :
            /\ encoded' = Append(encoded, <<vnext, IF delayed THEN NoFrame ELSE anext>>)
            /\ <<vnext, IF delayed THEN NoFrame ELSE anext>> \in Int \X Int
            /\ aattr' = IF delayed THEN {"is_cloned"} ELSE {}
    BY PairEncoded
  <1>2. encoded \in Seq(Int \X Int) /\ anext \in Nat /\ Len(encoded) \in Nat
    BY DEF LoopInv, Types
  <1>3. encoded'[Len(encoded) + 1] = <<vnext, IF delayed THEN NoFrame ELSE anext>>
    BY <1>1, <1>2, OneMore
  <1>4. anext # NoFrame
    BY <1>2 DEF NoFrame
  <1>5. UNCHANGED <<job, range, vnext, anext>> /\ pc = "work" /\ pc' = "free"
    BY DEF tc_export_frames
  <1>6. \/ encoded'[Len(encoded) + 1][2] = anext /\ anext # NoFrame /\ aattr' = {}
        \/ encoded'[Len(encoded) + 1][2] = NoFrame /\ Reinjected(aattr')
    <2>1. CASE delayed
      BY <1>1, <1>3, <2>1 DEF Reinjected
    <2>2. CASE ~delayed
      BY <1>1, <1>3, <1>4, <2>2
    <2> QED
      BY <2>1, <2>2
  <1>7. /\ DOMAIN encoded' = DOMAIN encoded \union {Len(encoded) + 1}
        /\ Len(encoded) + 1 \notin DOMAIN encoded
        /\ \A k \in DOMAIN encoded : encoded'[k] = encoded[k] /\ k < Len(encoded) + 1 /\ k \in Nat
    BY <1>1, <1>2, OneMore
  <1> QED
    BY <1>2, <1>5, <1>6, <1>7

(* The encoded pairs are pairs of integers.                                *)
LEMMA PairInt ==
    ASSUME LoopInv, NEW k \in DOMAIN encoded
    PROVE  encoded[k][1] \in Int /\ encoded[k][2] \in Int /\ k \in Nat
  <1>1. encoded \in Seq(Int \X Int)
    BY DEF LoopInv, Types
  <1>2. encoded[k] \in Int \X Int /\ k \in Nat
    BY <1>1
  <1> QED
    BY <1>2

(* Every step but the encoding of a pair leaves what was encoded alone.    *)
LEMMA OnlyExport ==
    ASSUME [Next]_vars, ~tc_export_frames
    PROVE  UNCHANGED <<job, encoded>>
  BY DEF Next, vars, loop, get_video_frame, get_audio_frame, skip_last, skip_out_of_range,
         skip_interval, free_frames, next_range, no_more_ranges, Done

(* The audio source moves on when an audio frame is given back, and an     *)
(* encoded one is given back at pc = "free".                               *)
LEMMA AudioStep ==
    ASSUME LoopInv, [Next]_vars, ~tc_export_frames
    PROVE  \/ /\ free_frames /\ pc' \in {"loop", "next"} /\ pc \in {"free", "free_last"}
              /\ anext' = IF Reinjected(aattr) THEN anext ELSE anext + 1
           \/ /\ pc \notin {"free", "free_last"} \/ UNCHANGED <<pc, aattr>>
              /\ UNCHANGED anext
  BY DEF Next, vars, loop, get_video_frame, get_audio_frame, skip_last, skip_out_of_range,
         skip_interval, free_frames, next_range, no_more_ranges, Done

LEMMA NextSoundsBefore ==
    ASSUME LoopInv, Sounding, [Next]_vars
    PROVE  (\A k \in DOMAIN encoded :
              Sounds(k) => /\ encoded[k][2] <= anext
                           /\ pc # "free" \/ Reinjected(aattr) => encoded[k][2] < anext)'
  <1>1. anext \in Nat
    BY DEF LoopInv, Types
  <1>2. CASE tc_export_frames
    <2> SUFFICES ASSUME NEW k \in DOMAIN encoded', encoded'[k][2] # NoFrame
                 PROVE  /\ encoded'[k][2] <= anext'
                        /\ Reinjected(aattr') => encoded'[k][2] < anext'
      BY <1>2, NewSound DEF Sounds
    <2>1. CASE k \in DOMAIN encoded
      BY <1>2, <2>1, NewSound DEF Sounding, Sounds
    <2>2. CASE k = Len(encoded) + 1
      BY <1>1, <1>2, <2>2, NewSound DEF Reinjected
    <2> QED
      BY <1>2, <2>1, <2>2, NewSound
  <1>3. CASE ~tc_export_frames
    <2> SUFFICES ASSUME NEW k \in DOMAIN encoded', encoded'[k][2] # NoFrame
                 PROVE  /\ encoded'[k][2] <= anext'
                        /\ pc' # "free" \/ Reinjected(aattr') => encoded'[k][2] < anext'
      BY DEF Sounds
    <2>1. encoded' = encoded
      BY <1>3, OnlyExport
    <2>2. encoded[k][2] \in Int
      BY <2>1, PairInt
    <2>3. encoded[k][2] <= anext /\ (pc # "free" \/ Reinjected(aattr) => encoded[k][2] < anext)
      BY <2>1 DEF Sounding, Sounds
    <2>4. CASE pc \notin {"free", "free_last"} /\ UNCHANGED anext
      BY <2>1, <2>3, <2>4
    <2>5. CASE UNCHANGED <<pc, aattr, anext>>
      BY <2>1, <2>3, <2>5
    <2>6. CASE anext' = (IF Reinjected(aattr) THEN anext ELSE anext + 1)
      BY <1>1, <2>1, <2>2, <2>3, <2>6
    <2> QED
      BY <1>3, <2>4, <2>5, <2>6, AudioStep
  <1> QED
    BY <1>2, <1>3

LEMMA NextContiguous ==
    ASSUME LoopInv, Reading, Contiguous, [Next]_vars
    PROVE  Contiguous'
  <1>0. job' = job
    BY SameJob
  <1> SUFFICES ASSUME EveryFrame
               PROVE  /\ encoded' # <<>> => frame_first' <= vnext'
                      /\ (\A k \in DOMAIN encoded :
                            LastSound(k) =>
                              /\ pc \in {"loop", "video", "audio", "work"} => anext = encoded[k][2] + 1
                              /\ pc = "free" => anext = encoded[k][2] + IF Reinjected(aattr) THEN 1 ELSE 0)'
    BY <1>0 DEF Contiguous, EveryFrame
  <1>1. /\ Len(job.ranges) = 1 /\ job.frame_interval = 1 /\ "clone" \notin job.events
        /\ encoded # <<>> => frame_first <= vnext
        /\ \A k \in DOMAIN encoded :
              LastSound(k) =>
                  /\ pc \in {"loop", "video", "audio", "work"} => anext = encoded[k][2] + 1
                  /\ pc = "free" => anext = encoded[k][2] + IF Reinjected(aattr) THEN 1 ELSE 0
    BY DEF Contiguous, EveryFrame
  <1>2. range = 1 /\ range' = range /\ frame_first' = frame_first
    <2>1. LoopInv'
      BY NextLoop
    <2> QED
      BY <1>0, <1>1, <2>1 DEF LoopInv, Types, frame_first
  <1>3. /\ vnext \in Nat /\ anext \in Nat /\ frame_first \in Nat /\ frame_last \in Nat
        /\ encoded \in Seq(Int \X Int) /\ skip = 0
    BY <1>1, RangeEnds DEF LoopInv, Types
  <1>4. RangesAscend
    BY <1>1 DEF RangesAscend
  <1>5. pc = "work" => frame_id = vnext /\ vnext <= frame_last
    BY <1>1, <1>3, <1>4 DEF Reading, LoopInv, Pair, HasPair, Clones
  <1>6. CASE tc_export_frames
    <2>1. frame_first <= vnext' /\ UNCHANGED <<vnext, anext>> /\ pc = "work" /\ pc' = "free"
      BY <1>3, <1>5, <1>6 DEF tc_export_frames, is_in_range
    <2> SUFFICES ASSUME NEW k \in DOMAIN encoded', LastSound(k)'
                 PROVE  anext' = encoded'[k][2] + IF Reinjected(aattr') THEN 1 ELSE 0
      BY <1>2, <2>1
    <2>2. CASE k \in DOMAIN encoded
      <3>1. LastSound(k)
        BY <1>6, <2>2, NewSound DEF LastSound, Sounds
      <3>2. anext = encoded[k][2] + 1 /\ encoded[k][2] \in Int
        BY <1>1, <2>1, <2>2, <3>1, PairInt
      <3>3. encoded'[Len(encoded) + 1][2] = NoFrame
        BY <1>6, <2>2, NewSound DEF LastSound, Sounds
      <3> QED
        BY <1>3, <1>6, <2>1, <2>2, <3>2, <3>3, NewSound
    <2>3. CASE k = Len(encoded) + 1
      <3>1. encoded'[k][2] # NoFrame
        BY DEF LastSound, Sounds
      <3>2. encoded'[k][2] = anext /\ aattr' = {}
        BY <1>6, <2>3, <3>1, NewSound
      <3> QED
        BY <1>3, <2>1, <3>2 DEF Reinjected
    <2> QED
      BY <1>6, <2>2, <2>3, NewSound
  <1>7. CASE free_frames
    <2>1. /\ encoded' = encoded /\ (vnext' = vnext \/ vnext' = vnext + 1)
          /\ anext' = (IF Reinjected(aattr) THEN anext ELSE anext + 1)
          /\ pc \in {"free", "free_last"} /\ pc' = (IF pc = "free" THEN "loop" ELSE "next")
      BY <1>7 DEF free_frames
    <2>2. encoded' # <<>> => frame_first' <= vnext'
      BY <1>1, <1>2, <1>3, <2>1
    <2> SUFFICES ASSUME NEW k \in DOMAIN encoded', LastSound(k)', pc = "free"
                 PROVE  anext' = encoded'[k][2] + 1
      BY <2>1, <2>2
    <2>3. LastSound(k)
      BY <2>1 DEF LastSound, Sounds
    <2>4. anext = encoded[k][2] + (IF Reinjected(aattr) THEN 1 ELSE 0) /\ encoded[k][2] \in Int
      BY <1>1, <2>1, <2>3, PairInt
    <2> QED
      BY <1>3, <2>1, <2>4
  <1>8. CASE skip_out_of_range \/ skip_interval
    <2>1. /\ skip_out_of_range /\ vnext < frame_first
          /\ UNCHANGED <<encoded, vnext>>
      BY <1>3, <1>5, <1>8 DEF skip_out_of_range, skip_interval, is_last_frame, is_in_range
    <2>2. encoded' = <<>>
      BY <1>1, <1>3, <2>1
    <2> QED
      BY <2>2 DEF LastSound
  <1>9. CASE /\ UNCHANGED <<encoded, vnext, anext>>
             /\ \/ UNCHANGED <<pc, aattr>>
                \/ /\ pc \in {"loop", "video", "audio", "work"}
                   /\ pc' \in {"video", "audio", "work", "next", "free_last"}
                \/ pc' = "done"
    <2>1. \A k \in DOMAIN encoded' : LastSound(k)' => LastSound(k)
      BY <1>9 DEF LastSound, Sounds
    <2> QED
      BY <1>1, <1>2, <1>9, <2>1
  <1>10. CASE UNCHANGED vars
    BY <1>9, <1>10 DEF vars
  <1>11. ~next_range
    BY <1>0, <1>1, <1>2 DEF next_range
  <1>12. loop \/ get_video_frame \/ get_audio_frame \/ skip_last \/ no_more_ranges \/ Done =>
            /\ UNCHANGED <<encoded, vnext, anext>>
            /\ \/ UNCHANGED <<pc, aattr>>
               \/ /\ pc \in {"loop", "video", "audio", "work"}
                  /\ pc' \in {"video", "audio", "work", "next", "free_last"}
               \/ pc' = "done"
    BY DEF loop, get_video_frame, get_audio_frame, skip_last, no_more_ranges, Done, vars
  <1> QED
    BY <1>6, <1>7, <1>8, <1>9, <1>10, <1>11, <1>12 DEF Next

LEMMA NextSounding ==
    ASSUME LoopInv, AudioInv, [Next]_vars
    PROVE  AudioContiguous'
  <1>1. CASE ~tc_export_frames
    <2>1. UNCHANGED <<job, encoded>>
      BY <1>1, OnlyExport
    <2> QED
      BY <2>1 DEF AudioInv, Sounding, AudioContiguous, Sounds, EveryFrame
  <1>2. CASE tc_export_frames
    <2> DEFINE last == Len(encoded) + 1
    <2>1. /\ DOMAIN encoded' = DOMAIN encoded \union {last} /\ last \notin DOMAIN encoded
          /\ \A k \in DOMAIN encoded : encoded'[k] = encoded[k] /\ k < last /\ k \in Nat
          /\ last \in Nat /\ anext \in Nat /\ job' = job /\ pc = "work"
          /\ encoded'[last][2] \in {anext, NoFrame}
      BY <1>2, NewSound DEF LoopInv, Types
    <2> HIDE DEF last
    <2> SUFFICES ASSUME NEW k \in DOMAIN encoded', NEW l \in DOMAIN encoded', k < l,
                        encoded'[k][2] # NoFrame, encoded'[l][2] # NoFrame
                 PROVE  /\ encoded'[k][2] < encoded'[l][2]
                        /\ EveryFrame /\ (\A n \in k + 1 .. l - 1 : encoded'[n][2] = NoFrame)
                           => encoded'[l][2] = encoded'[k][2] + 1
      BY <2>1 DEF AudioContiguous, Sounds, EveryFrame
    <2>2. k \in DOMAIN encoded /\ k \in Nat
      BY <2>1
    <2>3. CASE l \in DOMAIN encoded
      <3>1. /\ encoded'[k] = encoded[k] /\ encoded'[l] = encoded[l] /\ l \in Nat /\ l < last
            /\ Sounds(k) /\ Sounds(l)
        BY <2>1, <2>2, <2>3 DEF Sounds
      <3>2. \A n \in k + 1 .. l - 1 : n \in DOMAIN encoded
        <4>1. encoded \in Seq(Int \X Int)
          BY DEF LoopInv, Types
        <4> QED
          BY <2>2, <2>3, <4>1
      <3>3. (\A n \in k + 1 .. l - 1 : encoded'[n][2] = NoFrame) => \A n \in k + 1 .. l - 1 : ~Sounds(n)
        BY <2>1, <3>2 DEF Sounds
      <3> QED
        BY <2>2, <2>3, <3>1, <3>3 DEF AudioInv, Sounding, AudioContiguous
    <2>4. CASE l = last
      <3>1. encoded'[l][2] = anext /\ encoded'[k] = encoded[k] /\ Sounds(k) /\ encoded[k][2] \in Int
        BY <2>1, <2>2, <2>4, PairInt DEF Sounds
      <3>2. encoded[k][2] < anext
        BY <2>1, <2>2, <3>1 DEF AudioInv, Sounding
      <3>3. ASSUME EveryFrame, \A n \in k + 1 .. l - 1 : encoded'[n][2] = NoFrame
            PROVE  anext = encoded[k][2] + 1
        <4>1. LastSound(k)
          <5> SUFFICES ASSUME NEW n \in DOMAIN encoded, encoded[n][2] # NoFrame, n > k
                       PROVE  FALSE
            BY <2>1, <2>2, <3>1 DEF LastSound, Sounds
          <5>1. n \in k + 1 .. l - 1 /\ encoded'[n] = encoded[n]
            BY <2>1, <2>2, <2>4
          <5> QED
            BY <3>3, <5>1
        <4> QED
          BY <2>1, <2>2, <3>3, <4>1 DEF AudioInv, Contiguous
      <3> QED
        BY <3>1, <3>2, <3>3
    <2> QED
      BY <2>1, <2>3, <2>4
  <1> QED
    BY <1>1, <1>2

LEMMA NextAudio == LoopInv /\ Reading /\ AudioInv /\ [Next]_vars => AudioInv'
  <1> SUFFICES ASSUME LoopInv, Reading, AudioInv, [Next]_vars PROVE AudioInv'
    OBVIOUS
  <1>1. AudioContiguous'
    BY NextSounding
  <1>2. (\A k \in DOMAIN encoded :
              Sounds(k) => /\ encoded[k][2] <= anext
                           /\ pc # "free" \/ Reinjected(aattr) => encoded[k][2] < anext)'
    BY NextSoundsBefore DEF AudioInv
  <1>3. Contiguous'
    BY NextContiguous DEF AudioInv
  <1> QED
    BY <1>1, <1>2, <1>3 DEF AudioInv, Sounding

-----------------------------------------------------------------------------
(* The selection.  First the arithmetic of "every N-th frame".             *)

LEMMA DivMod ==
    ASSUME NEW n \in Nat \ {0}, NEW a \in Nat
    PROVE  a = n * (a \div n) + (a % n) /\ a % n \in 0 .. n - 1 /\ a \div n \in Int
  OBVIOUS

LEMMA MulGrows == ASSUME NEW n \in Nat \ {0}, NEW d \in Nat \ {0} PROVE n * d >= n
  OBVIOUS

LEMMA SameQuotient ==
    ASSUME NEW n \in Nat \ {0}, NEW q \in Int, NEW p \in Int,
           NEW r \in 0 .. n - 1, NEW s \in 0 .. n - 1, n * q + r = n * p + s
    PROVE  q = p
  <1>1. ASSUME q > p PROVE FALSE
    <2>1. n * (q - p) >= n
      BY <1>1, MulGrows
    <2>2. n * (q - p) = n * q - n * p
      OBVIOUS
    <2> QED
      BY <2>1, <2>2
  <1>2. ASSUME p > q PROVE FALSE
    <2>1. n * (p - q) >= n
      BY <1>2, MulGrows
    <2>2. n * (p - q) = n * p - n * q
      OBVIOUS
    <2> QED
      BY <2>1, <2>2
  <1> QED
    BY <1>1, <1>2

LEMMA ModIs ==
    ASSUME NEW n \in Nat \ {0}, NEW a \in Nat, NEW q \in Int, NEW r \in 0 .. n - 1, a = n * q + r
    PROVE  a % n = r
  <1>1. a = n * (a \div n) + (a % n) /\ a % n \in 0 .. n - 1 /\ a \div n \in Int
    BY DivMod
  <1>2. q = a \div n
    BY <1>1, SameQuotient
  <1>3. n * q \in Int
    OBVIOUS
  <1> QED
    BY <1>1, <1>2, <1>3

LEMMA ModNext ==
    ASSUME NEW n \in Nat \ {0}, NEW a \in Nat
    PROVE  (a + n) % n = (a % n)
  <1>1. PICK q \in Int, r \in 0 .. n - 1 : a = n * q + r /\ a % n = r
    BY DivMod
  <1>2. n * (q + 1) = n * q + n /\ n * q \in Int
    OBVIOUS
  <1>3. a + n = n * (q + 1) + r /\ q + 1 \in Int /\ a + n \in Nat
    BY <1>1, <1>2
  <1>4. (a + n) % n = r
    BY <1>3, ModIs
  <1> QED
    BY <1>1, <1>4

LEMMA ModPast ==
    ASSUME NEW n \in Nat \ {0}, NEW a \in Nat, NEW s \in 1 .. n - 1, a % n = 0
    PROVE  (a + s) % n # 0
  <1>1. PICK q \in Int, r \in 0 .. n - 1 : a = n * q + r /\ a % n = r
    BY DivMod
  <1>2. n * q \in Int /\ a + s \in Nat /\ s \in 0 .. n - 1
    OBVIOUS
  <1>3. a + s = n * q + s
    BY <1>1, <1>2
  <1>4. (a + s) % n = s
    BY <1>2, <1>3, ModIs
  <1> QED
    BY <1>4

LEMMA SmallMod == ASSUME NEW n \in Nat \ {0}, NEW s \in 0 .. n - 1 PROVE s % n = 0 <=> s = 0
  OBVIOUS

(* What the loop knows without clones, delays and failures.                *)
LEMMA Plain ==
    ASSUME LoopInv, InStep, Reading, job.events = {}, RangesApart
    PROVE  /\ vnext = anext /\ ~Reinjected(vattr) /\ ~Reinjected(aattr)
           /\ vnext \in Nat /\ Streams \in Nat /\ skip \in 0 .. job.frame_interval - 1
           /\ job.frame_interval \in Nat \ {0}
           /\ frame_first \in Nat /\ frame_last \in Nat /\ frame_first <= frame_last
           /\ pc \in {"work", "free_last"} => vnext <= frame_last
           /\ pc = "work" => /\ frame_id = vnext /\ vnext <= Streams
                             /\ EndOfStream <=> vnext = Streams
  <1>1. RangesAscend
    <2> SUFFICES ASSUME NEW k \in 1 .. Len(job.ranges) - 1
                 PROVE  job.ranges[k][2] < job.ranges[k + 1][2]
      BY DEF RangesAscend
    <2>1. k \in DOMAIN job.ranges /\ k + 1 \in DOMAIN job.ranges /\ k < k + 1
      <3>1. DOMAIN job.ranges = 1 .. Len(job.ranges) /\ Len(job.ranges) \in Nat
        BY RangeDomain DEF LoopInv
      <3> QED
        BY <3>1
    <2>2. /\ job.ranges[k][2] < job.ranges[k + 1][1] /\ job.ranges[k + 1][1] <= job.ranges[k + 1][2]
          /\ job.ranges[k][2] \in Nat /\ job.ranges[k + 1][1] \in Nat /\ job.ranges[k + 1][2] \in Nat
      BY <2>1, RangeNat DEF RangesApart, LoopInv
    <2> QED
      BY <2>2
  <1>2. vnext = anext
    BY DEF InStep
  <1>3. /\ vnext \in Nat /\ Streams \in Nat /\ skip \in 0 .. job.frame_interval - 1
        /\ job.frame_interval \in Nat \ {0} /\ frame_first \in Nat /\ frame_last \in Nat
        /\ range \in DOMAIN job.ranges
    BY RangeEnds DEF LoopInv, Types, Job, Streams
  <1>4. frame_first <= frame_last
    BY <1>3 DEF RangesApart, frame_first, frame_last
  <1>5. ~Reinjected(vattr) /\ ~Reinjected(aattr)
    BY DEF LoopInv, Clones, Reinjected
  <1>6. pc \in {"work", "free_last"} => vnext <= frame_last
    BY <1>1 DEF Reading
  <1>7. pc = "work" => /\ frame_id = vnext /\ vnext <= Streams
                       /\ EndOfStream <=> vnext = Streams
    <2>1. job.video \in Nat /\ job.audio \in Nat /\ frames_cloned = 0
      BY DEF LoopInv, Types, Job, Clones
    <2>2. pc = "work" => frame_id = vnext
      BY <1>2, <1>3, <2>1 DEF LoopInv, Types, Pair, HasPair, Clones
    <2>3. pc = "work" => /\ vnext <= job.video /\ ("eos" \in vattr <=> vnext = job.video)
                         /\ vnext <= job.audio /\ ("eos" \in aattr <=> vnext = job.audio)
      BY <1>2 DEF LoopInv, Ends
    <2> QED
      BY <1>3, <2>1, <2>2, <2>3 DEF EndOfStream, Streams, LoopInv, Types, Job
  <1> QED
    BY <1>2, <1>3, <1>4, <1>5, <1>6, <1>7

(* A frame the loop has reached can only be wanted by the present range.   *)
LEMMA OnlyHere ==
    ASSUME LoopInv, RangesApart, Behind, NEW k \in DOMAIN job.ranges,
           vnext <= frame_last, Wanted(k, vnext)
    PROVE  k = range /\ frame_first <= vnext /\ vnext < frame_last
  <1>1. /\ range \in DOMAIN job.ranges /\ vnext \in Nat /\ range \in Nat /\ k \in Nat
        /\ job.ranges[k][1] \in Nat /\ job.ranges[k][2] \in Nat
        /\ frame_first \in Nat /\ frame_last \in Nat
    <2>1. /\ job.ranges[k][1] \in Nat /\ job.ranges[k][2] \in Nat /\ range \in DOMAIN job.ranges
          /\ frame_first \in Nat /\ frame_last \in Nat
      BY RangeEnds, RangeNat DEF LoopInv
    <2>2. DOMAIN job.ranges = 1 .. Len(job.ranges) /\ Len(job.ranges) \in Nat /\ vnext \in Nat
      BY RangeDomain DEF LoopInv, Types
    <2> QED
      BY <2>1, <2>2
  <1>2. job.ranges[k][1] <= vnext /\ vnext < job.ranges[k][2]
    BY DEF Wanted
  <1>3. ~(k < range)
    BY <1>1, <1>2 DEF Behind
  <1>4. ~(range < k)
    BY <1>1, <1>2 DEF RangesApart, frame_last
  <1>5. k = range
    BY <1>1, <1>3, <1>4
  <1> QED
    BY <1>2, <1>5 DEF frame_first, frame_last

LEMMA InitSelect == Init => SelectInv
  <1> SUFFICES ASSUME Init, RangesApart PROVE Chosen
    BY DEF SelectInv
  <1>1. LoopInv
    BY InitLoop
  <1>2. frame_first \in Nat /\ job.frame_interval \in Nat \ {0} /\ range = 1 /\ Streams \in Nat
    BY <1>1, RangeEnds DEF Init, LoopInv, Types, Job, Streams
  <1>3. Behind
    BY <1>1 DEF Init, Behind, LoopInv, Types, Job
  <1>4. 0 % job.frame_interval = 0
    BY <1>2
  <1>5. Countdown(vnext)
    BY <1>2, <1>4 DEF Init, Countdown
  <1>6. Ids = {} /\ Past = {}
    BY <1>2 DEF Init, Ids, Past, Selected
  <1> QED
    BY <1>3, <1>5, <1>6 DEF Init, Chosen

(* What the loop encodes is wanted, and is the next of the selection.      *)
LEMMA EncodeWanted ==
    ASSUME LoopInv, InStep, Reading, job.events = {}, RangesApart, Chosen, tc_export_frames
    PROVE  vnext \in Selected /\ Countdown(vnext + 1)' /\ Behind'
  <1>1. /\ pc = "work" /\ ~EndOfStream /\ frame_first <= vnext /\ vnext < frame_last /\ skip = 0
        /\ vnext \in Nat /\ Streams \in Nat /\ frame_first \in Nat /\ job.frame_interval \in Nat \ {0}
        /\ vnext < Streams /\ Behind /\ Countdown(vnext)
        /\ skip' = job.frame_interval - 1 /\ UNCHANGED <<job, range, vnext>>
    BY Plain DEF tc_export_frames, is_last_frame, is_in_range, Chosen, SkipAfter
  <1>2. vnext - frame_first \in Nat /\ (vnext - frame_first) % job.frame_interval = 0
    BY <1>1 DEF Countdown
  <1>3. range \in DOMAIN job.ranges /\ Wanted(range, vnext)
    BY <1>1, <1>2, RangeEnds DEF Wanted, frame_first, frame_last, LoopInv
  <1>4. vnext \in Selected
    BY <1>1, <1>3 DEF Selected
  <1>5. ((vnext - frame_first) + job.frame_interval) % job.frame_interval = 0
    BY <1>1, <1>2, ModNext
  <1>6. ((vnext + 1) - frame_first) + (job.frame_interval - 1) = (vnext - frame_first) + job.frame_interval
    BY <1>1
  <1>7. Countdown(vnext + 1)'
    <2>1. ~(vnext' + 1 < frame_first') /\ job'.frame_interval = job.frame_interval
      BY <1>1 DEF frame_first
    <2>2. ((vnext' + 1) - frame_first') + skip' = (vnext - frame_first) + job.frame_interval
      BY <1>1, <1>6 DEF frame_first
    <2>3. (((vnext' + 1) - frame_first') + skip') % job'.frame_interval = 0
      BY <1>5, <2>1, <2>2
    <2> QED
      BY <2>1, <2>3 DEF Countdown
  <1> QED
    BY <1>1, <1>4, <1>7 DEF Behind

(* What it skips inside the range is not wanted.                           *)
LEMMA SkipUnwanted ==
    ASSUME LoopInv, InStep, Reading, job.events = {}, RangesApart, Chosen, skip_interval
    PROVE  vnext \notin Selected /\ Countdown(vnext + 1)' /\ Behind'
  <1>1. /\ pc = "work" /\ ~EndOfStream /\ frame_first <= vnext /\ vnext < frame_last
        /\ skip \in 1 .. job.frame_interval - 1
        /\ vnext \in Nat /\ Streams \in Nat /\ frame_first \in Nat /\ job.frame_interval \in Nat \ {0}
        /\ vnext < Streams /\ Behind /\ Countdown(vnext)
        /\ skip' = skip - 1 /\ UNCHANGED <<job, range, vnext>>
    BY Plain DEF skip_interval, is_last_frame, is_in_range, Chosen
  <1>2. vnext - frame_first \in Nat /\ (vnext - frame_first + skip) % job.frame_interval = 0
    BY <1>1 DEF Countdown
  <1>3. (vnext - frame_first) % job.frame_interval # 0
    BY <1>1, <1>2, ModPast
  <1>4. vnext \notin Selected
    <2> SUFFICES ASSUME NEW k \in DOMAIN job.ranges, Wanted(k, vnext) PROVE FALSE
      BY DEF Selected
    <2>1. k = range
      BY <1>1, OnlyHere, Plain
    <2> QED
      BY <1>3, <2>1 DEF Wanted, frame_first
  <1>5. ((vnext + 1) - frame_first) + (skip - 1) = vnext - frame_first + skip
    BY <1>1
  <1>6. Countdown(vnext + 1)'
    <2>1. skip' = skip - 1 /\ frame_first' = frame_first /\ job' = job
      BY <1>1 DEF frame_first
    <2> QED
      BY <1>1, <1>2, <1>5, <2>1 DEF Countdown
  <1> QED
    BY <1>1, <1>4, <1>6 DEF Behind

(* A frame before the range is not wanted either.                          *)
LEMMA BeforeUnwanted ==
    ASSUME LoopInv, InStep, Reading, job.events = {}, RangesApart, Chosen, skip_out_of_range
    PROVE  vnext \notin Selected /\ Countdown(vnext + 1)' /\ Behind'
  <1>1. /\ pc = "work" /\ ~EndOfStream /\ vnext < frame_first /\ vnext <= frame_last
        /\ vnext \in Nat /\ Streams \in Nat /\ frame_first \in Nat /\ job.frame_interval \in Nat \ {0}
        /\ vnext < Streams /\ Behind /\ Countdown(vnext)
        /\ UNCHANGED <<job, range, vnext, skip>>
    BY Plain DEF skip_out_of_range, is_last_frame, is_in_range, Chosen
  <1>2. skip = 0
    BY <1>1 DEF Countdown
  <1>3. vnext \notin Selected
    <2> SUFFICES ASSUME NEW k \in DOMAIN job.ranges, Wanted(k, vnext) PROVE FALSE
      BY DEF Selected
    <2> QED
      BY <1>1, OnlyHere
  <1>4. Countdown(vnext + 1)'
    <2>1. CASE vnext + 1 < frame_first
      BY <1>1, <1>2, <2>1 DEF Countdown, frame_first
    <2>2. CASE vnext + 1 = frame_first
      <3>1. ((vnext + 1) - frame_first) + skip = 0 /\ 0 % job.frame_interval = 0
        BY <1>1, <1>2, <2>2
      <3> QED
        BY <1>1, <2>2, <3>1 DEF Countdown, frame_first
    <2> QED
      BY <1>1, <2>1, <2>2
  <1> QED
    BY <1>1, <1>3, <1>4 DEF Behind

(* The frame that ends a range is not wanted.                              *)
LEMMA LastUnwanted ==
    ASSUME LoopInv, InStep, Reading, job.events = {}, RangesApart, Chosen, pc = "free_last"
    PROVE  vnext \notin Selected
  <1>1. /\ vnext \in Nat /\ Streams \in Nat /\ frame_first \in Nat /\ frame_last \in Nat
        /\ frame_first <= frame_last /\ vnext <= frame_last
    BY Plain
  <1> SUFFICES ASSUME vnext < Streams, NEW k \in DOMAIN job.ranges, Wanted(k, vnext) PROVE FALSE
    BY <1>1 DEF Selected
  <1>2. vnext = frame_last
    BY <1>1 DEF Chosen
  <1>3. Behind
    <2> SUFFICES ASSUME NEW l \in DOMAIN job.ranges, l < range PROVE job.ranges[l][2] < vnext
      BY DEF Behind
    <2>1. job.ranges[l][2] < frame_first
      BY RangeEnds DEF RangesApart, frame_first, LoopInv
    <2>2. job.ranges[l][2] \in Nat
      BY RangeNat DEF LoopInv
    <2> QED
      BY <1>1, <1>2, <2>1, <2>2
  <1> QED
    BY <1>1, <1>2, <1>3, OnlyHere

(* What is passed but not encoded leaves both sides of the selection.      *)
LEMMA PastSame ==
    ASSUME job' = job, UNCHANGED <<vnext, encoded>>, (pc' = "free") = (pc = "free")
    PROVE  Ids' = Ids /\ Past' = Past
  BY DEF Ids, Past, Selected, Streams, Wanted

LEMMA PastSkipped ==
    ASSUME job' = job, UNCHANGED <<vnext, encoded>>, pc # "free", pc' = "free", vnext \notin Selected
    PROVE  Ids' = Ids /\ Past' = Past
  BY DEF Ids, Past, Selected, Streams, Wanted

LEMMA NextChosen ==
    ASSUME LoopInv, InStep, Reading, job.events = {}, RangesApart, Chosen, [Next]_vars
    PROVE  Chosen'
  <1>0. job' = job /\ Streams' = Streams
    BY SameJob DEF Streams
  <1>1. /\ vnext \in Nat /\ Streams \in Nat /\ frame_first \in Nat /\ frame_last \in Nat
        /\ pc = "work" => /\ frame_id = vnext /\ vnext <= Streams
                          /\ EndOfStream <=> vnext = Streams
        /\ ~Reinjected(vattr)
    BY Plain
  <1>2. CASE tc_export_frames
    <2>1. vnext \in Selected /\ Countdown(vnext + 1)' /\ Behind'
      BY <1>2, EncodeWanted
    <2>2. /\ pc = "work" /\ pc' = "free" /\ UNCHANGED <<vnext, range>> /\ ~error_flag'
      BY <1>2 DEF tc_export_frames
    <2>3. /\ encoded' = Append(encoded, <<vnext, anext>>) /\ <<vnext, anext>> \in Int \X Int
          /\ encoded \in Seq(Int \X Int)
      BY <1>2, PairEncoded DEF LoopInv, Types
    <2> DEFINE last == Len(encoded) + 1
    <2>4. /\ DOMAIN encoded' = DOMAIN encoded \union {last} /\ last \notin DOMAIN encoded
          /\ \A k \in DOMAIN encoded : encoded'[k] = encoded[k] /\ k < last /\ k \in Nat
          /\ encoded'[last][1] = vnext /\ last \in Nat
      BY <2>3, OneMore
    <2> HIDE DEF last
    <2>5. \A k \in DOMAIN encoded : encoded[k][1] < vnext
      BY <2>2 DEF Chosen, Ids, Past
    <2>6. Ids' = Ids \union {vnext}
      BY <2>4 DEF Ids
    <2>7. Past' = Past \union {vnext}
      BY <1>0, <2>1, <2>2 DEF Past, Selected, Wanted
    <2>8. \A k, l \in DOMAIN encoded' : k < l => encoded'[k][1] < encoded'[l][1]
      BY <2>4, <2>5 DEF Chosen
    <2> QED
      BY <2>1, <2>2, <2>6, <2>7, <2>8 DEF Chosen
  <1>3. CASE skip_interval \/ skip_out_of_range
    <2>1. /\ pc = "work" /\ pc' = "free" /\ UNCHANGED <<vnext, range, encoded, error_flag>>
      BY <1>3 DEF skip_interval, skip_out_of_range
    <2>2. vnext \notin Selected /\ Countdown(vnext + 1)' /\ Behind'
      BY <1>3, SkipUnwanted, BeforeUnwanted
    <2>3. Ids' = Ids /\ Past' = Past
      BY <1>0, <2>1, <2>2, PastSkipped
    <2> QED
      BY <2>1, <2>2, <2>3 DEF Chosen
  <1>4. CASE skip_last
    <2>1. /\ pc = "work" /\ pc' = "free_last" /\ UNCHANGED <<vnext, range, encoded, error_flag>>
          /\ EndOfStream \/ frame_id = frame_last
      BY <1>4 DEF skip_last, is_last_frame
    <2>2. Ids' = Ids /\ Past' = Past
      BY <1>0, <2>1, PastSame
    <2>3. vnext' >= Streams' \/ vnext' = frame_last'
      BY <1>0, <1>1, <2>1 DEF frame_last
    <2> QED
      BY <2>1, <2>2, <2>3 DEF Chosen
  <1>5. CASE free_frames
    <2>1. /\ vnext' = vnext + 1 /\ UNCHANGED <<range, encoded, error_flag, skip>>
          /\ \/ pc = "free" /\ pc' = "loop"
             \/ pc = "free_last" /\ pc' = "next"
      BY <1>1, <1>5 DEF free_frames
    <2>2. Ids' = Ids
      BY <2>1 DEF Ids
    <2>3. Past' = Past
      <3>1. Selected' = Selected /\ Selected \subseteq Int
        BY <1>0 DEF Selected, Wanted
      <3>2. CASE pc = "free"
        BY <1>1, <2>1, <3>1, <3>2 DEF Past
      <3>3. CASE pc = "free_last"
        <4>1. vnext \notin Selected
          BY <3>3, LastUnwanted
        <4>2. \A i \in Selected : i < vnext + 1 <=> i < vnext
          BY <1>1, <3>1, <4>1
        <4> QED
          BY <2>1, <3>1, <3>3, <4>2 DEF Past
      <3> QED
        BY <2>1, <3>2, <3>3
    <2>4. CASE pc = "free"
      <3>1. ASSUME vnext' <= Streams' PROVE Behind' /\ Countdown(vnext)'
        <4>1. Behind /\ Countdown(vnext + 1)
          BY <1>0, <1>1, <2>1, <2>4, <3>1 DEF Chosen
        <4>2. \A k \in DOMAIN job.ranges : job.ranges[k][2] \in Nat
          BY RangeNat DEF LoopInv
        <4>3. Behind'
          BY <1>0, <1>1, <2>1, <4>1, <4>2 DEF Behind
        <4>4. Countdown(vnext)'
          BY <1>0, <2>1, <4>1 DEF Countdown, frame_first
        <4> QED
          BY <4>3, <4>4
      <3> QED
        BY <2>1, <2>2, <2>3, <2>4, <3>1 DEF Chosen
    <2>5. CASE pc = "free_last"
      <3>1. vnext' > Streams' \/ vnext' = frame_last' + 1
        BY <1>0, <1>1, <2>1, <2>5 DEF Chosen, frame_last
      <3> QED
        BY <2>1, <2>2, <2>3, <2>5, <3>1 DEF Chosen
    <2> QED
      BY <2>1, <2>4, <2>5
  <1>6. CASE next_range
    <2>1. /\ pc = "next" /\ pc' = "loop" /\ range' = range + 1 /\ ~error_flag' /\ skip' = 0
          /\ range < Len(job.ranges) /\ UNCHANGED <<vnext, encoded>>
      BY <1>6 DEF next_range
    <2>2. Ids' = Ids /\ Past' = Past
      BY <1>0, <2>1, PastSame
    <2>3. ASSUME vnext' <= Streams' PROVE Behind' /\ Countdown(vnext)'
      <3>1. vnext = frame_last + 1
        BY <1>0, <1>1, <2>1, <2>3 DEF Chosen
      <3>2. /\ range \in DOMAIN job.ranges /\ range + 1 \in DOMAIN job.ranges /\ range \in Nat
            /\ \A k \in DOMAIN job.ranges : k \in Nat
        <4>1. DOMAIN job.ranges = 1 .. Len(job.ranges) /\ Len(job.ranges) \in Nat /\ range \in 1 .. Len(job.ranges)
          BY RangeDomain DEF LoopInv, Types
        <4> QED
          BY <2>1, <4>1
      <3>3. /\ frame_last < job.ranges[range + 1][1] /\ job.ranges[range + 1][1] \in Nat
            /\ frame_first' = job.ranges[range + 1][1]
        <4>1. range < range + 1
          BY <3>2
        <4> QED
          BY <1>0, <2>1, <3>2, <4>1, RangeNat DEF RangesApart, frame_first, frame_last, LoopInv
      <3>4. Behind'
        <4> SUFFICES ASSUME NEW k \in DOMAIN job.ranges, k < range + 1 PROVE job.ranges[k][2] < vnext
          BY <1>0, <2>1 DEF Behind
        <4>1. CASE k = range
          BY <1>1, <3>1, <4>1 DEF frame_last
        <4>2. CASE k < range
          <5>1. job.ranges[k][2] < frame_first /\ job.ranges[k][2] \in Nat
            BY <3>2, <4>2, RangeNat DEF RangesApart, frame_first, LoopInv
          <5>2. frame_first <= frame_last
            BY Plain
          <5> QED
            BY <1>1, <3>1, <5>1, <5>2
        <4> QED
          BY <3>2, <4>1, <4>2
      <3>5. Countdown(vnext)'
        <4>1. PICK n \in Nat \ {0} : job'.frame_interval = n
          BY <1>0 DEF LoopInv, Types, Job
        <4>2. PICK i \in Nat : i = vnext'
          BY <1>1, <2>1
        <4>3. PICK j \in Nat : j = frame_first'
          BY <3>3
        <4>4. i <= j
          BY <1>1, <2>1, <3>1, <3>3, <4>2, <4>3
        <4>5. (i - j) + 0 = 0 \/ i < j
          BY <4>4
        <4>6. 0 % n = 0
          BY SmallMod
        <4> QED
          BY <2>1, <4>1, <4>2, <4>3, <4>5, <4>6 DEF Countdown
      <3> QED
        BY <3>4, <3>5
    <2> QED
      BY <2>1, <2>2, <2>3 DEF Chosen
  <1>7. CASE no_more_ranges
    <2>1. /\ pc = "next" /\ pc' = "done" /\ range = Len(job.ranges)
          /\ UNCHANGED <<vnext, encoded, range, error_flag>>
      BY <1>7 DEF no_more_ranges
    <2>2. Ids' = Ids /\ Past' = Past
      BY <1>0, <2>1, PastSame
    <2> QED
      BY <1>0, <2>1, <2>2 DEF Chosen, frame_last
  <1>8. CASE loop \/ get_video_frame \/ get_audio_frame
    <2>1. /\ pc \in {"loop", "video", "audio"} /\ pc' \in {"video", "audio", "work"}
          /\ UNCHANGED <<vnext, encoded, range, error_flag, skip>>
      BY <1>8 DEF loop, get_video_frame, get_audio_frame, Chosen
    <2>2. Ids' = Ids /\ Past' = Past
      BY <1>0, <2>1, PastSame
    <2>3. vnext' <= Streams' => Behind' /\ Countdown(vnext)'
      BY <1>0, <2>1 DEF Chosen, Behind, Countdown, frame_first
    <2> QED
      BY <2>1, <2>2, <2>3 DEF Chosen
  <1>9. CASE UNCHANGED vars
    BY <1>9 DEF vars, Chosen, Ids, Past, Selected, Streams, Wanted, Behind, Countdown, frame_first, frame_last
  <1> QED
    BY <1>2, <1>3, <1>4, <1>5, <1>6, <1>7, <1>8, <1>9 DEF Next, Done

(* At the end everything is passed.                                        *)
LEMMA SelectEncodes == LoopInv /\ InStep /\ Reading /\ SelectInv => SelectionEncoded
  <1> SUFFICES ASSUME LoopInv, InStep, Reading, SelectInv, pc = "done", job.events = {}, RangesApart
               PROVE  /\ Ids = Selected
                      /\ \A k, l \in DOMAIN encoded : k < l => encoded[k][1] < encoded[l][1]
    BY DEF SelectionEncoded, Ids
  <1>1. Chosen
    BY DEF SelectInv
  <1>2. /\ vnext \in Nat /\ Streams \in Nat /\ frame_last \in Nat
    BY Plain
  <1>3. Selected \subseteq Past
    <2> SUFFICES ASSUME NEW i \in 0 .. Streams - 1, NEW k \in DOMAIN job.ranges, Wanted(k, i)
                 PROVE  i < vnext
      BY DEF Selected, Past
    <2>1. vnext > Streams \/ vnext = frame_last + 1
      BY <1>1 DEF Chosen
    <2>2. range = Len(job.ranges) /\ range \in DOMAIN job.ranges /\ k \in Nat /\ k <= range
      BY <1>1, RangeDomain, RangeEnds DEF Chosen, LoopInv
    <2>3. job.ranges[k][2] \in Nat /\ i < job.ranges[k][2] /\ frame_first \in Nat /\ frame_first <= frame_last
      BY RangeNat, Plain DEF Wanted, LoopInv
    <2>4. k = range \/ job.ranges[k][2] < frame_first
      BY <2>2, RangeDomain DEF RangesApart, frame_first, LoopInv
    <2>5. job.ranges[k][2] <= frame_last
      BY <1>2, <2>3, <2>4 DEF frame_last
    <2> QED
      BY <1>2, <2>1, <2>3, <2>5
  <1> QED
    BY <1>1, <1>3 DEF Chosen, Past

-----------------------------------------------------------------------------
(* The theorems.                                                           *)

LEMMA LoopCorrect == Spec => []IInv
  <1>1. Init => IInv
    <2>1. Init => InStep
      BY DEF Init, InStep
    <2> QED
      BY <2>1, InitLoop, InitReading, InitAudio, InitSelect DEF IInv
  <1>2. IInv /\ [Next]_vars => IInv'
    <2> SUFFICES ASSUME IInv, [Next]_vars PROVE IInv'
      OBVIOUS
    <2>1. LoopInv' /\ InStep' /\ Reading' /\ AudioInv'
      BY NextLoop, NextInStep, NextReading, NextAudio DEF IInv
    <2>2. SelectInv'
      <3>1. job' = job
        BY SameJob
      <3>2. RangesApart' => RangesApart
        BY <3>1 DEF RangesApart
      <3> QED
        BY <3>1, <3>2, NextChosen DEF IInv, SelectInv
    <2> QED
      BY <2>1, <2>2 DEF IInv
  <1> QED
    BY <1>1, <1>2, PTL DEF Spec

(* Audio and video are never paired across moments: without delays and     *)
(* clones both are read in step, also when the encoder fails.              *)
THEOREM StaysInStep == Spec => []InStep
  <1>1. IInv => InStep
    BY DEF IInv
  <1> QED
    BY <1>1, LoopCorrect, PTL

(* However often the encoder delays its output, no audio frame is encoded  *)
(* twice or lost.                                                          *)
THEOREM AudioKept == Spec => []AudioContiguous
  <1>1. IInv => AudioContiguous
    BY DEF IInv, AudioInv, Sounding
  <1> QED
    BY <1>1, LoopCorrect, PTL

(* A loop stays within its range, so that the next one finds its frames.   *)
THEOREM RangeKept == Spec => []RangeRespected
  <1>1. IInv => RangeRespected
    BY ReadingRespects DEF IInv
  <1> QED
    BY <1>1, LoopCorrect, PTL

(* What is encoded at the end is what the options select, each frame once  *)
(* and in order.                                                           *)
THEOREM SelectionKept == Spec => []SelectionEncoded
  <1>1. IInv => SelectionEncoded
    BY SelectEncodes DEF IInv
  <1> QED
    BY <1>1, LoopCorrect, PTL

(* The types, and what each position of the loop holds.                    *)
THEOREM LoopTyped == Spec => []LoopInv
  <1>1. IInv => LoopInv
    BY DEF IInv
  <1> QED
    BY <1>1, LoopCorrect, PTL
=============================================================================
