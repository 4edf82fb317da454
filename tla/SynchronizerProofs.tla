------------------------- MODULE SynchronizerProofs -------------------------
(***************************************************************************)
(* The synchronizer between its two import threads and the main thread:    *)
(* for rings of every size and for all jobs, whatever the interleaving.    *)
(***************************************************************************)
EXTENDS Synchronizer, FiniteSetTheorems, SequenceTheorems, TLAPS

USE BuffersAssumption, JobsAssumption

-----------------------------------------------------------------------------
(* The inductive invariants.                                               *)

(* How many frames of a medium the synchronizer has answered for and the   *)
(* main thread has not disposed of; and how many of the ring are in use.   *)
Outside  == {"loop", "register", "end"}
Held(m)  == IF held[m] = "none" THEN 0 ELSE 1
Ready(m) == Len(queue[m]) + Held(m) + (IF pc[m] = "push" THEN 1 ELSE 0)
Used(m)  == Len(queue[m]) + Held(m) + (IF pc[m] \in Outside THEN 0 ELSE 1)

(* The main thread takes the frames in pairs, so that the counters differ  *)
(* by what is ready of one medium and not of the other.                    *)
InPairs ==
    /\ pc["main"] \notin {"claim_audio", "encode"} => held = Both("none")
    /\ pc["main"] = "claim_audio" => held["audio"] = "none" /\ held["video"] # "none"
    /\ pc["main"] = "encode" => held["audio"] # "none" /\ held["video"] # "none"
    /\ job.method = "adjust" => drift = Ready("audio") - Ready("video")

RingBound == \A m \in Media : Used(m) <= Buffers

(* The none method decides nothing. *)
NoneDecides ==
    job.method = "none" =>
        /\ op = "none" /\ video_cloned = 0 /\ video_dropped = 0
        /\ pc["video"] # "decide"

PairInv == TypeOK /\ InPairs /\ RingBound /\ NoneDecides /\ NoNeedlessCorrection

(* The audio source was asked for what was delivered and for the shift,    *)
(* as far as the shift is done; it is done before the first frame.         *)
ShiftInv ==
    job.sync >= 0 =>
        /\ read["audio"] + audio_shift = Len(delivered["audio"]) + job.sync
        /\ pc["audio"] \in {"fill", "push"} => audio_shift = 0
        /\ audio_shift >= 0

AudioInv == ShiftInv /\ AudioFromShift

(* How often a sequence grows by n from one element to the next.           *)
Steps(d, n) == Cardinality({k \in 2 .. Len(d) : d[k] = d[k - 1] + n})

Last(d) == IF d = <<>> THEN 0 ELSE d[Len(d)]

(* A stream without gaps but for some frames that repeat the one before    *)
(* and some that leave one out.                                            *)
Stream(d, clones, drops) ==
    /\ d # <<>> => d[1] = 1
    /\ \A k \in 2 .. Len(d) : d[k] - d[k - 1] \in 0 .. 2
    /\ Steps(d, 0) = clones /\ Steps(d, 2) = drops

OneIf(x, y) == IF x = y THEN 1 ELSE 0

(* A decision is pending between two frames, never before the first.       *)
Pending ==
    /\ op # "none" => delivered["video"] # <<>> /\ pc["video"] # "decide"
    /\ op = "clone" => video_cloned > 0

(* As long as the video source has not ended, the last frame delivered is  *)
(* the last one read, and the difference between two frames in a row is    *)
(* what was decided at the first of them.                                  *)
Accounted(d) ==
    /\ op = "clone" => saved = Last(d)
    /\ pc["video"] # "decide" =>
        /\ read["video"] = Last(d)
        /\ Stream(d, video_cloned - OneIf(op, "clone"), video_dropped - OneIf(op, "drop"))
    /\ pc["video"] = "decide" =>
        /\ frame["video"] = read["video"]
        /\ read["video"] - Last(d) \in 0 .. 2
        /\ d = <<>> => read["video"] = 1
        /\ Stream(d, video_cloned - OneIf(read["video"], Last(d)),
                     video_dropped - OneIf(read["video"], Last(d) + 2))

VideoInv ==
    /\ Pending
    /\ read["video"] <= job.video => Accounted(delivered["video"])

-----------------------------------------------------------------------------
(* Types.                                                                  *)

LEMMA JobTypes ==
    ASSUME job \in Jobs
    PROVE  /\ job.method \in {"none", "adjust"} /\ job.video \in Nat /\ job.audio \in Nat
           /\ job.sync \in Int /\ job.frames_margin \in Nat /\ job.frames_interval \in Nat
  BY DEF JobType

(* What a filler leaves behind, and what the synchronizer answers.         *)
LEMMA FillerTypes ==
    ASSUME TypeOK, NEW m \in Media, NEW n \in Nat, filler(m, n)
    PROVE  read' \in [Media -> Nat] /\ frame' \in [Media -> Int]
  <1>1. read' = [read EXCEPT ![m] = read[m] + n]
    BY DEF filler
  <1>2. read' \in [Media -> Nat]
    BY <1>1 DEF TypeOK
  <1>3. frame' = [frame EXCEPT ![m] = IF read'[m] <= length(m) THEN read'[m] ELSE STALE]
    BY DEF filler
  <1>4. read'[m] \in Int /\ STALE \in Int
    BY <1>2 DEF STALE
  <1> QED
    BY <1>2, <1>3, <1>4 DEF TypeOK

LEMMA AnswerTypes ==
    ASSUME TypeOK, frame' \in [Media -> Int], NEW m \in Media, NEW r \in {"TC_OK", "TC_ERROR"},
           answer(m, r)
    PROVE  /\ ret' \in [Media -> {"TC_OK", "TC_ERROR"}]
           /\ delivered' \in [Media -> Seq(Int)]
           /\ delivered' = [delivered EXCEPT ![m] = Append(delivered[m], frame'[m])]
  <1>1. Append(delivered[m], frame'[m]) \in Seq(Int)
    BY AppendProperties DEF TypeOK
  <1> QED
    BY <1>1 DEF answer, TypeOK

LEMMA PushTypes ==
    ASSUME TypeOK, NEW m \in Media, push_next(m)
    PROVE  /\ queue' \in [Media -> Seq({"frame", "eos"})]
           /\ Len(queue'[m]) = Len(queue[m]) + 1
           /\ \A n \in Media \ {m} : queue'[n] = queue[n]
  <1> DEFINE x == IF ret[m] = "TC_OK" THEN "frame" ELSE "eos"
  <1>1. queue' = [queue EXCEPT ![m] = Append(queue[m], x)] /\ queue[m] \in Seq({"frame", "eos"})
    BY DEF push_next, TypeOK
  <1>2. x \in {"frame", "eos"}
    OBVIOUS
  <1> HIDE DEF x
  <1>3. /\ Append(queue[m], x) \in Seq({"frame", "eos"})
        /\ Len(Append(queue[m], x)) = Len(queue[m]) + 1
    BY <1>1, <1>2, AppendProperties
  <1> QED
    BY <1>1, <1>3 DEF TypeOK

LEMMA ClaimTypes ==
    ASSUME TypeOK, NEW m \in Media, NEW from, NEW to, claim(m, from, to)
    PROVE  /\ queue' \in [Media -> Seq({"frame", "eos"})]
           /\ Len(queue'[m]) = Len(queue[m]) - 1
           /\ \A n \in Media \ {m} : queue'[n] = queue[n] /\ held'[n] = held[n]
           /\ held' \in [Media -> {"none", "frame", "eos"}] /\ held'[m] # "none"
  <1>1. /\ queue[m] # <<>> /\ queue[m] \in Seq({"frame", "eos"})
        /\ held' = [held EXCEPT ![m] = Head(queue[m])]
        /\ queue' = [queue EXCEPT ![m] = Tail(queue[m])]
    BY DEF claim, TypeOK
  <1>2. /\ Tail(queue[m]) \in Seq({"frame", "eos"}) /\ Head(queue[m]) \in {"frame", "eos"}
        /\ Len(Tail(queue[m])) = Len(queue[m]) - 1
    BY <1>1, HeadTailProperties
  <1> QED
    BY <1>1, <1>2 DEF TypeOK

-----------------------------------------------------------------------------
(* The pairs.                                                              *)

Labels == {"loop", "register", "get", "decide", "fill", "push", "end", "claim_video",
           "claim_audio", "encode", "stop", "interrupt", "cancel", "join"}

LEMMA PairInit == Init => PairInv
  <1> SUFFICES ASSUME Init PROVE PairInv
    OBVIOUS
  <1>1. job \in Jobs
    BY DEF Init
  <1>2. /\ pc["video"] = "loop" /\ pc["audio"] = "loop" /\ pc["main"] = "claim_video"
        /\ pc \in [Media \union {"main"} -> Labels]
    BY DEF Init, Media, Labels
  <1>3. <<>> \in Seq({"frame", "eos"}) /\ <<>> \in Seq(Int) /\ Len(<<>>) = 0
    BY EmptySeq
  <1>4. TypeOK
    BY <1>1, <1>2, <1>3, JobTypes DEF Init, TypeOK, Labels, Both, BLANK, STALE
  <1>5. InPairs /\ RingBound
    BY <1>2, <1>3 DEF Init, InPairs, RingBound, Both, drift, Ready, Used, Held, Media
  <1> QED
    BY <1>2, <1>4, <1>5 DEF Init, PairInv, NoneDecides, NoNeedlessCorrection

(* The import threads, at the loop and in the NULL pool.                   *)
Waits(m) == import_loop(m) \/ register(m) \/ register_wait(m) \/ register_interrupted(m)

LEMMA PairRegister ==
    ASSUME PairInv, NEW m \in Media, Waits(m)
    PROVE  PairInv'
  <1>1. /\ pc' \in [Media \union {"main"} -> Labels]
        /\ pc[m] \in {"loop", "register"} /\ pc'[m] \in {"register", "get", "end"}
        /\ pc'[m] = "get" => Len(queue[m]) + Held(m) < Buffers
        /\ \A t \in (Media \union {"main"}) \ {m} : pc'[t] = pc[t]
        /\ sleep' \in [Media -> {"no", "asleep", "woken"}]
    <2>1. /\ pc \in [Media \union {"main"} -> Labels]
          /\ "get" \in Labels /\ "end" \in Labels /\ "register" \in Labels
          /\ sleep \in [Media -> {"no", "asleep", "woken"}]
      BY DEF PairInv, TypeOK, Labels
    <2>2. CASE import_loop(m)
      BY <2>1, <2>2 DEF import_loop, go, ring
    <2>3. CASE register(m)
      BY <2>1, <2>3 DEF register, go, Free, Held
    <2>4. CASE register_wait(m)
      BY <2>1, <2>4 DEF register_wait
    <2>5. CASE register_interrupted(m)
      BY <2>1, <2>5 DEF register_interrupted, go
    <2> QED
      BY <2>2, <2>3, <2>4, <2>5 DEF Waits
  <1>2. UNCHANGED <<job, tc_running, read, frame, ret, queue, held, audio_shift, op,
                    video_counter, audio_counter, video_cloned, video_dropped, saved, delivered>>
    BY DEF Waits, import_loop, register, register_wait, register_interrupted, ring, counters
  <1>3. TypeOK'
    BY <1>1, <1>2 DEF PairInv, TypeOK, Labels, Media
  <1>4. InPairs'
    BY <1>1, <1>2 DEF PairInv, InPairs, Media, drift, Ready, Held
  <1>5. RingBound'
    <2>1. Len(queue[m]) \in Nat
      BY DEF PairInv, TypeOK
    <2>2. Held(m)' = Held(m) /\ Held(m) \in {0, 1} /\ Used(m) <= Buffers
      BY <1>2 DEF Held, PairInv, RingBound
    <2>3. Used(m)' <= Buffers
      BY <1>1, <1>2, <2>1, <2>2 DEF Used, Outside
    <2>4. \A n \in Media \ {m} : Used(n)' = Used(n)
      BY <1>1, <1>2 DEF Used, Held
    <2> QED
      BY <2>3, <2>4 DEF PairInv, RingBound
  <1> QED
    BY <1>1, <1>2, <1>3, <1>4, <1>5 DEF PairInv, NoneDecides, NoNeedlessCorrection, Media

(* A frame pushed is ready as it was.                                      *)
LEMMA PairPush ==
    ASSUME PairInv, NEW m \in Media, push_next(m)
    PROVE  PairInv'
  <1>1. /\ pc' \in [Media \union {"main"} -> Labels]
        /\ pc[m] = "push" /\ pc'[m] \in {"loop", "end"}
        /\ \A t \in (Media \union {"main"}) \ {m} : pc'[t] = pc[t]
    BY DEF push_next, go, PairInv, TypeOK, Labels
  <1>2. UNCHANGED <<job, tc_running, read, frame, ret, held, sleep, audio_shift, op,
                    video_counter, audio_counter, video_cloned, video_dropped, saved, delivered>>
    BY DEF push_next, counters
  <1>3. /\ queue' \in [Media -> Seq({"frame", "eos"})]
        /\ Len(queue'[m]) = Len(queue[m]) + 1
        /\ \A n \in Media \ {m} : queue'[n] = queue[n]
    BY PushTypes DEF PairInv
  <1>4. \A n \in Media : Len(queue[n]) \in Nat
    BY DEF PairInv, TypeOK
  <1>5. ASSUME NEW n \in Media PROVE Ready(n)' = Ready(n) /\ Used(n)' = Used(n)
    <2>0. Held(n)' = Held(n) /\ Held(n) \in Nat /\ Len(queue[n]) \in Nat
      BY <1>2, <1>4 DEF Held
    <2>1. CASE n = m
      <3>1. /\ Len(queue'[n]) = Len(queue[n]) + 1
            /\ pc[n] = "push" /\ pc'[n] \in {"loop", "end"} /\ pc'[n] # "push"
        BY <1>1, <1>3, <2>1
      <3>2. Ready(n) = Len(queue[n]) + Held(n) + 1 /\ Used(n) = Len(queue[n]) + Held(n) + 1
        BY <3>1 DEF Ready, Used, Outside
      <3>3. /\ Ready(n)' = Len(queue'[n]) + Held(n)' + 0
            /\ Used(n)' = Len(queue'[n]) + Held(n)' + 0
        BY <3>1 DEF Ready, Used, Outside
      <3> QED
        BY <2>0, <3>1, <3>2, <3>3
    <2>2. CASE n # m
      BY <1>1, <1>3, <2>0, <2>2 DEF Ready, Used
    <2> QED
      BY <2>1, <2>2
  <1>6. RingBound'
    BY <1>5 DEF PairInv, RingBound
  <1>7. \A n \in Media : Len(queue'[n]) + (IF held'[n] = "none" THEN 0 ELSE 1) <= Buffers
    <2> TAKE n \in Media
    <2>1. Used(n)' <= Buffers /\ Len(queue'[n]) \in Nat /\ Held(n)' \in Nat
      BY <1>3, <1>6 DEF RingBound, Held
    <2>2. Len(queue'[n]) + Held(n)' <= Buffers
      BY <2>1 DEF Used
    <2> QED
      BY <2>2 DEF Held
  <1>8. TypeOK'
    BY <1>1, <1>2, <1>3, <1>7 DEF PairInv, TypeOK, Labels, Media
  <1>9. InPairs'
    <2>1. Ready("audio")' = Ready("audio") /\ Ready("video")' = Ready("video")
      BY <1>5 DEF Media
    <2> QED
      BY <1>1, <1>2, <2>1 DEF PairInv, InPairs, Media, drift
  <1> QED
    BY <1>1, <1>2, <1>6, <1>8, <1>9 DEF PairInv, NoneDecides, NoNeedlessCorrection, Media

(* A step of the synchronizer on a frame that is registered.               *)
LEMMA Advance ==
    ASSUME PairInv, NEW m \in Media, NEW from, NEW to,
           from \in {"get", "decide", "fill"}, to \in {"decide", "fill", "push"},
           pc[m] = from, go(m, to), UNCHANGED <<queue, held>>
    PROVE  /\ pc' \in [Media \union {"main"} -> Labels]
           /\ pc'[m] = to /\ \A t \in (Media \union {"main"}) \ {m} : pc'[t] = pc[t]
           /\ RingBound'
           /\ Ready(m)' = Ready(m) + (IF to = "push" THEN 1 ELSE 0)
           /\ \A n \in Media \ {m} : Ready(n)' = Ready(n)
           /\ \A n \in Media : Ready(n) \in Nat /\ Ready(n) <= Used(n)
           /\ Ready(m) + 1 <= Used(m)
  <1>1. pc \in [Media \union {"main"} -> Labels] /\ to \in Labels
    BY DEF PairInv, TypeOK, Labels
  <1>2. /\ pc' \in [Media \union {"main"} -> Labels]
        /\ pc'[m] = to /\ \A t \in (Media \union {"main"}) \ {m} : pc'[t] = pc[t]
    BY <1>1 DEF go
  <1>3. \A n \in Media : /\ Held(n)' = Held(n) /\ Held(n) \in Nat
                         /\ queue'[n] = queue[n] /\ Len(queue[n]) \in Nat
    BY DEF Held, PairInv, TypeOK
  <1>4. Ready(m) = Len(queue[m]) + Held(m) /\ Used(m) = Len(queue[m]) + Held(m) + 1
    <2>1. pc[m] # "push" /\ pc[m] \notin Outside
      BY DEF Outside
    <2> QED
      BY <1>3, <2>1 DEF Ready, Used
  <1>5. Ready(m)' = Ready(m) + (IF to = "push" THEN 1 ELSE 0) /\ Used(m)' = Used(m)
    <2>1. pc'[m] = to /\ pc'[m] \notin Outside
      BY <1>2 DEF Outside
    <2> QED
      BY <1>3, <1>4, <2>1 DEF Ready, Used
  <1>6. \A n \in Media \ {m} : Ready(n)' = Ready(n) /\ Used(n)' = Used(n)
    BY <1>2, <1>3 DEF Ready, Used
  <1>7. \A n \in Media : Ready(n) \in Nat /\ Ready(n) <= Used(n)
    BY <1>3 DEF Ready, Used, Outside
  <1>8. RingBound'
    BY <1>5, <1>6 DEF PairInv, RingBound
  <1> QED
    BY <1>2, <1>4, <1>5, <1>6, <1>7, <1>8

LEMMA PairNone ==
    ASSUME PairInv, tc_sync_none_get_video
    PROVE  PairInv'
  <1>1. /\ pc["video"] = "get" /\ go("video", "push") /\ job.method = "none"
        /\ UNCHANGED <<job, tc_running, queue, held, sleep, audio_shift, op, video_counter,
                       audio_counter, video_cloned, video_dropped, saved>>
        /\ filler("video", 1) /\ answer("video", filled("video"))
    BY DEF tc_sync_none_get_video, ring, counters
  <1>2. "video" \in Media
    BY DEF Media
  <1>3. /\ pc' \in [Media \union {"main"} -> Labels]
        /\ pc'["video"] = "push" /\ \A t \in (Media \union {"main"}) \ {"video"} : pc'[t] = pc[t]
        /\ RingBound'
    BY <1>1, <1>2, Advance DEF Media
  <1>4. read' \in [Media -> Nat] /\ frame' \in [Media -> Int]
    BY <1>1, <1>2, FillerTypes DEF PairInv
  <1>5. ret' \in [Media -> {"TC_OK", "TC_ERROR"}] /\ delivered' \in [Media -> Seq(Int)]
    BY <1>1, <1>2, <1>4, AnswerTypes DEF PairInv, filled
  <1>6. TypeOK'
    BY <1>1, <1>3, <1>4, <1>5 DEF PairInv, TypeOK, Labels, Media
  <1> QED
    BY <1>1, <1>3, <1>6 DEF PairInv, InPairs, NoneDecides, NoNeedlessCorrection, Media

LEMMA PairAdjustGet ==
    ASSUME PairInv, adjust_get
    PROVE  PairInv'
  <1>1. /\ pc["video"] = "get" /\ go("video", "decide") /\ job.method = "adjust" /\ op' = "none"
        /\ UNCHANGED <<job, tc_running, ret, queue, held, sleep, audio_shift, video_counter,
                       audio_counter, video_cloned, video_dropped, saved, delivered>>
    BY DEF adjust_get, ring, counters
  <1>2. "video" \in Media
    BY DEF Media
  <1>3. /\ pc' \in [Media \union {"main"} -> Labels]
        /\ pc'["video"] = "decide" /\ \A t \in (Media \union {"main"}) \ {"video"} : pc'[t] = pc[t]
        /\ RingBound'
        /\ Ready("video")' = Ready("video") + 0 /\ Ready("audio")' = Ready("audio")
        /\ Ready("video") \in Nat /\ Ready("audio") \in Nat
    BY <1>1, <1>2, Advance DEF Media
  <1>4. read' \in [Media -> Nat] /\ frame' \in [Media -> Int]
    <2>1. CASE op = "clone"
      <3>1. frame' = [frame EXCEPT !["video"] = IF video_cloned = 0 THEN BLANK ELSE saved]
        BY <2>1 DEF adjust_get
      <3>2. read' = read /\ BLANK \in Int /\ saved \in Int
        BY <2>1 DEF adjust_get, BLANK, PairInv, TypeOK
      <3> QED
        BY <3>1, <3>2 DEF PairInv, TypeOK
    <2>2. CASE op # "clone"
      <3>1. filler("video", Reads) /\ Reads \in Nat
        BY <2>2 DEF adjust_get, Reads
      <3> QED
        BY <1>2, <3>1, FillerTypes DEF PairInv
    <2> QED
      BY <2>1, <2>2
  <1>5. TypeOK'
    BY <1>1, <1>3, <1>4 DEF PairInv, TypeOK, Labels, Media
  <1>6. InPairs'
    BY <1>1, <1>3 DEF PairInv, InPairs, drift, Media
  <1> QED
    BY <1>1, <1>3, <1>5, <1>6 DEF PairInv, NoneDecides, NoNeedlessCorrection, Media

(* At a decision the ring bounds the drift on both sides, since the frame  *)
(* to decide for is in the video ring but does not count yet.              *)
LEMMA DriftBounded ==
    ASSUME PairInv, pc["video"] = "decide", job.method = "adjust"
    PROVE  drift \in Int /\ drift <= Buffers /\ -drift <= Buffers
  <1>1. /\ Ready("audio") \in Nat /\ Ready("audio") <= Used("audio")
        /\ Ready("video") \in Nat /\ Ready("video") <= Used("video")
    <2> SUFFICES ASSUME NEW m \in Media PROVE Ready(m) \in Nat /\ Ready(m) <= Used(m)
      BY DEF Media
    <2>1. Len(queue[m]) \in Nat /\ Held(m) \in Nat
      BY DEF PairInv, TypeOK, Held
    <2> QED
      BY <2>1 DEF Ready, Used, Outside
  <1>2. /\ drift = Ready("audio") - Ready("video")
        /\ Used("audio") <= Buffers /\ Used("video") <= Buffers
        /\ Used("audio") \in Int /\ Used("video") \in Int
    <2>1. \A m \in Media : Len(queue[m]) \in Nat /\ Held(m) \in Nat
      BY DEF PairInv, TypeOK, Held
    <2> QED
      BY SMTT(30), <2>1 DEF PairInv, InPairs, RingBound, Media, Used
  <1> QED
    BY <1>1, <1>2

LEMMA PairAdjustDecide ==
    ASSUME PairInv, adjust_decide
    PROVE  PairInv'
  <1>1. /\ pc["video"] = "decide" /\ go("video", "push")
        /\ video_counter' = video_counter + 1
        /\ UNCHANGED <<job, tc_running, read, frame, queue, held, sleep, audio_shift, audio_counter>>
        /\ answer("video", "TC_OK")
    BY DEF adjust_decide, ring
  <1>2. "video" \in Media
    BY DEF Media
  <1>3. job.method = "adjust"
    BY <1>1, JobTypes DEF PairInv, TypeOK, NoneDecides
  <1>4. /\ pc' \in [Media \union {"main"} -> Labels]
        /\ pc'["video"] = "push" /\ \A t \in (Media \union {"main"}) \ {"video"} : pc'[t] = pc[t]
        /\ RingBound'
        /\ Ready("video")' = Ready("video") + 1 /\ Ready("audio")' = Ready("audio")
        /\ Ready("video") \in Nat /\ Ready("audio") \in Nat
    BY <1>1, <1>2, Advance DEF Media
  <1>5. ret' \in [Media -> {"TC_OK", "TC_ERROR"}] /\ delivered' \in [Media -> Seq(Int)]
    BY <1>1, <1>2, AnswerTypes DEF PairInv, TypeOK
  <1>6. /\ op' \in {"none", "clone", "drop"} /\ saved' \in Int
        /\ video_cloned' \in Nat /\ video_dropped' \in Nat
    BY SMTT(30), <1>2 DEF adjust_decide, PairInv, TypeOK
  <1>7. TypeOK'
    BY SMTT(30), <1>1, <1>4, <1>5, <1>6 DEF PairInv, TypeOK, Labels, Media
  <1>8. InPairs'
    BY SMTT(30), <1>1, <1>3, <1>4 DEF PairInv, InPairs, drift, Media, TypeOK
  <1>9. NoNeedlessCorrection'
    <2> SUFFICES ASSUME job.frames_margin >= Buffers
                 PROVE  video_cloned' = video_cloned /\ video_dropped' = video_dropped
      BY <1>1 DEF PairInv, NoNeedlessCorrection
    <2>1. ~too_far
      BY SMTT(30), <1>1, <1>3, DriftBounded, JobTypes DEF PairInv, TypeOK, too_far
    <2> QED
      BY <2>1 DEF adjust_decide
  <1>10. NoneDecides'
    BY <1>1, <1>3 DEF NoneDecides
  <1> QED
    BY <1>4, <1>7, <1>8, <1>9, <1>10 DEF PairInv

LEMMA PairShift ==
    ASSUME PairInv, tc_sync_audio_shift
    PROVE  PairInv'
  <1>1. /\ pc["audio"] = "get" /\ go("audio", "fill") /\ audio_shift' = 0
        /\ UNCHANGED <<job, tc_running, ret, queue, held, sleep, op, video_counter, audio_counter,
                       video_cloned, video_dropped, saved, delivered>>
    BY DEF tc_sync_audio_shift, shift_done, ring, counters
  <1>2. "audio" \in Media
    BY DEF Media
  <1>3. /\ pc' \in [Media \union {"main"} -> Labels]
        /\ pc'["audio"] = "fill" /\ \A t \in (Media \union {"main"}) \ {"audio"} : pc'[t] = pc[t]
        /\ RingBound'
        /\ Ready("audio")' = Ready("audio") + 0 /\ Ready("video")' = Ready("video")
        /\ Ready("video") \in Nat /\ Ready("audio") \in Nat
    BY <1>1, <1>2, Advance DEF Media
  <1>4. read' \in [Media -> Nat] /\ frame' \in [Media -> Int]
    <2>1. CASE audio_shift < 0
      <3>1. frame' = [frame EXCEPT !["audio"] = BLANK] /\ read' = read
        BY <2>1 DEF tc_sync_audio_shift, PairInv, TypeOK
      <3>2. BLANK \in Int /\ read \in [Media -> Nat] /\ frame \in [Media -> Int]
        BY DEF PairInv, TypeOK, BLANK
      <3> QED
        BY <3>1, <3>2
    <2>2. CASE audio_shift > 0
      <3>1. filler("audio", audio_shift) /\ audio_shift \in Nat
        BY <2>2 DEF tc_sync_audio_shift, PairInv, TypeOK
      <3> QED
        BY <1>2, <3>1, FillerTypes DEF PairInv
    <2>3. CASE audio_shift = 0
      BY <2>3 DEF tc_sync_audio_shift, PairInv, TypeOK
    <2> QED
      BY <2>1, <2>2, <2>3 DEF PairInv, TypeOK
  <1>5. TypeOK'
    BY SMTT(30), <1>1, <1>3, <1>4 DEF PairInv, TypeOK, Labels, Media
  <1>6. InPairs'
    BY <1>1, <1>3 DEF PairInv, InPairs, drift, Media
  <1> QED
    BY <1>1, <1>3, <1>5, <1>6 DEF PairInv, NoneDecides, NoNeedlessCorrection, Media

LEMMA PairGetAudio ==
    ASSUME PairInv, get_audio
    PROVE  PairInv'
  <1>1. /\ pc["audio"] = "fill" /\ go("audio", "push")
        /\ audio_counter' = IF job.method = "adjust" THEN audio_counter + 1 ELSE audio_counter
        /\ filler("audio", 1) /\ answer("audio", filled("audio"))
        /\ UNCHANGED <<job, tc_running, queue, held, sleep, audio_shift, op, video_counter,
                       video_cloned, video_dropped, saved>>
    BY DEF get_audio, ring
  <1>2. "audio" \in Media
    BY DEF Media
  <1>3. /\ pc' \in [Media \union {"main"} -> Labels]
        /\ pc'["audio"] = "push" /\ \A t \in (Media \union {"main"}) \ {"audio"} : pc'[t] = pc[t]
        /\ RingBound'
        /\ Ready("audio")' = Ready("audio") + 1 /\ Ready("video")' = Ready("video")
        /\ Ready("video") \in Nat /\ Ready("audio") \in Nat
    BY <1>1, <1>2, Advance DEF Media
  <1>4. read' \in [Media -> Nat] /\ frame' \in [Media -> Int]
    BY <1>1, <1>2, FillerTypes DEF PairInv
  <1>5. ret' \in [Media -> {"TC_OK", "TC_ERROR"}] /\ delivered' \in [Media -> Seq(Int)]
    BY <1>1, <1>2, <1>4, AnswerTypes DEF PairInv, filled
  <1>6. TypeOK'
    BY SMTT(30), <1>1, <1>3, <1>4, <1>5 DEF PairInv, TypeOK, Labels, Media
  <1>7. InPairs'
    BY SMTT(30), <1>1, <1>3 DEF PairInv, InPairs, drift, Media, TypeOK
  <1> QED
    BY <1>1, <1>3, <1>6, <1>7 DEF PairInv, NoneDecides, NoNeedlessCorrection, Media

(* The main thread takes a frame into its hand, which stays ready.         *)
LEMMA PairClaim ==
    ASSUME PairInv, claim("video", "claim_video", "claim_audio") \/ claim("audio", "claim_audio", "encode")
    PROVE  PairInv'
  <1>1. PICK m \in Media, from \in {"claim_video", "claim_audio"}, to \in {"claim_audio", "encode"} :
            /\ claim(m, from, to)
            /\ m = "video" => from = "claim_video" /\ to = "claim_audio"
            /\ m = "audio" => from = "claim_audio" /\ to = "encode"
    BY DEF Media
  <1>2. /\ pc["main"] = from /\ go("main", to)
        /\ UNCHANGED <<job, tc_running, read, frame, ret, sleep, audio_shift, op, video_counter,
                       audio_counter, video_cloned, video_dropped, saved, delivered>>
    BY <1>1 DEF claim, counters
  <1>3. /\ pc \in [Media \union {"main"} -> Labels] /\ to \in Labels
        /\ "main" \notin Media
    BY DEF PairInv, TypeOK, Labels, Media
  <1>4. /\ pc' \in [Media \union {"main"} -> Labels]
        /\ pc'["main"] = to /\ \A n \in Media : pc'[n] = pc[n]
    BY <1>2, <1>3 DEF go
  <1>5. held[m] = "none"
    BY <1>1, <1>2 DEF PairInv, InPairs, Both, Media
  <1>6. /\ queue' \in [Media -> Seq({"frame", "eos"})]
        /\ Len(queue'[m]) = Len(queue[m]) - 1
        /\ \A n \in Media \ {m} : queue'[n] = queue[n] /\ held'[n] = held[n]
        /\ held' \in [Media -> {"none", "frame", "eos"}] /\ held'[m] # "none"
    BY <1>1, ClaimTypes DEF PairInv
  <1>7. ASSUME NEW n \in Media
        PROVE  /\ Len(queue'[n]) + Held(n)' = Len(queue[n]) + Held(n)
               /\ Ready(n)' = Ready(n) /\ Used(n)' = Used(n)
    <2>1. Len(queue[n]) \in Nat /\ Len(queue'[n]) \in Nat
      BY SMTT(30), <1>6 DEF PairInv, TypeOK
    <2>2. Len(queue'[n]) + Held(n)' = Len(queue[n]) + Held(n)
      <3>1. CASE n = m
        <4>1. Held(n) = 0 /\ Held(n)' = 1 /\ Len(queue'[n]) = Len(queue[n]) - 1
          BY <1>5, <1>6, <3>1 DEF Held
        <4> QED
          BY <2>1, <4>1
      <3>2. CASE n # m
        BY <1>6, <3>2 DEF Held
      <3> QED
        BY <3>1, <3>2
    <2> QED
      BY <1>4, <2>2 DEF Ready, Used
  <1>8. TypeOK'
    <2>1. \A n \in Media : Len(queue'[n]) + (IF held'[n] = "none" THEN 0 ELSE 1) <= Buffers
      BY <1>7 DEF PairInv, TypeOK, Held
    <2> QED
      BY <1>2, <1>3, <1>4, <1>6, <2>1 DEF PairInv, TypeOK, Labels, Media
  <1>9. InPairs'
    <2>1. Ready("audio")' = Ready("audio") /\ Ready("video")' = Ready("video")
      BY <1>7 DEF Media
    <2>2. /\ pc'["main"] = "claim_audio" => held'["audio"] = "none" /\ held'["video"] # "none"
          /\ pc'["main"] = "encode" => held'["audio"] # "none" /\ held'["video"] # "none"
      BY <1>1, <1>2, <1>4, <1>6 DEF PairInv, InPairs, Both, Media
    <2> QED
      BY <1>2, <1>4, <2>1, <2>2 DEF PairInv, InPairs, drift
  <1>10. RingBound'
    BY <1>7 DEF PairInv, RingBound
  <1>11. NoneDecides' /\ NoNeedlessCorrection'
    BY <1>2, <1>4 DEF PairInv, NoneDecides, NoNeedlessCorrection, Media
  <1> QED
    BY <1>8, <1>9, <1>10, <1>11 DEF PairInv

LEMMA WokenType ==
    ASSUME PairInv
    PROVE  Woken \in [Media -> {"no", "asleep", "woken"}]
  BY DEF PairInv, TypeOK, Woken

(* The two frames of a pair are disposed of together.                      *)
LEMMA PairEncode ==
    ASSUME PairInv, encode
    PROVE  PairInv'
  <1>1. /\ pc["main"] = "encode" /\ held' = Both("none") /\ sleep' = Woken
        /\ go("main", IF "eos" \in {held["video"], held["audio"]} THEN "stop" ELSE "claim_video")
        /\ UNCHANGED <<job, tc_running, read, frame, ret, queue, audio_shift, op, video_counter,
                       audio_counter, video_cloned, video_dropped, saved, delivered>>
    BY DEF encode, counters
  <1>2. PICK to \in {"claim_video", "stop"} : go("main", to)
    BY <1>1
  <1>3. pc \in [Media \union {"main"} -> Labels] /\ to \in Labels /\ "main" \notin Media
    BY DEF PairInv, TypeOK, Labels, Media
  <1>4. /\ pc' \in [Media \union {"main"} -> Labels]
        /\ pc'["main"] = to /\ \A n \in Media : pc'[n] = pc[n]
    BY <1>2, <1>3 DEF go
  <1>5. ASSUME NEW n \in Media
        PROVE  /\ Held(n) = 1 /\ Held(n)' = 0
               /\ Ready(n)' = Ready(n) - 1 /\ Ready(n) \in Nat
               /\ Used(n)' = Used(n) - 1 /\ Used(n) \in Nat
    <2>1. Held(n) = 1 /\ Held(n)' = 0 /\ Len(queue[n]) \in Nat /\ Len(queue'[n]) = Len(queue[n])
      BY <1>1 DEF PairInv, TypeOK, InPairs, Held, Both, Media
    <2>2. pc'[n] = pc[n]
      BY <1>4
    <2> DEFINE pushing == IF pc[n] = "push" THEN 1 ELSE 0
               working == IF pc[n] \in Outside THEN 0 ELSE 1
    <2>a. pushing \in Nat /\ working \in Nat
      OBVIOUS
    <2>b. Ready(n) = Len(queue[n]) + Held(n) + pushing /\ Used(n) = Len(queue[n]) + Held(n) + working
      BY DEF Ready, Used
    <2>c. /\ Ready(n)' = Len(queue'[n]) + Held(n)' + pushing
          /\ Used(n)' = Len(queue'[n]) + Held(n)' + working
      BY <2>2 DEF Ready, Used
    <2> HIDE DEF pushing, working
    <2>3. Ready(n)' = Ready(n) - 1 /\ Ready(n) \in Nat
      BY <2>1, <2>a, <2>b, <2>c
    <2>4. Used(n)' = Used(n) - 1 /\ Used(n) \in Nat
      BY <2>1, <2>a, <2>b, <2>c
    <2> QED
      BY <2>1, <2>3, <2>4
  <1>6. TypeOK'
    <2>1. held' \in [Media -> {"none", "frame", "eos"}]
      BY <1>1 DEF Both
    <2>2. \A n \in Media : Len(queue'[n]) + (IF held'[n] = "none" THEN 0 ELSE 1) <= Buffers
      BY <1>1, <1>5 DEF PairInv, TypeOK, Held
    <2> QED
      BY <1>1, <1>2, <1>3, <1>4, <2>1, <2>2, WokenType DEF PairInv, TypeOK, Labels, Media
  <1>7. InPairs'
    <2>1. /\ Ready("audio")' = Ready("audio") - 1 /\ Ready("video")' = Ready("video") - 1
          /\ Ready("audio") \in Nat /\ Ready("video") \in Nat
      BY <1>5 DEF Media
    <2> QED
      BY <1>1, <1>2, <1>4, <2>1 DEF PairInv, InPairs, drift
  <1>8. RingBound'
    BY <1>5 DEF PairInv, RingBound
  <1>9. NoneDecides' /\ NoNeedlessCorrection'
    BY <1>1, <1>4 DEF PairInv, NoneDecides, NoNeedlessCorrection, Media
  <1> QED
    BY <1>6, <1>7, <1>8, <1>9 DEF PairInv

(* The program is stopped, the sleepers are woken and the threads joined.  *)
Stops == tc_stop \/ wake_up("interrupt", "cancel") \/ wake_up("cancel", "join") \/ join

LEMMA PairStop ==
    ASSUME PairInv, Stops
    PROVE  PairInv'
  <1>1. PICK from \in {"stop", "interrupt", "cancel", "join"},
             to \in {"interrupt", "cancel", "join", "end"} :
            /\ pc["main"] = from /\ go("main", to)
            /\ tc_running' \in BOOLEAN /\ (sleep' = sleep \/ sleep' = Woken)
            /\ UNCHANGED <<job, read, frame, ret, queue, held, audio_shift, op, video_counter,
                           audio_counter, video_cloned, video_dropped, saved, delivered>>
    <2>1. tc_running \in BOOLEAN
      BY DEF PairInv, TypeOK
    <2>2. CASE tc_stop
      BY <2>2 DEF tc_stop, ring, counters
    <2>3. CASE wake_up("interrupt", "cancel")
      BY <2>1, <2>3 DEF wake_up, counters
    <2>4. CASE wake_up("cancel", "join")
      BY <2>1, <2>4 DEF wake_up, counters
    <2>5. CASE join
      BY <2>1, <2>5 DEF join, ring, counters
    <2> QED
      BY <2>2, <2>3, <2>4, <2>5 DEF Stops
  <1>2. pc \in [Media \union {"main"} -> Labels] /\ to \in Labels /\ "main" \notin Media
    BY DEF PairInv, TypeOK, Labels, Media
  <1>3. /\ pc' \in [Media \union {"main"} -> Labels]
        /\ pc'["main"] = to /\ \A n \in Media : pc'[n] = pc[n]
    BY <1>1, <1>2 DEF go
  <1>4. \A n \in Media : Ready(n)' = Ready(n) /\ Used(n)' = Used(n)
    BY <1>1, <1>3 DEF Ready, Used, Held
  <1>5. TypeOK'
    BY <1>1, <1>2, <1>3, WokenType DEF PairInv, TypeOK, Labels, Media
  <1>6. InPairs' /\ RingBound'
    BY <1>1, <1>3, <1>4 DEF PairInv, InPairs, RingBound, drift, Media
  <1> QED
    BY <1>1, <1>3, <1>5, <1>6 DEF PairInv, NoneDecides, NoNeedlessCorrection, Media

LEMMA PairStutter ==
    ASSUME PairInv, UNCHANGED vars
    PROVE  PairInv'
  <1>1. UNCHANGED <<job, pc, tc_running, read, frame, ret, queue, held, sleep, audio_shift, op,
                    video_counter, audio_counter, video_cloned, video_dropped, saved, delivered>>
    BY DEF vars, ring, counters
  <1>2. TypeOK'
    BY <1>1 DEF PairInv, TypeOK
  <1>3. \A m \in Media : Ready(m)' = Ready(m) /\ Used(m)' = Used(m)
    BY <1>1 DEF Ready, Used, Held
  <1>4. InPairs' /\ RingBound'
    BY <1>1, <1>3 DEF PairInv, InPairs, RingBound, drift, Media
  <1> QED
    BY <1>1, <1>2, <1>4 DEF PairInv, NoneDecides, NoNeedlessCorrection

LEMMA PairNext == PairInv /\ [Next]_vars => PairInv'
  <1> SUFFICES ASSUME PairInv, [Next]_vars PROVE PairInv'
    OBVIOUS
  <1>1. CASE import_video
    BY <1>1, PairRegister, PairPush, PairNone, PairAdjustGet, PairAdjustDecide
    DEF import_video, import, Waits, Media
  <1>2. CASE import_audio
    BY <1>2, PairRegister, PairPush, PairShift, PairGetAudio DEF import_audio, import, Waits, Media
  <1>3. CASE export
    BY <1>3, PairClaim, PairEncode, PairStop DEF export, Stops
  <1>4. CASE UNCHANGED vars
    BY <1>4, PairStutter
  <1> QED
    BY <1>1, <1>2, <1>3, <1>4 DEF Next

(* With a margin as large as a ring no frame is ever cloned or dropped,    *)
(* however the two import threads are scheduled: the drift that the        *)
(* adjust method measures is bounded by what the rings can hold, since     *)
(* the main thread takes the frames in pairs.                              *)
THEOREM NeverCorrected == Spec => [](TypeOK /\ NoNeedlessCorrection)
  <1>1. PairInv => TypeOK /\ NoNeedlessCorrection
    BY DEF PairInv
  <1> QED
    BY PairInit, PairNext, <1>1, PTL DEF Spec

-----------------------------------------------------------------------------
(* The steps that leave sources, shift and decisions alone.                *)

Kept == UNCHANGED <<job, op, video_cloned, video_dropped, saved, audio_shift, read, frame,
                    delivered>>

LEMMA LoopStep ==
    ASSUME TypeOK, NEW m \in Media, Waits(m) \/ push_next(m)
    PROVE  /\ Kept
           /\ \A t \in Media : pc'[t] # pc[t] =>
                 /\ pc'[t] \in {"loop", "register", "get", "end"}
                 /\ pc[t] \in {"loop", "register", "push"}
  <1>1. Kept
    BY DEF Kept, Waits, import_loop, register, register_wait, register_interrupted, push_next,
           counters
  <1>2. \/ pc' = pc
        \/ \E to \in {"loop", "register", "get", "end"} :
               go(m, to) /\ pc[m] \in {"loop", "register", "push"}
    BY DEF Waits, import_loop, register, register_wait, register_interrupted, push_next
  <1> QED
    BY <1>1, <1>2 DEF go, TypeOK

LEMMA ExportStep ==
    ASSUME TypeOK, export
    PROVE  Kept /\ \A t \in Media : pc'[t] = pc[t]
  <1>1. Kept
    BY DEF Kept, export, claim, encode, tc_stop, wake_up, join, counters
  <1>2. \E to \in Labels : go("main", to)
    BY DEF export, claim, encode, tc_stop, wake_up, join, Labels
  <1> QED
    BY <1>1, <1>2 DEF go, TypeOK, Media

-----------------------------------------------------------------------------
(* The audio.                                                              *)

LEMMA AudioInit == Init => AudioInv
  <1> SUFFICES ASSUME Init PROVE AudioInv
    OBVIOUS
  <1>1. job.sync \in Int
    BY JobTypes DEF Init
  <1>2. /\ read["audio"] = 0 /\ delivered["audio"] = <<>> /\ audio_shift = job.sync
        /\ pc["audio"] = "loop"
    BY DEF Init, Both, Media
  <1>3. Len(<<>>) = 0 /\ DOMAIN <<>> = {}
    BY EmptySeq
  <1> QED
    BY <1>1, <1>2, <1>3 DEF AudioInv, ShiftInv, AudioFromShift

(* What does not touch the audio source or the shift.                      *)
LEMMA AudioQuiet ==
    ASSUME AudioInv,
           UNCHANGED <<job, audio_shift, read["audio"], delivered["audio"]>>,
           pc'["audio"] \in {"fill", "push"} => pc["audio"] = pc'["audio"]
    PROVE  AudioInv'
  <1>1. ShiftInv'
    BY DEF AudioInv, ShiftInv
  <1>2. AudioFromShift'
    BY DEF AudioInv, AudioFromShift
  <1> QED
    BY <1>1, <1>2 DEF AudioInv

(* The frames to drop are read at once.                                    *)
LEMMA AudioShifted ==
    ASSUME PairInv, AudioInv, tc_sync_audio_shift
    PROVE  AudioInv'
  <1>1. /\ audio_shift' = 0 /\ UNCHANGED <<job, delivered>>
    BY DEF tc_sync_audio_shift, shift_done
  <1>2. AudioFromShift'
    BY <1>1 DEF AudioInv, AudioFromShift
  <1>3. ShiftInv'
    <2> SUFFICES ASSUME job.sync >= 0
                 PROVE  read'["audio"] = read["audio"] + audio_shift
      BY <1>1, JobTypes DEF AudioInv, ShiftInv, PairInv, TypeOK
    <2>1. audio_shift >= 0 /\ audio_shift \in Int /\ read \in [Media -> Nat] /\ "audio" \in Media
      BY DEF AudioInv, ShiftInv, PairInv, TypeOK, Media
    <2>2. CASE audio_shift = 0
      BY <2>1, <2>2 DEF tc_sync_audio_shift
    <2>3. CASE audio_shift > 0
      <3>1. filler("audio", audio_shift)
        BY <2>1, <2>3 DEF tc_sync_audio_shift
      <3> QED
        BY <2>1, <3>1 DEF filler
    <2> QED
      BY <2>1, <2>2, <2>3
  <1> QED
    BY <1>2, <1>3 DEF AudioInv

(* The frame delivered is the next one of the source, as long as there is  *)
(* one.                                                                    *)
LEMMA AudioFilled ==
    ASSUME PairInv, AudioInv, get_audio
    PROVE  AudioInv'
  <1> DEFINE d == delivered["audio"]
             x == frame'["audio"]
  <1>1. /\ pc["audio"] = "fill" /\ UNCHANGED <<job, audio_shift>>
        /\ filler("audio", 1) /\ answer("audio", filled("audio"))
    BY DEF get_audio
  <1>2. "audio" \in Media /\ read \in [Media -> Nat] /\ d \in Seq(Int) /\ Len(d) \in Nat
    BY DEF Media, PairInv, TypeOK
  <1>3. frame' \in [Media -> Int] /\ x \in Int
    BY <1>1, <1>2, FillerTypes DEF PairInv
  <1>4. delivered'["audio"] = Append(d, x)
    BY SMTT(30), <1>1, <1>2, <1>3, AnswerTypes DEF PairInv, TypeOK, filled
  <1>5. /\ read'["audio"] = read["audio"] + 1
        /\ x = IF read'["audio"] <= job.audio THEN read'["audio"] ELSE STALE
    BY <1>1, <1>2 DEF filler, length, PairInv, TypeOK
  <1>6. /\ Len(Append(d, x)) = Len(d) + 1
        /\ DOMAIN Append(d, x) = 1 .. (Len(d) + 1) /\ DOMAIN d = 1 .. Len(d)
        /\ Append(d, x)[Len(d) + 1] = x
        /\ \A k \in 1 .. Len(d) : Append(d, x)[k] = d[k]
    BY <1>2, <1>3, AppendProperties
  <1> SUFFICES ASSUME job.sync >= 0 PROVE AudioInv'
    BY <1>1 DEF AudioInv, ShiftInv, AudioFromShift
  <1>7. /\ audio_shift = 0 /\ read["audio"] = Len(d) + job.sync
        /\ job.sync \in Int /\ job.audio \in Nat
    BY <1>1, <1>2, JobTypes DEF AudioInv, ShiftInv, PairInv, TypeOK
  <1>8. ShiftInv'
    <2>1. read'["audio"] = Len(d) + 1 + job.sync
      BY <1>2, <1>5, <1>7
    <2> QED
      BY <1>1, <1>2, <1>4, <1>6, <1>7, <2>1 DEF ShiftInv
  <1>9. AudioFromShift'
    <2> SUFFICES ASSUME NEW k \in 1 .. (Len(d) + 1)
                 PROVE  Append(d, x)[k] = IF k + job.sync <= job.audio THEN k + job.sync ELSE STALE
      BY <1>1, <1>4, <1>6 DEF AudioFromShift
    <2>1. CASE k = Len(d) + 1
      BY <1>2, <1>5, <1>6, <1>7, <2>1
    <2>2. CASE k # Len(d) + 1
      <3>1. k \in 1 .. Len(d) /\ k \in DOMAIN d
        BY <1>2, <1>6, <2>2
      <3> QED
        BY <1>6, <3>1 DEF AudioInv, AudioFromShift
    <2> QED
      BY <2>1, <2>2
  <1> QED
    BY <1>8, <1>9 DEF AudioInv

(* A step of the video thread leaves the audio alone, and the other way    *)
(* round.                                                                  *)
LEMMA FillerOther ==
    ASSUME TypeOK, NEW m \in Media, NEW n \in Media \ {m}, NEW i, filler(m, i)
    PROVE  read'[n] = read[n] /\ frame'[n] = frame[n]
  BY DEF filler, TypeOK

LEMMA AnswerOther ==
    ASSUME TypeOK, NEW m \in Media, NEW n \in Media \ {m}, NEW r, answer(m, r)
    PROVE  delivered'[n] = delivered[n]
  BY DEF answer, TypeOK

LEMMA GoOther ==
    ASSUME TypeOK, NEW t \in Media \union {"main"}, NEW u \in Media \ {t}, NEW to, go(t, to)
    PROVE  pc'[u] = pc[u]
  BY DEF go, TypeOK

LEMMA AudioNext == PairInv /\ AudioInv /\ [Next]_vars => AudioInv'
  <1> SUFFICES ASSUME PairInv, AudioInv, [Next]_vars PROVE AudioInv'
    OBVIOUS
  <1>0. "video" \in Media /\ "audio" \in Media \ {"video"} /\ "audio" \in Media \ {"main"} /\ TypeOK
    BY DEF Media, PairInv
  <1>1. CASE \E m \in Media : Waits(m) \/ push_next(m)
    <2>1. Kept /\ (pc'["audio"] \in {"fill", "push"} => pc["audio"] = pc'["audio"])
      BY <1>0, <1>1, LoopStep
    <2> QED
      BY <2>1, AudioQuiet DEF Kept
  <1>2. CASE tc_sync_none_get_video
    <2>1. /\ filler("video", 1) /\ answer("video", filled("video")) /\ go("video", "push")
          /\ UNCHANGED <<job, audio_shift>>
      BY <1>2 DEF tc_sync_none_get_video
    <2>2. /\ read'["audio"] = read["audio"] /\ delivered'["audio"] = delivered["audio"]
          /\ pc'["audio"] = pc["audio"]
      BY <1>0, <2>1, FillerOther, AnswerOther, GoOther
    <2> QED
      BY <2>1, <2>2, AudioQuiet
  <1>3. CASE adjust_get
    <2>1. /\ read' = read \/ filler("video", Reads)
          /\ go("video", "decide") /\ UNCHANGED <<job, audio_shift, delivered>>
      BY <1>3 DEF adjust_get
    <2>2. read'["audio"] = read["audio"] /\ pc'["audio"] = pc["audio"]
      BY <1>0, <2>1, FillerOther, GoOther
    <2> QED
      BY <2>1, <2>2, AudioQuiet
  <1>4. CASE adjust_decide
    <2>1. /\ answer("video", "TC_OK") /\ go("video", "push")
          /\ UNCHANGED <<job, audio_shift, read>>
      BY <1>4 DEF adjust_decide
    <2>2. delivered'["audio"] = delivered["audio"] /\ pc'["audio"] = pc["audio"]
      BY <1>0, <2>1, AnswerOther, GoOther
    <2> QED
      BY <2>1, <2>2, AudioQuiet
  <1>5. CASE export
    <2>1. Kept /\ pc'["audio"] = pc["audio"]
      BY <1>0, <1>5, ExportStep
    <2> QED
      BY <2>1, AudioQuiet DEF Kept
  <1>6. CASE UNCHANGED vars
    BY <1>6, AudioQuiet DEF vars
  <1> QED
    BY <1>1, <1>2, <1>3, <1>4, <1>5, <1>6, AudioShifted, AudioFilled
    DEF Next, import_video, import_audio, import, Waits, Media

(* With a shift of n >= 0 the audio begins with frame n + 1 and is without *)
(* a gap, for sources of every length, the end of the source included.     *)
THEOREM AudioShiftedOnce == Spec => []AudioFromShift
  <1>1. AudioInv => AudioFromShift
    BY DEF AudioInv
  <1> QED
    BY PairInit, PairNext, AudioInit, AudioNext, <1>1, PTL DEF Spec

-----------------------------------------------------------------------------
(* The video.                                                              *)

(* A sequence that an element is appended to grows by n once more exactly  *)
(* when the element is n more than the last one.                           *)
LEMMA StepsAppend ==
    ASSUME NEW d \in Seq(Int), NEW x \in Int, NEW n \in Int, d # <<>>
    PROVE  /\ Steps(d, n) \in Nat
           /\ Steps(Append(d, x), n) = Steps(d, n) + OneIf(x, d[Len(d)] + n)
  <1> DEFINE e == Append(d, x)
             S == {k \in 2 .. Len(d) : d[k] = d[k - 1] + n}
             T == {k \in 2 .. Len(e) : e[k] = e[k - 1] + n}
  <1>1. /\ Len(d) \in Nat /\ Len(d) >= 1 /\ Len(e) = Len(d) + 1
        /\ e[Len(d) + 1] = x /\ \A k \in 1 .. Len(d) : e[k] = d[k]
    BY AppendProperties, EmptySeq, LenProperties
  <1>2. IsFiniteSet(S)
    <2>1. IsFiniteSet(2 .. Len(d)) /\ S \subseteq 2 .. Len(d)
      BY <1>1, FS_Interval
    <2> QED
      BY <2>1, FS_Subset
  <1>3. Len(d) + 1 \notin S
    BY <1>1
  <1>4. \A k \in 2 .. Len(d) : e[k] = d[k] /\ e[k - 1] = d[k - 1]
    BY <1>1
  <1>5. Steps(d, n) = Cardinality(S) /\ Steps(e, n) = Cardinality(T)
    BY DEF Steps
  <1>6. Cardinality(S) \in Nat
    BY <1>2, FS_CardinalityType
  <1>7. CASE x = d[Len(d)] + n
    <2>1. T = S \union {Len(d) + 1}
      BY SMTT(30), <1>1, <1>4, <1>7
    <2> HIDE DEF S, T
    <2>2. Cardinality(T) = Cardinality(S) + 1
      BY <1>2, <1>3, <2>1, FS_AddElement
    <2> QED
      BY <1>5, <1>6, <1>7, <2>2 DEF OneIf
  <1>8. CASE x # d[Len(d)] + n
    <2>1. T = S
      BY <1>1, <1>4, <1>8
    <2> HIDE DEF S, T
    <2> QED
      BY <1>5, <1>6, <1>8, <2>1 DEF OneIf
  <1> QED
    BY <1>7, <1>8

LEMMA StepsShort ==
    ASSUME NEW x, NEW n
    PROVE  Steps(<<>>, n) = 0 /\ Steps(Append(<<>>, x), n) = 0
  <1>1. 2 .. Len(<<>>) = {} /\ 2 .. Len(Append(<<>>, x)) = {}
    OBVIOUS
  <1> QED
    BY <1>1, FS_EmptySet DEF Steps

LEMMA StreamEmpty == Stream(<<>>, 0, 0) /\ Last(<<>>) = 0
  <1>1. Steps(<<>>, 0) = 0 /\ Steps(<<>>, 2) = 0
    BY StepsShort
  <1>2. 2 .. Len(<<>>) = {} /\ Last(<<>>) = 0
    BY DEF Last
  <1> QED
    BY <1>1, <1>2 DEF Stream

(* A stream stays one when the next frame is the last, or one or two       *)
(* further.                                                                *)
LEMMA StreamAppend ==
    ASSUME NEW d \in Seq(Int), NEW x \in Int, NEW clones \in Int, NEW drops \in Int,
           Stream(d, clones, drops), x - Last(d) \in 0 .. 2, d = <<>> => x = 1
    PROVE  /\ Append(d, x) # <<>> /\ Last(Append(d, x)) = x
           /\ Stream(Append(d, x), clones + OneIf(x, Last(d)), drops + OneIf(x, Last(d) + 2))
  <1> DEFINE e == Append(d, x)
  <1>1. /\ Len(d) \in Nat /\ Len(e) = Len(d) + 1 /\ e \in Seq(Int)
        /\ e[Len(d) + 1] = x /\ \A k \in 1 .. Len(d) : e[k] = d[k] /\ d[k] \in Int
    BY AppendProperties, LenProperties
  <1>2. e # <<>> /\ Last(e) = x
    <2>1. Len(e) > 0 /\ Len(<<>>) = 0
      BY <1>1
    <2>2. e # <<>>
      BY <2>1
    <2> HIDE DEF e
    <2> QED
      BY <1>1, <2>2 DEF Last
  <1>3. CASE d = <<>>
    <2>1. Len(d) = 0 /\ Last(d) = 0 /\ x = 1
      BY <1>3 DEF Last
    <2>2. Steps(d, 0) = 0 /\ Steps(e, 0) = 0 /\ Steps(d, 2) = 0 /\ Steps(e, 2) = 0
      BY <1>3, StepsShort
    <2>3. clones = 0 /\ drops = 0
      BY <2>2 DEF Stream
    <2>4. OneIf(x, Last(d)) = 0 /\ OneIf(x, Last(d) + 2) = 0
      BY <2>1 DEF OneIf
    <2>5. Stream(e, 0, 0)
      BY <1>1, <2>1, <2>2 DEF Stream
    <2> QED
      BY <1>2, <2>3, <2>4, <2>5
  <1>4. CASE d # <<>>
    <2>1. Len(d) >= 1 /\ Last(d) = d[Len(d)] /\ Last(d) \in Int
      BY <1>1, <1>4, EmptySeq DEF Last
    <2>2. e[1] = 1
      BY <1>1, <1>4, <2>1 DEF Stream
    <2>3. ASSUME NEW k \in 2 .. Len(e) PROVE e[k] - e[k - 1] \in 0 .. 2
      <3>1. CASE k = Len(d) + 1
        BY <1>1, <2>1, <3>1
      <3>2. CASE k # Len(d) + 1
        <4>1. k \in 2 .. Len(d) /\ e[k] = d[k] /\ e[k - 1] = d[k - 1]
          BY <1>1, <3>2
        <4> QED
          BY <4>1 DEF Stream
      <3> QED
        BY <3>1, <3>2
    <2>4. /\ Steps(e, 0) = clones + OneIf(x, Last(d) + 0)
          /\ Steps(e, 2) = drops + OneIf(x, Last(d) + 2)
      BY <1>4, <2>1, StepsAppend DEF Stream
    <2>5. Last(d) + 0 = Last(d)
      BY <2>1
    <2> QED
      BY <1>2, <2>2, <2>3, <2>4, <2>5 DEF Stream
  <1> QED
    BY <1>3, <1>4

LEMMA VideoInit == Init => VideoInv
  <1> SUFFICES ASSUME Init PROVE VideoInv
    OBVIOUS
  <1>1. /\ read["video"] = 0 /\ delivered["video"] = <<>> /\ op = "none"
        /\ pc["video"] = "loop" /\ video_cloned = 0 /\ video_dropped = 0
    BY DEF Init, Both, Media
  <1>2. video_cloned - OneIf(op, "clone") = 0 /\ video_dropped - OneIf(op, "drop") = 0
    BY <1>1 DEF OneIf
  <1> QED
    BY <1>1, <1>2, StreamEmpty DEF VideoInv, Pending, Accounted

(* What does not touch the video source or the decisions.                  *)
LEMMA VideoQuiet ==
    ASSUME VideoInv,
           UNCHANGED <<job, op, video_cloned, video_dropped, saved, read["video"],
                       frame["video"], delivered["video"]>>,
           pc'["video"] = "decide" <=> pc["video"] = "decide"
    PROVE  VideoInv'
  BY DEF VideoInv, Pending, Accounted, OneIf

LEMMA LastType ==
    ASSUME NEW d \in Seq(Int)
    PROVE  Last(d) \in Int
  BY LenProperties, EmptySeq DEF Last

LEMMA VideoNone ==
    ASSUME PairInv, VideoInv, tc_sync_none_get_video
    PROVE  VideoInv'
  <1> DEFINE d == delivered["video"]
             x == frame'["video"]
  <1>1. /\ pc["video"] = "get" /\ job.method = "none" /\ go("video", "push")
        /\ filler("video", 1) /\ answer("video", filled("video"))
        /\ UNCHANGED <<job, op, video_cloned, video_dropped, saved>>
    BY DEF tc_sync_none_get_video, counters
  <1>2. /\ "video" \in Media /\ read \in [Media -> Nat] /\ d \in Seq(Int)
        /\ job.video \in Nat /\ pc'["video"] = "push"
        /\ op = "none" /\ video_cloned = 0 /\ video_dropped = 0
    BY <1>1, JobTypes DEF Media, PairInv, TypeOK, NoneDecides, go
  <1>3. frame' \in [Media -> Int] /\ x \in Int
    BY <1>1, <1>2, FillerTypes DEF PairInv
  <1>4. delivered'["video"] = Append(d, x)
    BY SMTT(30), <1>1, <1>2, <1>3, AnswerTypes DEF PairInv, TypeOK, filled
  <1>5. /\ read'["video"] = read["video"] + 1
        /\ read'["video"] <= job.video => x = read'["video"]
    BY <1>1, <1>2 DEF filler, length, PairInv, TypeOK
  <1>6. Pending'
    BY <1>1, <1>2 DEF Pending
  <1> SUFFICES ASSUME read'["video"] <= job.video PROVE Accounted(delivered["video"])'
    BY <1>1, <1>4, <1>6 DEF VideoInv
  <1>7. read["video"] = Last(d) /\ Stream(d, 0, 0)
    <2>1. Accounted(d)
      BY <1>1, <1>2, <1>5 DEF VideoInv
    <2>2. OneIf(op, "clone") = 0 /\ OneIf(op, "drop") = 0 /\ 0 - 0 = 0
      BY <1>2 DEF OneIf
    <2> QED
      BY <1>1, <1>2, <2>1, <2>2 DEF Accounted
  <1>8. Last(d) \in Nat /\ x = Last(d) + 1 /\ (d = <<>> => x = 1)
    BY <1>2, <1>5, <1>7, StreamEmpty
  <1>9. OneIf(x, Last(d)) = 0 /\ OneIf(x, Last(d) + 2) = 0
    BY <1>8 DEF OneIf
  <1>10. Last(Append(d, x)) = x /\ Stream(Append(d, x), 0 + 0, 0 + 0)
    <2>1. x - Last(d) \in 0 .. 2
      BY <1>8
    <2> QED
      <3> HIDE DEF d, x
      <3>1. PICK z \in Int : z = 0
        OBVIOUS
      <3>2. d \in Seq(Int) /\ x \in Int /\ Stream(d, z, z) /\ (d = <<>> => x = 1)
        BY <1>2, <1>3, <1>7, <1>8, <3>1
      <3>3. Last(Append(d, x)) = x /\ Stream(Append(d, x), z + OneIf(x, Last(d)), z + OneIf(x, Last(d) + 2))
        BY <2>1, <3>2, StreamAppend
      <3> QED
        BY <1>9, <3>1, <3>3
  <1>11. /\ video_cloned' - OneIf(op', "clone") = 0 + 0
         /\ video_dropped' - OneIf(op', "drop") = 0 + 0
    BY <1>1, <1>2 DEF OneIf
  <1> HIDE DEF x
  <1> QED
    BY <1>1, <1>2, <1>4, <1>5, <1>10, <1>11 DEF Accounted

(* What was decided takes effect.                                          *)
LEMMA VideoGet ==
    ASSUME PairInv, VideoInv, adjust_get
    PROVE  VideoInv'
  <1> DEFINE d == delivered["video"]
  <1>1. /\ pc["video"] = "get" /\ go("video", "decide") /\ op' = "none"
        /\ UNCHANGED <<job, video_cloned, video_dropped, saved, delivered>>
    BY DEF adjust_get, counters
  <1>2. /\ "video" \in Media /\ read \in [Media -> Nat] /\ frame \in [Media -> Int]
        /\ job.video \in Nat /\ pc'["video"] = "decide" /\ d \in Seq(Int)
        /\ op \in {"none", "clone", "drop"} /\ video_cloned \in Nat /\ video_dropped \in Nat
    BY <1>1, JobTypes DEF Media, PairInv, TypeOK, go
  <1>3. Pending'
    BY <1>1 DEF Pending
  <1>4. CASE op = "clone"
    <2>1. read' = read /\ frame'["video"] = saved /\ d # <<>>
      BY <1>2, <1>4 DEF adjust_get, VideoInv, Pending
    <2> SUFFICES ASSUME read["video"] <= job.video PROVE Accounted(d)'
      BY <1>1, <1>3, <2>1 DEF VideoInv
    <2>2. /\ saved = Last(d) /\ read["video"] = Last(d)
          /\ Stream(d, video_cloned - OneIf(op, "clone"), video_dropped - OneIf(op, "drop"))
      BY <1>1, <1>4 DEF VideoInv, Accounted
    <2>3. /\ OneIf(op, "clone") = OneIf(read'["video"], Last(d))
          /\ OneIf(op, "drop") = OneIf(read'["video"], Last(d) + 2)
      BY <1>2, <1>4, <2>1, <2>2 DEF OneIf
    <2>4. read'["video"] - Last(d) \in 0 .. 2
      BY <1>2, <2>1, <2>2
    <2> QED
      BY <1>1, <1>2, <2>1, <2>2, <2>3, <2>4 DEF Accounted
  <1>5. CASE op # "clone"
    <2>1. filler("video", Reads) /\ Reads \in 1 .. 2 /\ (Reads = 2 <=> op = "drop")
      BY <1>5 DEF adjust_get, Reads
    <2>2. /\ read'["video"] = read["video"] + Reads
          /\ read'["video"] <= job.video => frame'["video"] = read'["video"]
      <3>1. read'["video"] = read["video"] + Reads
        BY <1>2, <2>1 DEF filler
      <3>2. frame'["video"] = IF read'["video"] <= job.video THEN read'["video"] ELSE STALE
        BY <1>2, <2>1 DEF filler, length
      <3> QED
        BY <3>1, <3>2
    <2> SUFFICES ASSUME read'["video"] <= job.video PROVE Accounted(d)'
      BY <1>1, <1>3 DEF VideoInv
    <2>3. /\ read["video"] = Last(d)
          /\ Stream(d, video_cloned - OneIf(op, "clone"), video_dropped - OneIf(op, "drop"))
          /\ op = "drop" => d # <<>>
      BY <1>1, <1>2, <2>1, <2>2 DEF VideoInv, Pending, Accounted
    <2>4. Last(d) \in Nat /\ read'["video"] = Last(d) + Reads
      BY <1>2, <2>2, <2>3
    <2>5. /\ OneIf(op, "clone") = OneIf(read'["video"], Last(d))
          /\ OneIf(op, "drop") = OneIf(read'["video"], Last(d) + 2)
      BY <1>2, <1>5, <2>1, <2>4 DEF OneIf
    <2>6. d = <<>> => read'["video"] = 1
      BY <2>1, <2>3, <2>4, StreamEmpty
    <2>7. read'["video"] - Last(d) \in 0 .. 2
      BY <2>1, <2>4
    <2> QED
      BY <1>1, <1>2, <2>2, <2>3, <2>5, <2>6, <2>7 DEF Accounted
  <1> QED
    BY <1>4, <1>5

(* The frame is delivered and the next one decided for.                    *)
LEMMA VideoDecide ==
    ASSUME PairInv, VideoInv, adjust_decide
    PROVE  VideoInv'
  <1> DEFINE d == delivered["video"]
             x == frame["video"]
  <1>1. /\ pc["video"] = "decide" /\ go("video", "push") /\ answer("video", "TC_OK")
        /\ UNCHANGED <<job, read, frame>>
    BY DEF adjust_decide
  <1>2. /\ "video" \in Media /\ d \in Seq(Int) /\ x \in Int /\ pc'["video"] = "push"
        /\ video_cloned \in Nat /\ video_dropped \in Nat /\ op = "none"
    BY <1>1 DEF Media, PairInv, TypeOK, VideoInv, Pending, go
  <1>3. delivered'["video"] = Append(d, x)
    BY <1>1, <1>2, AnswerTypes DEF PairInv, TypeOK
  <1>4. \/ /\ op' = "clone" /\ saved' = x
           /\ video_cloned' = video_cloned + 1 /\ video_dropped' = video_dropped
        \/ /\ op' = "drop"
           /\ video_cloned' = video_cloned /\ video_dropped' = video_dropped + 1
        \/ /\ op' = "none"
           /\ video_cloned' = video_cloned /\ video_dropped' = video_dropped
    BY <1>2 DEF adjust_decide
  <1>5. Append(d, x) # <<>>
    BY <1>2, AppendProperties, EmptySeq, LenProperties
  <1>6. Pending'
    BY <1>2, <1>3, <1>4, <1>5 DEF Pending
  <1>7. /\ video_cloned' - OneIf(op', "clone") = video_cloned
        /\ video_dropped' - OneIf(op', "drop") = video_dropped
    BY <1>2, <1>4 DEF OneIf
  <1> SUFFICES ASSUME read["video"] <= job.video PROVE Accounted(delivered["video"])'
    BY <1>1, <1>3, <1>6 DEF VideoInv
  <1> DEFINE a == OneIf(x, Last(d))
             b == OneIf(x, Last(d) + 2)
  <1>8. /\ x = read["video"] /\ x - Last(d) \in 0 .. 2 /\ (d = <<>> => x = 1)
        /\ Stream(d, video_cloned - a, video_dropped - b)
    BY <1>1 DEF VideoInv, Accounted
  <1>9. a \in Int /\ b \in Int
    BY DEF OneIf
  <1>10. Last(Append(d, x)) = x /\ Stream(Append(d, x), video_cloned, video_dropped)
    <2>1. /\ Last(Append(d, x)) = x
          /\ Stream(Append(d, x), (video_cloned - a) + a, (video_dropped - b) + b)
      <3> HIDE DEF d, x
      <3>1. video_cloned - a \in Int /\ video_dropped - b \in Int
        BY <1>2, <1>9
      <3> QED
        BY <1>2, <1>8, <3>1, StreamAppend
    <2>2. (video_cloned - a) + a = video_cloned /\ (video_dropped - b) + b = video_dropped
      <3> HIDE DEF a, b
      <3> QED
        BY <1>2, <1>9
    <2> QED
      BY <2>1, <2>2
  <1> QED
    BY <1>1, <1>2, <1>3, <1>4, <1>7, <1>8, <1>10 DEF Accounted

LEMMA VideoNext == PairInv /\ VideoInv /\ [Next]_vars => VideoInv'
  <1> SUFFICES ASSUME PairInv, VideoInv, [Next]_vars PROVE VideoInv'
    OBVIOUS
  <1>0. "audio" \in Media /\ "video" \in Media \ {"audio"} /\ "video" \in Media \ {"main"} /\ TypeOK
    BY DEF Media, PairInv
  <1>1. CASE \E m \in Media : Waits(m) \/ push_next(m)
    <2>1. Kept /\ (pc'["video"] = "decide" <=> pc["video"] = "decide")
      BY <1>0, <1>1, LoopStep
    <2> QED
      BY <2>1, VideoQuiet DEF Kept
  <1>2. CASE tc_sync_audio_shift
    <2>1. /\ read' = read \/ filler("audio", audio_shift)
          /\ frame' = frame \/ frame' = [frame EXCEPT !["audio"] = BLANK] \/ filler("audio", audio_shift)
          /\ go("audio", "fill")
          /\ UNCHANGED <<job, op, video_cloned, video_dropped, saved, delivered>>
      BY <1>0, <1>2 DEF tc_sync_audio_shift, counters, TypeOK
    <2>2. /\ read'["video"] = read["video"] /\ frame'["video"] = frame["video"]
          /\ pc'["video"] = pc["video"]
      <3>1. frame' = [frame EXCEPT !["audio"] = BLANK] => frame'["video"] = frame["video"]
        BY <1>0 DEF TypeOK
      <3> QED
        BY <1>0, <2>1, <3>1, FillerOther, GoOther
    <2> QED
      BY <2>1, <2>2, VideoQuiet
  <1>3. CASE get_audio
    <2>1. /\ filler("audio", 1) /\ answer("audio", filled("audio")) /\ go("audio", "push")
          /\ UNCHANGED <<job, op, video_cloned, video_dropped, saved>>
      BY <1>3 DEF get_audio
    <2>2. /\ read'["video"] = read["video"] /\ frame'["video"] = frame["video"]
          /\ delivered'["video"] = delivered["video"] /\ pc'["video"] = pc["video"]
      BY <1>0, <2>1, FillerOther, AnswerOther, GoOther
    <2> QED
      BY <2>1, <2>2, VideoQuiet
  <1>4. CASE export
    <2>1. Kept /\ pc'["video"] = pc["video"]
      BY <1>0, <1>4, ExportStep DEF Media
    <2> QED
      BY <2>1, VideoQuiet DEF Kept
  <1>5. CASE UNCHANGED vars
    BY <1>5, VideoQuiet DEF vars, counters
  <1> QED
    BY <1>1, <1>2, <1>3, <1>4, <1>5, VideoNone, VideoGet, VideoDecide
    DEF Next, import_video, import_audio, import, Waits, Media

(* Every frame of the video source that was asked for is delivered once    *)
(* and in order, except that a counted drop leaves one out and a counted   *)
(* clone repeats the frame before it: for sources of every length, margins *)
(* and intervals of every size, whatever the two threads do.               *)
THEOREM EveryFrameAccounted == Spec => []VideoAccounted
  <1>1. VideoInv => VideoAccounted
    BY DEF VideoInv, Accounted, Stream, Steps, OneIf, VideoAccounted
  <1> QED
    BY PairInit, PairNext, VideoInit, VideoNext, <1>1, PTL DEF Spec

=============================================================================
