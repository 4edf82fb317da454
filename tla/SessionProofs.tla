--------------------------- MODULE SessionProofs ---------------------------
(***************************************************************************)
(* The sessions of several parts, for rings of any size and any session:   *)
(* no frame is lost or doubled by a cancellation, an interruption or a     *)
(* flush, the interruption is obeyed, and a part that begins with empty    *)
(* rings is encoded whole.                                                 *)
(***************************************************************************)
EXTENDS Session, SequenceTheorems, FiniteSetTheorems, TLAPS

USE SizeAssumption, SessionAssumption

-----------------------------------------------------------------------------
(* The labels of the threads.                                              *)
MainLabels   == {"start", "loop", "video", "audio", "encode", "leave", "cancel", "join",
                 "flush", "next", "stop", "last_cancel", "last_join", "ended"}
ImportLabels == {"none", "loop", "register", "fill", "returned", "interrupt", "done"}
EventLabels  == {"wait", "wake", "done"}
Encoding     == {"loop", "video", "audio", "encode"}
Between      == {"cancel", "join", "flush", "next"}
Busy         == {"loop", "register", "fill"}

SourceTypes ==
    /\ session \in Sessions
    /\ part \in DOMAIN session.parts /\ file \in [Media -> DOMAIN session.parts]
    /\ read \in [Media -> Nat] /\ framecount \in [Media -> Nat] /\ active \in [Media -> BOOLEAN]
    /\ \A m \in Media : read[m] <= session.parts[file[m]][m] /\ read[m] <= framecount[m]

LabelTypes ==
    /\ pc = [t \in Threads |-> pc[t]]
    /\ pc[Main] \in MainLabels /\ pc[Event] \in EventLabels
    /\ \A m \in Media : pc[m] \in ImportLabels

RingTypes ==
    /\ pool \in [Media -> [Stages -> Seq(Frames)]]
    /\ status \in [Media -> [Frames -> Stages]]
    /\ id \in [Media -> [Frames -> Nat]]
    /\ mark \in [Media -> [Frames -> {"no", "eos", "skipped"}]]
    /\ origin \in [Media -> [Frames -> Nat \X Nat]]

HandTypes ==
    /\ filling \in [Media -> Frames \union {NoFrame}]
    /\ input \in [Media -> Frames \union {NoFrame}]
    /\ sleep \in [Threads -> {"no", "asleep", "woken"}]
    /\ tc_run_status \in {"RUNNING", "STOPPED", "INTERRUPTED"}
    /\ flushed \in [Media -> 0 .. Size]

Types ==
    /\ SourceTypes /\ LabelTypes /\ RingTypes /\ HandTypes
    /\ encoded \in [DOMAIN session.parts -> Seq([Media -> Nat \X Nat])]

(* Who has a frame.  The loop is left with a video frame only when it was  *)
(* interrupted, and then no other part is begun.                           *)
GivenUp ==
    /\ tc_run_status = "INTERRUPTED"
    /\ pc[Main] \in Between \union {"leave", "stop", "last_cancel", "last_join", "ended"}
    /\ mode = "ranges" => pc[Main] \notin Between

Hands ==
    /\ \A m \in Media : filling[m] # NoFrame <=> pc[m] = "fill"
    /\ input["audio"] # NoFrame <=> pc[Main] = "encode"
    /\ pc[Main] \in {"audio", "encode"} => input["video"] # NoFrame
    /\ input["video"] # NoFrame => pc[Main] \in {"audio", "encode"} \/ GivenUp

(* What is known at the positions of the main thread.                      *)
Phases ==
    /\ pc[Main] \in Between => mode \in {"ranges", "units"} /\ (mode = "ranges" => ~LastPart)
    /\ pc[Main] \in {"start", "flush", "next"} => \A m \in Media : pc[m] \in {"none", "done"}
    /\ pc[Main] # "flush" => flushed = Both(0)
    /\ tc_run_status = "STOPPED" => pc[Main] \in {"start", "last_cancel", "last_join", "ended"}

Base == Types /\ Hands /\ Phases

(* The pools p of a ring and the hands H have every frame of it once, and  *)
(* the status of a frame in a pool is that pool.                           *)
Conserved(p, H, st) ==
    /\ \A S \in Stages : IsInjective(p[S]) /\ Range(p[S]) \intersect H = {}
    /\ \A S \in Stages : \A f \in Range(p[S]) : st[f] = S
    /\ \A f \in Frames : f \in H \/ \E S \in Stages : f \in Range(p[S])

Held(m) == {filling[m], input[m]} \ {NoFrame}

RingKept(m) ==
    /\ Conserved(pool[m], Held(m), status[m])
    /\ filling[m] = input[m] => filling[m] = NoFrame

Rings == \A m \in Media : RingKept(m)

(* What an interruption may still do.                                      *)
Obeyed ==
    /\ tc_run_status = "INTERRUPTED" => pc[Event] # "wait"
    /\ late \in {0, 1}
    /\ late = 1 => pc[Event] # "wait"
    /\ late = 1 /\ tc_run_status = "INTERRUPTED" => pc[Main] \notin {"video", "audio", "encode"}

(* The parts to come have not been encoded.                                *)
Later ==
    \A k \in DOMAIN session.parts :
        part < k \/ (part = k /\ pc[Main] = "start") => encoded[k] = <<>>

(* What PartWhole takes for granted, but for where the part starts.        *)
Quiet ==
    /\ pc[Event] = "wait"
    /\ CleanBefore(part)
    /\ part = 1 \/ mode = "units"
    /\ \A k \in 2 .. part : Endless(k)
    /\ mode = "directory" => Len(session.parts) = 1

Ready(m) == pool[m]["READY"]

(* How many frames of the part a source has put into its ring, how many of *)
(* them the main thread has taken, and how many it is done with.           *)
Made(m)  == read[m] + (IF active[m] THEN 0 ELSE 1)
Taken(m) == Made(m) - Len(Ready(m))
Done(m)  == Taken(m) - (IF input[m] = NoFrame THEN 0 ELSE 1)

Limit == Least({ThisPart.last, ThisPart.video, ThisPart.audio})

(* The frame f is the one at position p of the part.                       *)
Placed(m, f, p) ==
    /\ origin[m][f] = <<part, p>>
    /\ id[m][f] = (framecount[m] - read[m]) + p
    /\ mark[m][f] = IF p = ThisPart[m] THEN "eos" ELSE "no"

(* The line of frames from a source to the main thread.                    *)
Line(m) ==
    /\ file[m] = part
    /\ pc[m] \in IF active[m] THEN Busy ELSE {"returned", "interrupt", "done"}
    /\ ~active[m] => read[m] = ThisPart[m]
    /\ part = 1 => framecount[m] = read[m]
    /\ pc[m] = "fill" => id[m][filling[m]] = framecount[m] /\ mark[m][filling[m]] = "no"
    /\ \A i \in DOMAIN Ready(m) : Placed(m, Ready(m)[i], (Taken(m) + i) - 1)
    /\ input[m] # NoFrame => Placed(m, input[m], Taken(m) - 1)

(* The first n pairs of the part have been encoded.                        *)
Encodes(n) ==
    /\ Len(encoded[part]) = IF n <= ThisPart.first THEN 0 ELSE n - ThisPart.first
    /\ \A i \in DOMAIN encoded[part] : \A m \in Media :
          encoded[part][i][m] = <<part, (ThisPart.first + i) - 1>>

InLoop ==
    pc[Main] \in Encoding \union {"leave"} =>
        /\ \A m \in Media : Line(m)
        /\ Done("video") = Done("audio") /\ Done("audio") \in Nat
        /\ IF pc[Main] = "leave" THEN Done("audio") = Limit + 1 ELSE Done("audio") <= Limit
        /\ part = 1 \/ ThisPart.first = 0 =>
              Encodes(IF pc[Main] = "leave" THEN Limit ELSE Done("audio"))

(* What a part leaves behind, and that the flush frees it if it is one     *)
(* frame.                                                                  *)
LeftOver ==
    \A m \in Media :
        /\ pc[Main] \in {"cancel", "join"} =>
              /\ file[m] = part
              /\ Len(Ready(m)) + Pairs(ThisPart) <= read[m] + (IF pc[m] \in Busy THEN 0 ELSE 1)
        /\ pc[Main] = "flush" /\ LeavesAtMost(part, 1) =>
              /\ Len(Ready(m)) <= 1
              /\ Ready(m) # <<>> => flushed[m] < Head(Ready(m))
        /\ pc[Main] = "next" /\ LeavesAtMost(part, 1) => Ready(m) = <<>>
        /\ pc[Main] = "start" => Ready(m) = <<>> /\ (part = 1 => framecount[m] = 0)

Course == Later /\ (Quiet => InLoop /\ LeftOver)

IInv == Base /\ Rings /\ Obeyed /\ Course

-----------------------------------------------------------------------------
(* The threads, the session and the sequences.                             *)

LEMMA ThreadFacts ==
    /\ Main \in Threads /\ Event \in Threads /\ Media \subseteq Threads
    /\ Main # Event /\ Main \notin Media /\ Event \notin Media
    /\ "video" \in Media /\ "audio" \in Media /\ "video" # "audio"
    /\ \A t \in Threads : t \in Media \/ t = Main \/ t = Event
    /\ \A m \in Media : m = "video" \/ m = "audio"
    /\ NoFrame \notin Frames
  BY DEF Main, Event, Threads, Media, Frames, NoFrame

(* What is known of a session.                                             *)
LEMMA SessionFacts ==
    ASSUME session \in Sessions
    PROVE  /\ session.parts \in Seq(PartType) /\ session.parts # <<>>
           /\ mode \in {"ranges", "units", "directory"}
           /\ Len(session.parts) \in Nat \ {0}
           /\ DOMAIN session.parts = 1 .. Len(session.parts)
           /\ \A k \in DOMAIN session.parts :
                /\ session.parts[k].first \in Nat /\ session.parts[k].last \in Nat
                /\ \A m \in Media : session.parts[k][m] \in Nat
  <1>1. session.parts \in Seq(PartType) /\ session.parts # <<>>
        /\ session.mode \in {"ranges", "units", "directory"}
    BY SessionAssumption DEF SessionType
  <1>2. \A p \in PartType : p.first \in Nat /\ p.last \in Nat /\ \A m \in Media : p[m] \in Nat
    BY DEF PartType, Media
  <1>3. \A k \in DOMAIN session.parts : session.parts[k] \in PartType
    BY <1>1
  <1> QED
    BY <1>1, <1>2, <1>3 DEF mode

(* A signal wakes sleepers, and does nothing else.                         *)
LEMMA SignalledType ==
    ASSUME sleep \in [Threads -> {"no", "asleep", "woken"}], NEW P
    PROVE  Signalled(P) \in [Threads -> {"no", "asleep", "woken"}]
  BY DEF Signalled

(* A sequence with one more element, f, at position i.                     *)
Inserted(s, i, f, q) ==
    /\ Len(q) = Len(s) + 1
    /\ q[i] = f
    /\ \A k \in 1 .. i - 1 : q[k] = s[k]
    /\ \A k \in i + 1 .. Len(s) + 1 : q[k] = s[k - 1]

LEMMA AppendInserts ==
    ASSUME NEW R, NEW s \in Seq(R), NEW f \in R
    PROVE  Append(s, f) \in Seq(R) /\ Inserted(s, Len(s) + 1, f, Append(s, f))
  <1>1. Append(s, f) \in Seq(R) /\ Len(Append(s, f)) = Len(s) + 1
        /\ Append(s, f)[Len(s) + 1] = f /\ Len(s) \in Nat
    OBVIOUS
  <1>2. \A k \in 1 .. Len(s) : Append(s, f)[k] = s[k]
    OBVIOUS
  <1>3. \A k \in (Len(s) + 1) + 1 .. Len(s) + 1 : FALSE
    BY <1>1
  <1> QED
    BY <1>1, <1>2, <1>3 DEF Inserted

LEMMA InsertAtInserts ==
    ASSUME NEW R, NEW s \in Seq(R), NEW f \in R, NEW i \in 1 .. Len(s) + 1
    PROVE  InsertAt(s, i, f) \in Seq(R) /\ Inserted(s, i, f, InsertAt(s, i, f))
  <1> DEFINE a == SubSeq(s, 1, i - 1)
             c == SubSeq(s, i, Len(s))
  <1>1. Len(s) \in Nat /\ i \in Nat /\ 1 <= i /\ i <= Len(s) + 1
    OBVIOUS
  <1>2. a \in Seq(R) /\ Len(a) = i - 1 /\ \A k \in 1 .. i - 1 : a[k] = s[k]
    BY <1>1
  <1>3. c \in Seq(R) /\ Len(c) = Len(s) + 1 - i
        /\ \A k \in 1 .. Len(s) + 1 - i : c[k] = s[i + k - 1]
    BY <1>1
  <1> DEFINE b == <<f>>
             ab == a \o b
  <1>4. b \in Seq(R) /\ Len(b) = 1 /\ b[1] = f
    OBVIOUS
  <1> HIDE DEF a, b, c
  <1>5. ab \in Seq(R) /\ Len(ab) = i /\ ab[i] = f /\ \A k \in 1 .. i - 1 : ab[k] = s[k]
    <2>1. /\ ab \in Seq(R) /\ Len(ab) = Len(a) + Len(b)
          /\ \A k \in 1 .. Len(a) + Len(b) : ab[k] = IF k <= Len(a) THEN a[k] ELSE b[k - Len(a)]
      BY <1>2, <1>4, ConcatProperties
    <2>2. Len(ab) = i /\ ab[i] = b[1]
      BY <1>1, <1>2, <1>4, <2>1
    <2>3. \A k \in 1 .. i - 1 : ab[k] = a[k]
      BY <1>1, <1>2, <1>4, <2>1
    <2> QED
      BY <1>2, <1>4, <2>1, <2>2, <2>3
  <1> HIDE DEF ab
  <1> DEFINE q == ab \o c
  <1>6. q \in Seq(R) /\ Len(q) = Len(s) + 1 /\ \A k \in 1 .. i : q[k] = ab[k]
    <2>1. /\ q \in Seq(R) /\ Len(q) = Len(ab) + Len(c)
          /\ \A k \in 1 .. Len(ab) + Len(c) : q[k] = IF k <= Len(ab) THEN ab[k] ELSE c[k - Len(ab)]
      BY <1>3, <1>5, ConcatProperties
    <2> QED
      BY <1>1, <1>3, <1>5, <2>1
  <1>7. \A k \in i + 1 .. Len(s) + 1 : q[k] = c[k - i]
    <2>1. \A k \in 1 .. Len(ab) + Len(c) : q[k] = IF k <= Len(ab) THEN ab[k] ELSE c[k - Len(ab)]
      BY <1>3, <1>5, ConcatProperties
    <2> QED
      BY <1>1, <1>3, <1>5, <2>1
  <1>8. \A k \in i + 1 .. Len(s) + 1 : k - i \in 1 .. Len(s) + 1 - i /\ i + (k - i) - 1 = k - 1
    BY <1>1
  <1>9. \A k \in i + 1 .. Len(s) + 1 : q[k] = s[k - 1]
    BY <1>3, <1>7, <1>8
  <1>10. InsertAt(s, i, f) = q
    BY DEF InsertAt, a, b, ab, c
  <1> HIDE DEF q
  <1>11. q[i] = f /\ \A k \in 1 .. i - 1 : q[k] = s[k]
    BY <1>1, <1>5, <1>6
  <1> QED
    BY <1>6, <1>9, <1>10, <1>11 DEF Inserted

(* What a put makes of the elements of a sequence.                         *)
LEMMA InsertedElements ==
    ASSUME NEW R, NEW s \in Seq(R), NEW q \in Seq(R), NEW f, NEW i \in 1 .. Len(s) + 1,
           Inserted(s, i, f, q)
    PROVE  /\ Range(q) = Range(s) \union {f}
           /\ IsInjective(s) /\ f \notin Range(s) => IsInjective(q)
  <1>1. /\ Len(s) \in Nat /\ i \in Nat /\ 1 <= i /\ i <= Len(s) + 1
        /\ DOMAIN s = 1 .. Len(s) /\ DOMAIN q = 1 .. Len(s) + 1
    BY DEF Inserted
  <1>2. \A k \in DOMAIN q : \/ k = i /\ q[k] = f
                            \/ k < i /\ k \in DOMAIN s /\ q[k] = s[k]
                            \/ k > i /\ k - 1 \in DOMAIN s /\ q[k] = s[k - 1]
    BY <1>1 DEF Inserted
  <1>3. \A k \in DOMAIN s : \/ k < i /\ k \in DOMAIN q /\ q[k] = s[k]
                            \/ k >= i /\ k + 1 \in DOMAIN q /\ q[k + 1] = s[k]
    <2> SUFFICES ASSUME NEW k \in DOMAIN s
                 PROVE  \/ k < i /\ k \in DOMAIN q /\ q[k] = s[k]
                        \/ k >= i /\ k + 1 \in DOMAIN q /\ q[k + 1] = s[k]
      OBVIOUS
    <2>1. k \in 1 .. i - 1 \/ k + 1 \in i + 1 .. Len(s) + 1
      BY <1>1
    <2>2. (k + 1) - 1 = k
      BY <1>1
    <2> QED
      BY <1>1, <2>1, <2>2 DEF Inserted
  <1>4. i \in DOMAIN q /\ q[i] = f
    BY <1>1 DEF Inserted
  <1>5. Range(q) = Range(s) \union {f}
    <2>1. ASSUME NEW x \in Range(q) PROVE x \in Range(s) \/ x = f
      BY <1>2 DEF Range
    <2>2. ASSUME NEW x \in Range(s) PROVE x \in Range(q)
      BY <1>3 DEF Range
    <2>3. f \in Range(q)
      BY <1>4 DEF Range
    <2> QED
      BY <2>1, <2>2, <2>3
  <1>6. IsInjective(s) /\ f \notin Range(s) => IsInjective(q)
    BY <1>1, <1>2 DEF IsInjective, Range
  <1> QED
    BY <1>5, <1>6

(* What a claim makes of them.                                             *)
LEMMA TailElements ==
    ASSUME NEW R, NEW s \in Seq(R), s # <<>>
    PROVE  /\ Tail(s) \in Seq(R) /\ Len(Tail(s)) = Len(s) - 1
           /\ Head(s) \in R
           /\ Range(s) = Range(Tail(s)) \union {Head(s)}
           /\ IsInjective(s) => IsInjective(Tail(s)) /\ Head(s) \notin Range(Tail(s))
  <1>1. /\ Len(s) \in Nat /\ Len(s) > 0 /\ DOMAIN s = 1 .. Len(s)
        /\ Tail(s) \in Seq(R) /\ Len(Tail(s)) = Len(s) - 1 /\ DOMAIN Tail(s) = 1 .. Len(s) - 1
        /\ Head(s) = s[1] /\ Head(s) \in R
    OBVIOUS
  <1>2. \A k \in 1 .. Len(s) - 1 : Tail(s)[k] = s[k + 1]
    BY <1>1
  <1>3. \A k \in DOMAIN s : k = 1 \/ (k - 1 \in DOMAIN Tail(s) /\ Tail(s)[k - 1] = s[k])
    BY <1>1, <1>2
  <1>4. Range(s) = Range(Tail(s)) \union {Head(s)}
    <2>1. ASSUME NEW x \in Range(s) PROVE x \in Range(Tail(s)) \/ x = Head(s)
      BY <1>1, <1>3 DEF Range
    <2>2. ASSUME NEW x \in Range(Tail(s)) PROVE x \in Range(s)
      BY <1>1, <1>2 DEF Range
    <2>3. Head(s) \in Range(s)
      BY <1>1 DEF Range
    <2> QED
      BY <2>1, <2>2, <2>3
  <1>5. IsInjective(s) => IsInjective(Tail(s)) /\ Head(s) \notin Range(Tail(s))
    BY <1>1, <1>2 DEF IsInjective, Range
  <1> QED
    BY <1>1, <1>4, <1>5

-----------------------------------------------------------------------------
(* The conservation of the frames of one ring.                             *)

(* The frames but f have the same status.                                  *)
Agree(st, st1, f) == \A g \in Frames : g # f => st1[g] = st[g]

(* A frame that is taken from a pool is in the hands, ...                  *)
LEMMA TakeKeeps ==
    ASSUME NEW p \in [Stages -> Seq(Frames)], NEW H, NEW st, Conserved(p, H, st),
           NEW S \in Stages, p[S] # <<>>,
           NEW st1, Agree(st, st1, Head(p[S]))
    PROVE  /\ Head(p[S]) \in Frames /\ Head(p[S]) \notin H
           /\ [p EXCEPT ![S] = Tail(@)] \in [Stages -> Seq(Frames)]
           /\ Conserved([p EXCEPT ![S] = Tail(@)], H \union {Head(p[S])}, st1)
  <1> DEFINE f == Head(p[S])
             r == [p EXCEPT ![S] = Tail(@)]
  <1>1. p[S] \in Seq(Frames) /\ IsInjective(p[S])
    BY DEF Conserved
  <1>2. /\ Tail(p[S]) \in Seq(Frames) /\ f \in Frames
        /\ Range(p[S]) = Range(Tail(p[S])) \union {f}
        /\ IsInjective(Tail(p[S])) /\ f \notin Range(Tail(p[S]))
    BY <1>1, TailElements
  <1>3. r \in [Stages -> Seq(Frames)] /\ r[S] = Tail(p[S]) /\ \A T \in Stages : T # S => r[T] = p[T]
    BY <1>2
  <1> HIDE DEF f, r
  <1>4. \A T \in Stages : \A g \in Range(p[T]) : g \in Frames /\ st[g] = T
    <2>1. \A T \in Stages : p[T] \in Seq(Frames)
      OBVIOUS
    <2> QED
      BY <2>1 DEF Range, Conserved
  <1>5. f \notin H
    BY <1>2 DEF Conserved
  <1>6. \A T \in Stages : T # S => f \notin Range(p[T])
    BY <1>2, <1>4
  <1>7. \A T \in Stages : IsInjective(r[T]) /\ Range(r[T]) \intersect (H \union {f}) = {}
    <2>1. \A T \in Stages : IsInjective(p[T]) /\ Range(p[T]) \intersect H = {}
      BY DEF Conserved
    <2>2. IsInjective(r[S]) /\ Range(r[S]) \intersect (H \union {f}) = {}
      BY <1>2, <1>3, <2>1
    <2>3. \A T \in Stages : T # S => IsInjective(r[T]) /\ Range(r[T]) \intersect (H \union {f}) = {}
      BY <1>3, <1>6, <2>1
    <2> QED
      BY <2>2, <2>3
  <1>8. \A T \in Stages : \A g \in Range(r[T]) : st1[g] = T
    <2>1. \A T \in Stages : \A g \in Range(r[T]) : g \in Range(p[T]) /\ g # f
      BY <1>2, <1>3, <1>6
    <2>2. \A g \in Frames : g # f => st1[g] = st[g]
      BY DEF f, Agree
    <2> QED
      BY <1>4, <2>1, <2>2
  <1>9. \A g \in Frames : g \in H \union {f} \/ \E T \in Stages : g \in Range(r[T])
    BY <1>2, <1>3 DEF Conserved
  <1>10. Conserved(r, H \union {f}, st1)
    BY <1>7, <1>8, <1>9 DEF Conserved
  <1> QED
    BY <1>2, <1>3, <1>5, <1>10 DEF f, r

(* ... and one that is put into a pool, with the status of that pool, is   *)
(* not any more.                                                           *)
LEMMA PutKeeps ==
    ASSUME NEW p \in [Stages -> Seq(Frames)], NEW H, NEW st, Conserved(p, H, st),
           NEW S \in Stages, NEW f \in Frames, f \in H,
           NEW i \in 1 .. Len(p[S]) + 1, NEW q \in Seq(Frames), Inserted(p[S], i, f, q),
           NEW st1, st1[f] = S, Agree(st, st1, f)
    PROVE  /\ [p EXCEPT ![S] = q] \in [Stages -> Seq(Frames)]
           /\ Conserved([p EXCEPT ![S] = q], H \ {f}, st1)
  <1> DEFINE r == [p EXCEPT ![S] = q]
  <1>1. p[S] \in Seq(Frames) /\ IsInjective(p[S]) /\ f \notin Range(p[S])
    BY DEF Conserved
  <1>2. Range(q) = Range(p[S]) \union {f} /\ IsInjective(q)
    BY <1>1, InsertedElements
  <1>3. r \in [Stages -> Seq(Frames)] /\ r[S] = q /\ \A T \in Stages : T # S => r[T] = p[T]
    OBVIOUS
  <1> HIDE DEF r
  <1>4. \A T \in Stages : \A g \in Range(p[T]) : g \in Frames /\ st[g] = T /\ g # f
    <2>1. \A T \in Stages : p[T] \in Seq(Frames)
      OBVIOUS
    <2> QED
      BY <2>1 DEF Range, Conserved
  <1>5. \A T \in Stages : IsInjective(r[T]) /\ Range(r[T]) \intersect (H \ {f}) = {}
    BY <1>2, <1>3, <1>4 DEF Conserved
  <1>6. \A T \in Stages : \A g \in Range(r[T]) : st1[g] = T
    <2>1. \A g \in Range(q) : g = f \/ (g \in Frames /\ g # f /\ st[g] = S)
      BY <1>2, <1>4
    <2>2. \A g \in Range(r[S]) : st1[g] = S
      BY <1>3, <2>1 DEF Agree
    <2>3. \A T \in Stages : T # S => \A g \in Range(r[T]) : st1[g] = T
      BY <1>3, <1>4 DEF Agree
    <2> QED
      BY <2>2, <2>3
  <1>7. \A g \in Frames : g \in H \ {f} \/ \E T \in Stages : g \in Range(r[T])
    BY <1>2, <1>3 DEF Conserved
  <1>8. Conserved(r, H \ {f}, st1)
    BY <1>5, <1>6, <1>7 DEF Conserved
  <1> QED
    BY <1>3, <1>8 DEF r

(* Appending puts.                                                         *)
LEMMA AppendKeeps ==
    ASSUME NEW p \in [Stages -> Seq(Frames)], NEW H, NEW st, Conserved(p, H, st),
           NEW S \in Stages, NEW f \in Frames, f \in H,
           NEW st1, st1[f] = S, Agree(st, st1, f)
    PROVE  /\ [p EXCEPT ![S] = Append(@, f)] \in [Stages -> Seq(Frames)]
           /\ Conserved([p EXCEPT ![S] = Append(@, f)], H \ {f}, st1)
  <1>1. p[S] \in Seq(Frames) /\ Len(p[S]) + 1 \in 1 .. Len(p[S]) + 1
    OBVIOUS
  <1>2. Append(p[S], f) \in Seq(Frames) /\ Inserted(p[S], Len(p[S]) + 1, f, Append(p[S], f))
    BY <1>1, AppendInserts
  <1>3. [p EXCEPT ![S] = Append(p[S], f)] \in [Stages -> Seq(Frames)]
        /\ Conserved([p EXCEPT ![S] = Append(p[S], f)], H \ {f}, st1)
    BY <1>1, <1>2, PutKeeps
  <1> QED
    BY <1>3

(* A frame that is moved from one pool into NULL.                          *)
LEMMA MoveKeeps ==
    ASSUME NEW p \in [Stages -> Seq(Frames)], NEW H, NEW st \in [Frames -> Stages], Conserved(p, H, st),
           NEW S \in Stages \ {"NULL"}, p[S] # <<>>
    PROVE  LET f == Head(p[S])
               r == [p EXCEPT ![S] = Tail(@), !["NULL"] = Append(@, f)]
           IN  /\ f \in Frames
               /\ r \in [Stages -> Seq(Frames)]
               /\ Conserved(r, H, [st EXCEPT ![f] = "NULL"])
  <1> DEFINE f == Head(p[S])
             r == [p EXCEPT ![S] = Tail(@)]
             t == [st EXCEPT ![f] = "NULL"]
  <1>1. "NULL" \in Stages
    BY DEF Stages
  <1>2. f \in Frames /\ f \notin H /\ r \in [Stages -> Seq(Frames)] /\ Conserved(r, H \union {f}, st)
    BY TakeKeeps DEF Agree
  <1>3. t[f] = "NULL" /\ Agree(st, t, f) /\ Agree(st, st, f)
    BY <1>2 DEF Agree
  <1> HIDE DEF f, r, t
  <1> DEFINE G == H \union {f}
  <1> HIDE DEF G
  <1>4. /\ [r EXCEPT !["NULL"] = Append(@, f)] \in [Stages -> Seq(Frames)]
        /\ Conserved([r EXCEPT !["NULL"] = Append(@, f)], G \ {f}, t)
    <2>1. f \in G /\ Conserved(r, G, st)
      BY <1>2 DEF G
    <2> QED
      BY <1>1, <1>2, <1>3, <2>1, AppendKeeps
  <1>5. G \ {f} = H
    BY <1>2 DEF G
  <1>6. [r EXCEPT !["NULL"] = Append(@, f)] = [p EXCEPT ![S] = Tail(@), !["NULL"] = Append(@, f)]
    BY <1>1 DEF r
  <1> QED
    BY <1>2, <1>4, <1>5, <1>6 DEF f, t

(* Conserved frames are in one place each.                                 *)
LEMMA OnePlace ==
    ASSUME Types, Rings, NEW m \in Media, NEW f \in Frames
    PROVE  Cardinality(Places(m, f)) = 1
  <1> DEFINE In(S) == {S} \X {i \in DOMAIN pool[m][S] : pool[m][S][i] = f}
             Filled == {p \in {<<"filling", 0>>} : filling[m] = f}
             Had    == {p \in {<<"input", 0>>} : input[m] = f}
             Pools == UNION {In(S) : S \in Stages}
  <1>1. /\ Conserved(pool[m], Held(m), status[m]) /\ f # NoFrame
        /\ filling[m] = input[m] => filling[m] = NoFrame
    BY DEF Rings, RingKept, Frames, NoFrame
  <1>2. Places(m, f) = Pools \union Filled \union Had
    BY DEF Places
  <1>3. \E x : Places(m, f) = {x}
    <2>1. CASE f \in Held(m)
      <3>1. \A S \in Stages : In(S) = {}
        <4>1. \A S \in Stages : f \notin Range(pool[m][S])
          BY <1>1, <2>1 DEF Conserved
        <4>2. \A S \in Stages : \A i \in DOMAIN pool[m][S] : pool[m][S][i] # f
          BY <4>1 DEF Range
        <4> QED
          BY <4>2
      <3>2. Places(m, f) = Filled \union Had
        <4>1. Pools = {}
          BY <3>1
        <4> HIDE DEF Pools
        <4> QED
          BY <1>2, <4>1
      <3>3. CASE filling[m] = f
        BY <1>1, <3>2, <3>3
      <3>4. CASE input[m] = f
        BY <1>1, <3>2, <3>4
      <3> QED
        BY <2>1, <3>3, <3>4 DEF Held
    <2>2. CASE f \notin Held(m)
      <3>1. Filled = {} /\ Had = {}
        BY <1>1, <2>2 DEF Held
      <3>2. PICK S \in Stages : f \in Range(pool[m][S])
        BY <1>1, <2>2 DEF Conserved
      <3>3. PICK i \in DOMAIN pool[m][S] : pool[m][S][i] = f
        BY <3>2 DEF Range
      <3>4. In(S) = {<<S, i>>}
        <4>1. \A j \in DOMAIN pool[m][S] : pool[m][S][j] = f => j = i
          BY <1>1, <3>3 DEF Conserved, IsInjective
        <4> QED
          BY <3>3, <4>1
      <3>5. \A T \in Stages : T # S => In(T) = {}
        <4>1. \A T \in Stages : f \in Range(pool[m][T]) => status[m][f] = T
          BY <1>1 DEF Conserved
        <4>2. status[m][f] = S
          BY <3>2, <4>1
        <4>3. \A T \in Stages : \A j \in DOMAIN pool[m][T] : pool[m][T][j] = f => f \in Range(pool[m][T])
          BY DEF Range
        <4> QED
          BY <4>1, <4>2, <4>3
      <3>6. Pools = {<<S, i>>}
        <4> HIDE DEF In
        <4> QED
          BY <3>4, <3>5
      <3>7. Places(m, f) = {<<S, i>>}
        <4> HIDE DEF Pools
        <4> QED
          BY <1>2, <3>1, <3>6
      <3> QED
        BY <3>7
    <2> QED
      BY <2>1, <2>2
  <1> QED
    BY <1>3, FS_Singleton

LEMMA Conservation == Types /\ Rings => FramesConserved
  <1> SUFFICES ASSUME Types, Rings, NEW m \in Media, NEW f \in Frames
               PROVE  /\ Cardinality(Places(m, f)) = 1
                      /\ \A S \in Stages :
                            f \in {pool[m][S][i] : i \in DOMAIN pool[m][S]} => status[m][f] = S
    BY DEF FramesConserved
  <1>1. \A S \in Stages : f \in Range(pool[m][S]) => status[m][f] = S
    BY DEF Rings, RingKept, Conserved
  <1> QED
    BY <1>1, OnePlace DEF Range

-----------------------------------------------------------------------------
(* What the operations of the pools do to them.                            *)

LEMMA ClaimTypes ==
    ASSUME RingTypes, NEW m \in Media, NEW S \in Stages, pool[m][S] # <<>>
    PROVE  /\ Head(pool[m][S]) \in Frames
           /\ [pool EXCEPT ![m][S] = Tail(@)] \in [Media -> [Stages -> Seq(Frames)]]
  <1>1. pool[m][S] \in Seq(Frames) /\ Tail(pool[m][S]) \in Seq(Frames) /\ Head(pool[m][S]) \in Frames
    BY DEF RingTypes
  <1> QED
    BY <1>1 DEF RingTypes

LEMMA MoveTypes ==
    ASSUME RingTypes, NEW m \in Media, NEW S \in Stages, "NULL" \in Stages, pool[m][S] # <<>>
    PROVE  LET f == Head(pool[m][S])
           IN  /\ [pool EXCEPT ![m][S] = Tail(@), ![m]["NULL"] = Append(@, f)]
                     \in [Media -> [Stages -> Seq(Frames)]]
               /\ [status EXCEPT ![m][f] = "NULL"] \in [Media -> [Frames -> Stages]]
  <1> DEFINE f == Head(pool[m][S])
             r == [pool EXCEPT ![m][S] = Tail(@)]
  <1>1. f \in Frames /\ r \in [Media -> [Stages -> Seq(Frames)]]
    BY ClaimTypes
  <1>2. [pool EXCEPT ![m][S] = Tail(@), ![m]["NULL"] = Append(@, f)] = [r EXCEPT ![m]["NULL"] = Append(@, f)]
    BY DEF RingTypes
  <1>3. Append(r[m]["NULL"], f) \in Seq(Frames)
    BY <1>1
  <1> HIDE DEF f, r
  <1>4. [r EXCEPT ![m]["NULL"] = Append(@, f)] \in [Media -> [Stages -> Seq(Frames)]]
    BY <1>1, <1>3
  <1>5. [status EXCEPT ![m][f] = "NULL"] \in [Media -> [Frames -> Stages]]
    BY <1>1 DEF RingTypes
  <1> QED
    BY <1>2, <1>4, <1>5 DEF f

(* A frame that is pushed is inserted between those with a lower or the    *)
(* same id and those with a higher or the same one.                        *)
LEMMA Pushed ==
    ASSUME RingTypes, NEW m \in Media, NEW f \in Frames, push_next(m, f)
    PROVE  \E i \in 1 .. Len(Ready(m)) + 1, q \in Seq(Frames) :
              /\ Inserted(Ready(m), i, f, q)
              /\ \A k \in 1 .. i - 1 : id[m][Ready(m)[k]] <= id[m][f]
              /\ \A k \in i .. Len(Ready(m)) : id[m][f] <= id[m][Ready(m)[k]]
              /\ pool' = [pool EXCEPT ![m]["READY"] = q]
  <1>1. PICK q \in Queued(m, "READY", f) : pool' = [pool EXCEPT ![m]["READY"] = q]
    BY DEF push_next
  <1>2. PICK i \in 1 .. Len(Ready(m)) + 1 :
            /\ q = InsertAt(Ready(m), i, f)
            /\ \A k \in 1 .. i - 1 : id[m][Ready(m)[k]] <= id[m][f]
            /\ \A k \in i .. Len(Ready(m)) : id[m][f] <= id[m][Ready(m)[k]]
    BY <1>1 DEF Queued, Ready
  <1>3. Ready(m) \in Seq(Frames)
    BY DEF RingTypes, Ready, Stages
  <1>4. q \in Seq(Frames) /\ Inserted(Ready(m), i, f, q)
    BY <1>2, <1>3, InsertAtInserts
  <1> QED
    BY <1>1, <1>2, <1>4

-----------------------------------------------------------------------------
(* The types, the hands and the phases.                                    *)

LEMMA InitBase == Init => Base
  <1> SUFFICES ASSUME Init PROVE Base
    OBVIOUS
  <1>1. SourceTypes /\ LabelTypes /\ RingTypes /\ HandTypes
    <2>1. SourceTypes
      BY ThreadFacts, SessionFacts DEF Init, SourceTypes, Both
    <2>2. LabelTypes
      BY ThreadFacts DEF Init, LabelTypes, MainLabels, EventLabels, ImportLabels
    <2>3. RingTypes
      <3>1. [i \in Frames |-> i] \in Seq(Frames) /\ <<>> \in Seq(Frames)
        BY DEF Frames
      <3>2. \A S \in Stages : (IF S = "NULL" THEN [i \in Frames |-> i] ELSE <<>>) \in Seq(Frames)
        BY <3>1
      <3>3. pool \in [Media -> [Stages -> Seq(Frames)]]
        BY <3>2 DEF Init, Both
      <3> QED
        BY <3>3 DEF Init, RingTypes, Both, Stages
    <2>4. HandTypes
      BY DEF Init, HandTypes, Both
    <2> QED
      BY <2>1, <2>2, <2>3, <2>4
  <1>2. Types
    BY <1>1 DEF Init, Types
  <1>3. Hands
    BY ThreadFacts DEF Init, Hands, GivenUp, Both
  <1>4. Phases
    BY ThreadFacts DEF Init, Phases, Both, Between
  <1> QED
    BY <1>2, <1>3, <1>4 DEF Base

LEMMA ImportBase ==
    ASSUME Base, NEW m \in Media, Import(m)
    PROVE  Base'
  <1>f. /\ SourceTypes /\ LabelTypes /\ RingTypes /\ HandTypes /\ Hands /\ Phases
        /\ encoded \in [DOMAIN session.parts -> Seq([Media -> Nat \X Nat])]
    BY DEF Base, Types
  <1>1. CASE import_loop(m)
    <2>1. LabelTypes'
      BY <1>f, <1>1, ThreadFacts DEF import_loop, tc_running, Goto, MainLabels, ImportLabels, EventLabels, LabelTypes, ring, source, hands, history
    <2>2. Types'
      BY <1>f, <1>1, <2>1 DEF import_loop, Types, SourceTypes, RingTypes, HandTypes, ring, source, hands, history
    <2>3. Hands'
      BY <1>f, <1>1, ThreadFacts DEF import_loop, tc_running, Goto, LabelTypes, HandTypes, Hands, Phases, tc_running, GivenUp, Between, Media, mode, ring, source, hands, history
    <2>4. Phases'
      BY <1>f, <1>1, ThreadFacts DEF import_loop, tc_running, Goto, LabelTypes, HandTypes, Phases, Between, mode, LastPart, ring, source, hands, history
    <2> QED
      BY <2>2, <2>3, <2>4 DEF Base
  <1>2. CASE register(m)
    <2>1. LabelTypes'
      BY <1>f, <1>2, ThreadFacts DEF register, Claimed, Goto, MainLabels, ImportLabels, EventLabels, LabelTypes, ring, source, hands, history
    <2>2. RingTypes'
      <3>1. PICK f \in Frames :
                /\ pool[m]["NULL"] # <<>> /\ pool' = [pool EXCEPT ![m]["NULL"] = Tail(@)]
                /\ status' = [status EXCEPT ![m][f] = "EMPTY"]
                /\ id' = [id EXCEPT ![m][f] = framecount[m]]
                /\ mark' = [mark EXCEPT ![m][f] = "no"]
        BY <1>2 DEF register, Claimed
      <3>2. pool' \in [Media -> [Stages -> Seq(Frames)]]
        BY <1>f, <3>1, ClaimTypes DEF Stages
      <3> QED
        BY <1>f, <1>2, <3>1, <3>2 DEF register, RingTypes, SourceTypes, Stages
    <2>3. HandTypes'
      BY <1>f, <1>2, ThreadFacts DEF register, Claimed, HandTypes, ring, source, hands, history
    <2>4. Types'
      BY <1>f, <1>2, <2>1, <2>2, <2>3 DEF register, Types, SourceTypes, ring, source, hands, history
    <2>5. Hands'
      BY <1>f, <1>2, ThreadFacts DEF register, Claimed, Goto, LabelTypes, HandTypes, Hands, Phases, tc_running, GivenUp, Between, Media, mode, ring, source, hands, history
    <2>6. Phases'
      BY <1>f, <1>2, ThreadFacts DEF register, Claimed, Goto, LabelTypes, HandTypes, Phases, Between, mode, LastPart, ring, source, hands, history
    <2> QED
      BY <2>4, <2>5, <2>6 DEF Base
  <1>3. CASE register_interrupted(m)
    <2>1. LabelTypes'
      BY <1>f, <1>3, ThreadFacts DEF register_interrupted, Interrupted, Goto, MainLabels, ImportLabels, EventLabels, LabelTypes, ring, source, hands, history
    <2>2. HandTypes'
      BY <1>f, <1>3, ThreadFacts DEF register_interrupted, Interrupted, HandTypes, ring, source, hands, history
    <2>3. Types'
      BY <1>f, <1>3, <2>1, <2>2 DEF register_interrupted, Types, SourceTypes, RingTypes, ring, source, hands, history
    <2>4. Hands'
      BY <1>f, <1>3, ThreadFacts DEF register_interrupted, Interrupted, Goto, LabelTypes, HandTypes, Hands, Phases, tc_running, GivenUp, Between, Media, mode, ring, source, hands, history
    <2>5. Phases'
      BY <1>f, <1>3, ThreadFacts DEF register_interrupted, Interrupted, Goto, LabelTypes, HandTypes, Phases, Between, mode, LastPart, ring, source, hands, history
    <2> QED
      BY <2>3, <2>4, <2>5 DEF Base
  <1>4. CASE pc[m] = "register" /\ get_frame_wait(m, m, "NULL")
    <2>1. HandTypes'
      BY <1>f, <1>4, ThreadFacts DEF get_frame_wait, HandTypes, ring, source, hands, history
    <2>2. Types'
      BY <1>f, <1>4, <2>1 DEF get_frame_wait, Types, SourceTypes, LabelTypes, RingTypes, ring, source, hands, history
    <2>3. Hands'
      BY <1>f, <1>4, ThreadFacts DEF get_frame_wait, LabelTypes, HandTypes, Hands, Phases, tc_running, GivenUp, Between, Media, mode, ring, source, hands, history
    <2>4. Phases'
      BY <1>f, <1>4, ThreadFacts DEF get_frame_wait, LabelTypes, HandTypes, Phases, Between, mode, LastPart, ring, source, hands, history
    <2> QED
      BY <2>2, <2>3, <2>4 DEF Base
  <1>5. CASE import_frame(m)
    <2>1. SourceTypes'
      <3>1. /\ read[m] # session.parts[file[m]][m]
            /\ read' = [read EXCEPT ![m] = @ + 1] /\ framecount' = [framecount EXCEPT ![m] = @ + 1]
            /\ UNCHANGED <<session, part, file, active>>
        BY <1>5 DEF import_frame, AtEnd
      <3>2. \A n \in Media : session.parts[file[n]][n] \in Nat
        BY <1>f, SessionFacts DEF SourceTypes
      <3> QED
        BY SMTT(30), <1>f, <3>1, <3>2 DEF SourceTypes
    <2>2. LabelTypes'
      BY <1>f, <1>5, ThreadFacts DEF import_frame, push_next, AtEnd, Goto, MainLabels, ImportLabels, EventLabels, LabelTypes, ring, source, hands, history
    <2>3. RingTypes'
      <3>1. filling[m] \in Frames /\ push_next(m, filling[m])
        BY <1>f, <1>5 DEF import_frame, Hands, HandTypes
      <3>p. PICK q \in Seq(Frames) : pool' = [pool EXCEPT ![m]["READY"] = q]
        BY <1>f, <3>1, Pushed
      <3>2. pool' \in [Media -> [Stages -> Seq(Frames)]]
        BY <1>f, <3>p DEF RingTypes, Stages
      <3>3. file[m] \in Nat /\ read[m] \in Nat
        BY <1>f, SessionFacts DEF SourceTypes
      <3> QED
        <4>1. status' = [status EXCEPT ![m][filling[m]] = "READY"] /\ "READY" \in Stages
          BY <3>1 DEF push_next, Stages
        <4>2. origin' = [origin EXCEPT ![m][filling[m]] = <<file[m], read[m]>>] /\ UNCHANGED <<id, mark>>
          BY <1>5 DEF import_frame
        <4> QED
          BY <1>f, <3>1, <3>2, <3>3, <4>1, <4>2 DEF RingTypes
    <2>4. HandTypes'
      BY <1>f, <1>5, ThreadFacts, SignalledType DEF import_frame, push_next, AtEnd, HandTypes, ring, source, hands, history
    <2>5. Types'
      BY <1>f, <1>5, <2>1, <2>2, <2>3, <2>4 DEF import_frame, Types, ring, source, hands, history
    <2>6. Hands'
      BY <1>f, <1>5, ThreadFacts DEF import_frame, push_next, AtEnd, Goto, LabelTypes, HandTypes, Hands, Phases, tc_running, GivenUp, Between, Media, mode, ring, source, hands, history
    <2>7. Phases'
      BY <1>f, <1>5, ThreadFacts DEF import_frame, push_next, AtEnd, Goto, LabelTypes, HandTypes, Phases, Between, mode, LastPart, ring, source, hands, history
    <2> QED
      BY <2>5, <2>6, <2>7 DEF Base
  <1>6. CASE import_end(m)
    <2>1. SourceTypes'
      BY <1>f, <1>6, ThreadFacts, SessionFacts DEF import_end, push_next, SourceTypes, ring, source, hands, history
    <2>2. LabelTypes'
      BY <1>f, <1>6, ThreadFacts DEF import_end, push_next, Goto, MainLabels, ImportLabels, EventLabels, LabelTypes, ring, source, hands, history
    <2>3. RingTypes'
      <3>1. filling[m] \in Frames /\ push_next(m, filling[m])
        BY <1>f, <1>6 DEF import_end, Hands, HandTypes
      <3>p. PICK q \in Seq(Frames) : pool' = [pool EXCEPT ![m]["READY"] = q]
        BY <1>f, <3>1, Pushed
      <3>2. pool' \in [Media -> [Stages -> Seq(Frames)]]
        BY <1>f, <3>p DEF RingTypes, Stages
      <3>3. file[m] \in Nat /\ read[m] \in Nat
        BY <1>f, SessionFacts DEF SourceTypes
      <3> QED
        BY SMTT(30), <1>f, <1>6, <3>1, <3>2, <3>3 DEF import_end, push_next, RingTypes, Stages
    <2>4. HandTypes'
      BY <1>f, <1>6, ThreadFacts, SignalledType DEF import_end, push_next, HandTypes, ring, source, hands, history
    <2>5. Types'
      BY <1>f, <1>6, <2>1, <2>2, <2>3, <2>4 DEF import_end, Types, ring, source, hands, history
    <2>6. Hands'
      BY <1>f, <1>6, ThreadFacts DEF import_end, push_next, Goto, LabelTypes, HandTypes, Hands, Phases, tc_running, GivenUp, Between, Media, mode, ring, source, hands, history
    <2>7. Phases'
      BY <1>f, <1>6, ThreadFacts DEF import_end, push_next, Goto, LabelTypes, HandTypes, Phases, Between, mode, LastPart, ring, source, hands, history
    <2> QED
      BY <2>5, <2>6, <2>7 DEF Base
  <1>7. CASE next_file(m)
    <2>1. SourceTypes'
      <3>1. /\ UNCHANGED <<session, part, active, framecount>>
            /\ \/ file' = file /\ read' = read
               \/ /\ file[m] < Len(session.parts)
                  /\ file' = [file EXCEPT ![m] = @ + 1] /\ read' = [read EXCEPT ![m] = 0]
        BY <1>7 DEF next_file, has_more_files
      <3>2. \A n \in Media : \A k \in DOMAIN session.parts : session.parts[k][n] \in Nat
        BY <1>f, SessionFacts DEF SourceTypes
      <3>3. Len(session.parts) \in Nat /\ DOMAIN session.parts = 1 .. Len(session.parts)
        BY <1>f, SessionFacts DEF SourceTypes
      <3>4. file' \in [Media -> DOMAIN session.parts]
        <4>1. file[m] \in 1 .. Len(session.parts)
          BY <1>f, <3>3 DEF SourceTypes
        <4>2. file' = file \/ (file' = [file EXCEPT ![m] = @ + 1] /\ file[m] + 1 \in DOMAIN session.parts)
          BY <3>1, <3>3, <4>1
        <4> QED
          BY <1>f, <4>2 DEF SourceTypes
      <3>5. \A n \in Media : \/ file'[n] = file[n] /\ read'[n] = read[n]
                             \/ file'[n] \in DOMAIN session.parts /\ read'[n] = 0
        <4>1. file \in [Media -> DOMAIN session.parts] /\ read \in [Media -> Nat]
          BY <1>f DEF SourceTypes
        <4> QED
          BY <3>1, <3>4, <4>1
      <3>6. read' \in [Media -> Nat]
        <4>1. read \in [Media -> Nat]
          BY <1>f DEF SourceTypes
        <4> QED
          BY <3>1, <4>1
      <3> QED
        <4>1. \A n \in Media : /\ read[n] <= session.parts[file[n]][n]
                              /\ read[n] <= framecount[n] /\ framecount[n] \in Nat
          BY <1>f DEF SourceTypes
        <4>2. \A n \in Media : read'[n] <= session.parts[file'[n]][n] /\ read'[n] <= framecount[n]
          BY <3>2, <3>5, <4>1
        <4>3. session' = session /\ part' = part /\ active' = active /\ framecount' = framecount
          BY <3>1
        <4> QED
          BY <1>f, <3>4, <3>6, <4>2, <4>3 DEF SourceTypes
    <2>2. LabelTypes'
      BY <1>f, <1>7, ThreadFacts DEF next_file, has_more_files, Goto, MainLabels, ImportLabels, EventLabels, LabelTypes, ring, source, hands, history
    <2>3. Types'
      BY <1>f, <1>7, <2>1, <2>2 DEF next_file, Types, RingTypes, HandTypes, ring, source, hands, history
    <2>4. Hands'
      BY <1>f, <1>7, ThreadFacts DEF next_file, has_more_files, Goto, LabelTypes, HandTypes, Hands, Phases, tc_running, GivenUp, Between, Media, mode, ring, source, hands, history
    <2>5. Phases'
      BY <1>f, <1>7, ThreadFacts DEF next_file, has_more_files, Goto, LabelTypes, HandTypes, Phases, Between, mode, LastPart, ring, source, hands, history
    <2> QED
      BY <2>3, <2>4, <2>5 DEF Base
  <1>8. CASE multi_import_end(m)
    <2>1. LabelTypes'
      BY <1>f, <1>8, ThreadFacts DEF multi_import_end, Goto, MainLabels, ImportLabels, EventLabels, LabelTypes, ring, source, hands, history
    <2>2. HandTypes'
      BY <1>f, <1>8, ThreadFacts, SignalledType DEF multi_import_end, HandTypes, ring, source, hands, history
    <2>3. Types'
      BY <1>f, <1>8, <2>1, <2>2 DEF multi_import_end, Types, SourceTypes, RingTypes, ring, source, hands, history
    <2>4. Hands'
      BY <1>f, <1>8, ThreadFacts DEF multi_import_end, Goto, LabelTypes, HandTypes, Hands, Phases, tc_running, GivenUp, Between, Media, mode, ring, source, hands, history
    <2>5. Phases'
      BY <1>f, <1>8, ThreadFacts DEF multi_import_end, Goto, LabelTypes, HandTypes, Phases, Between, mode, LastPart, ring, source, hands, history
    <2> QED
      BY <2>3, <2>4, <2>5 DEF Base
  <1> QED
    BY <1>1, <1>2, <1>3, <1>4, <1>5, <1>6, <1>7, <1>8 DEF Import

LEMMA MainBase ==
    ASSUME Base, MainThread \/ tc_interrupt \/ event_handler \/ UNCHANGED vars
    PROVE  Base'
  <1>f. /\ SourceTypes /\ LabelTypes /\ RingTypes /\ HandTypes /\ Hands /\ Phases
        /\ encoded \in [DOMAIN session.parts -> Seq([Media -> Nat \X Nat])]
    BY DEF Base, Types
  <1>1. CASE export_loop
    <2>1. LabelTypes'
      BY <1>f, <1>1, ThreadFacts DEF export_loop, Goto, MainLabels, ImportLabels, EventLabels, LabelTypes, ring, source, hands, history
    <2>2. Types'
      BY <1>f, <1>1, <2>1 DEF export_loop, Types, SourceTypes, RingTypes, HandTypes, ring, source, hands, history
    <2>3. Hands'
      BY <1>f, <1>1, ThreadFacts DEF export_loop, Goto, LabelTypes, HandTypes, Hands, Phases, tc_running, GivenUp, Between, Media, mode, ring, source, hands, history
    <2>4. Phases'
      BY <1>f, <1>1, ThreadFacts DEF export_loop, Goto, LabelTypes, HandTypes, Phases, Between, mode, LastPart, ring, source, hands, history
    <2> QED
      BY <2>2, <2>3, <2>4 DEF Base
  <1>2. CASE acquire("video", "audio")
    <2>1. LabelTypes'
      BY <1>f, <1>2, ThreadFacts DEF acquire, Claimed, Goto, MainLabels, ImportLabels, EventLabels, LabelTypes, ring, source, hands, history
    <2>2. RingTypes'
      <3>1. pool["video"]["READY"] # <<>> /\ pool' = [pool EXCEPT !["video"]["READY"] = Tail(@)]
        BY <1>2 DEF acquire, Claimed
      <3>2. pool' \in [Media -> [Stages -> Seq(Frames)]]
        BY <1>f, <3>1, ThreadFacts, ClaimTypes DEF Stages
      <3> QED
        BY <1>f, <1>2, <3>2 DEF acquire, RingTypes
    <2>3. HandTypes'
      BY <1>f, <1>2, ThreadFacts DEF acquire, Claimed, HandTypes, ring, source, hands, history
    <2>4. Types'
      BY <1>f, <1>2, <2>1, <2>2, <2>3 DEF acquire, Types, SourceTypes, ring, source, hands, history
    <2>5. Hands'
      BY <1>f, <1>2, ThreadFacts DEF acquire, Claimed, Goto, LabelTypes, HandTypes, Hands, Phases, tc_running, GivenUp, Between, Media, mode, ring, source, hands, history
    <2>6. Phases'
      BY <1>f, <1>2, ThreadFacts DEF acquire, Claimed, Goto, LabelTypes, HandTypes, Phases, Between, mode, LastPart, ring, source, hands, history
    <2> QED
      BY <2>4, <2>5, <2>6 DEF Base
  <1>3. CASE acquire("audio", "encode")
    <2>1. LabelTypes'
      BY <1>f, <1>3, ThreadFacts DEF acquire, Claimed, Goto, MainLabels, ImportLabels, EventLabels, LabelTypes, ring, source, hands, history
    <2>2. RingTypes'
      <3>1. pool["audio"]["READY"] # <<>> /\ pool' = [pool EXCEPT !["audio"]["READY"] = Tail(@)]
        BY <1>3 DEF acquire, Claimed
      <3>2. pool' \in [Media -> [Stages -> Seq(Frames)]]
        BY <1>f, <3>1, ThreadFacts, ClaimTypes DEF Stages
      <3> QED
        BY <1>f, <1>3, <3>2 DEF acquire, RingTypes
    <2>3. HandTypes'
      BY <1>f, <1>3, ThreadFacts DEF acquire, Claimed, HandTypes, ring, source, hands, history
    <2>4. Types'
      BY <1>f, <1>3, <2>1, <2>2, <2>3 DEF acquire, Types, SourceTypes, ring, source, hands, history
    <2>5. Hands'
      BY <1>f, <1>3, ThreadFacts DEF acquire, Claimed, Goto, LabelTypes, HandTypes, Hands, Phases, tc_running, GivenUp, Between, Media, mode, ring, source, hands, history
    <2>6. Phases'
      BY <1>f, <1>3, ThreadFacts DEF acquire, Claimed, Goto, LabelTypes, HandTypes, Phases, Between, mode, LastPart, ring, source, hands, history
    <2> QED
      BY <2>4, <2>5, <2>6 DEF Base
  <1>4. ASSUME NEW m \in Media, acquire_skipped(m) PROVE Base'
    <2>1. RingTypes'
      <3>1. pool[m]["READY"] # <<>> /\ "READY" \in Stages /\ "NULL" \in Stages
        BY <1>4 DEF acquire_skipped, Stages
      <3> QED
        BY <1>f, <1>4, <3>1, MoveTypes DEF acquire_skipped, RingTypes
    <2>2. HandTypes'
      BY <1>f, <1>4, ThreadFacts, SignalledType DEF acquire_skipped, HandTypes, ring, source, hands, history
    <2>3. Types'
      BY <1>f, <1>4, <2>1, <2>2 DEF acquire_skipped, Types, SourceTypes, LabelTypes, ring, source, hands, history
    <2>4. Hands'
      BY <1>f, <1>4, ThreadFacts DEF acquire_skipped, LabelTypes, HandTypes, Hands, Phases, tc_running, GivenUp, Between, Media, mode, ring, source, hands, history
    <2>5. Phases'
      BY <1>f, <1>4, ThreadFacts DEF acquire_skipped, LabelTypes, HandTypes, Phases, Between, mode, LastPart, ring, source, hands, history
    <2> QED
      BY <2>3, <2>4, <2>5 DEF Base
  <1>5. ASSUME NEW m \in Media, pc[Main] = m, get_frame_wait(Main, m, "READY") PROVE Base'
    <2>1. HandTypes'
      BY <1>f, <1>5, ThreadFacts DEF get_frame_wait, HandTypes, ring, source, hands, history
    <2>2. Types'
      BY <1>f, <1>5, <2>1 DEF get_frame_wait, Types, SourceTypes, LabelTypes, RingTypes, ring, source, hands, history
    <2>3. Hands'
      BY <1>f, <1>5, ThreadFacts DEF get_frame_wait, LabelTypes, HandTypes, Hands, Phases, tc_running, GivenUp, Between, Media, mode, ring, source, hands, history
    <2>4. Phases'
      BY <1>f, <1>5, ThreadFacts DEF get_frame_wait, LabelTypes, HandTypes, Phases, Between, mode, LastPart, ring, source, hands, history
    <2> QED
      BY <2>2, <2>3, <2>4 DEF Base
  <1>6. CASE acquire_interrupted
    <2>1. LabelTypes'
      BY <1>f, <1>6, ThreadFacts DEF acquire_interrupted, Interrupted, Goto, MainLabels, ImportLabels, EventLabels, LabelTypes, ring, source, hands, history
    <2>2. HandTypes'
      BY <1>f, <1>6, ThreadFacts DEF acquire_interrupted, Interrupted, HandTypes, ring, source, hands, history
    <2>3. Types'
      BY <1>f, <1>6, <2>1, <2>2 DEF acquire_interrupted, Types, SourceTypes, RingTypes, ring, source, hands, history
    <2>4. Hands'
      BY <1>f, <1>6, ThreadFacts DEF acquire_interrupted, Interrupted, Goto, LabelTypes, HandTypes, Hands, Phases, tc_running, GivenUp, Between, Media, mode, ring, source, hands, history
    <2>5. Phases'
      BY <1>f, <1>6, ThreadFacts DEF acquire_interrupted, Interrupted, Goto, LabelTypes, HandTypes, Phases, Between, mode, LastPart, ring, source, hands, history
    <2> QED
      BY <2>3, <2>4, <2>5 DEF Base
  <1>7. CASE tc_export_frames
    <2>1. LabelTypes'
      BY <1>f, <1>7, ThreadFacts DEF tc_export_frames, Goto, MainLabels, ImportLabels, EventLabels, LabelTypes, ring, source, hands, history
    <2>a. \A m \in Media : input[m] \in Frames
      BY <1>f, <1>7, ThreadFacts DEF tc_export_frames, Hands, HandTypes
    <2>2. RingTypes'
      <3>1. \A m \in Media : [pool[m] EXCEPT !["NULL"] = Append(@, input[m])] \in [Stages -> Seq(Frames)]
        BY <1>f, <2>a DEF RingTypes, Stages
      <3>2. pool' \in [Media -> [Stages -> Seq(Frames)]]
        BY <1>7, <3>1 DEF tc_export_frames
      <3>3. /\ status' \in [Media -> [Frames -> Stages]]
            /\ mark' \in [Media -> [Frames -> {"no", "eos", "skipped"}]]
        BY <1>f, <1>7, <2>a DEF tc_export_frames, RingTypes, Stages
      <3> QED
        BY <1>f, <1>7, <3>2, <3>3 DEF tc_export_frames, RingTypes
    <2>3. HandTypes'
      BY <1>f, <1>7, ThreadFacts, SignalledType DEF tc_export_frames, HandTypes, Both, ring, source, hands, history
    <2>4. Types'
      <3>1. SourceTypes' /\ session' = session
        BY <1>f, <1>7 DEF tc_export_frames, SourceTypes, source
      <3>2. encoded' \in [DOMAIN session.parts -> Seq([Media -> Nat \X Nat])]
        <4> DEFINE o == [m \in Media |-> origin[m][input[m]]]
        <4>1. o \in [Media -> Nat \X Nat]
          BY <1>f, <2>a DEF RingTypes
        <4>2. encoded' = encoded \/ encoded' = [encoded EXCEPT ![part] = Append(@, o)]
          BY <1>7 DEF tc_export_frames, history
        <4> HIDE DEF o
        <4>3. encoded[part] \in Seq([Media -> Nat \X Nat])
          BY <1>f DEF SourceTypes
        <4>4. Append(encoded[part], o) \in Seq([Media -> Nat \X Nat])
          BY <4>1, <4>3
        <4> QED
          BY <1>f, <4>2, <4>4
      <3> QED
        BY <2>1, <2>2, <2>3, <3>1, <3>2 DEF Types
    <2>5. Hands'
      BY <1>f, <1>7, ThreadFacts DEF tc_export_frames, Goto, Both, LabelTypes, HandTypes, Hands, Phases, tc_running, GivenUp, Between, Media, mode, ring, source, hands, history
    <2>6. Phases'
      BY <1>f, <1>7, ThreadFacts DEF tc_export_frames, Goto, Both, LabelTypes, HandTypes, Phases, Between, mode, LastPart, ring, source, hands, history
    <2> QED
      BY <2>4, <2>5, <2>6 DEF Base
  <1>8. CASE start
    <2>1. SourceTypes'
      BY SMTT(30), <1>f, <1>8, ThreadFacts, SessionFacts DEF start, open, Both, SourceTypes, ring, source, hands, history
    <2>2. LabelTypes'
      BY <1>f, <1>8, ThreadFacts DEF start, open, Both, MainLabels, ImportLabels, EventLabels, LabelTypes, ring, source, hands, history
    <2>3. HandTypes'
      BY <1>f, <1>8, ThreadFacts DEF start, open, Both, HandTypes, ring, source, hands, history
    <2>4. Types'
      BY <1>f, <1>8, <2>1, <2>2, <2>3 DEF start, Types, RingTypes, ring, source, hands, history
    <2>5. Hands'
      BY <1>f, <1>8, ThreadFacts DEF start, open, Both, LabelTypes, HandTypes, Hands, Phases, tc_running, GivenUp, Between, Media, mode, ring, source, hands, history
    <2>6. Phases'
      BY <1>f, <1>8, ThreadFacts DEF start, open, Both, LabelTypes, HandTypes, Phases, Between, mode, LastPart, ring, source, hands, history
    <2> QED
      BY <2>4, <2>5, <2>6 DEF Base
  <1>9. CASE leave
    <2>1. SourceTypes'
      BY <1>f, <1>9, ThreadFacts, SessionFacts DEF leave, SourceTypes, ring, source, hands, history
    <2>2. LabelTypes'
      BY <1>f, <1>9, ThreadFacts DEF leave, Goto, MainLabels, ImportLabels, EventLabels, LabelTypes, ring, source, hands, history
    <2>3. Types'
      BY <1>f, <1>9, <2>1, <2>2 DEF leave, Types, RingTypes, HandTypes, ring, source, hands, history
    <2>4. Hands'
      BY <1>f, <1>9, ThreadFacts DEF leave, Goto, LabelTypes, HandTypes, Hands, Phases, tc_running, GivenUp, Between, Media, mode, ring, source, hands, history
    <2>5. Phases'
      BY <1>f, <1>9, ThreadFacts DEF leave, Goto, LabelTypes, HandTypes, Phases, Between, mode, LastPart, ring, source, hands, history
    <2> QED
      BY <2>3, <2>4, <2>5 DEF Base
  <1>10. CASE tc_import_threads_cancel
    <2>1. SourceTypes'
      BY <1>f, <1>10, ThreadFacts, SessionFacts DEF tc_import_threads_cancel, Both, SourceTypes, ring, source, hands, history
    <2>2. LabelTypes'
      BY <1>f, <1>10, ThreadFacts DEF tc_import_threads_cancel, Both, Goto, MainLabels, ImportLabels, EventLabels, LabelTypes, ring, source, hands, history
    <2>3. HandTypes'
      BY <1>f, <1>10, ThreadFacts, SignalledType DEF tc_import_threads_cancel, Both, HandTypes, ring, source, hands, history
    <2>4. Types'
      BY <1>f, <1>10, <2>1, <2>2, <2>3 DEF tc_import_threads_cancel, Types, RingTypes, ring, source, hands, history
    <2>5. Hands'
      BY <1>f, <1>10, ThreadFacts DEF tc_import_threads_cancel, Both, Goto, LabelTypes, HandTypes, Hands, Phases, tc_running, GivenUp, Between, Media, mode, ring, source, hands, history
    <2>6. Phases'
      BY <1>f, <1>10, ThreadFacts DEF tc_import_threads_cancel, Both, Goto, LabelTypes, HandTypes, Phases, Between, mode, LastPart, ring, source, hands, history
    <2> QED
      BY <2>4, <2>5, <2>6 DEF Base
  <1>11. CASE join
    <2>1. LabelTypes'
      BY <1>f, <1>11, ThreadFacts DEF join, Goto, MainLabels, ImportLabels, EventLabels, LabelTypes, ring, source, hands, history
    <2>2. Types'
      BY <1>f, <1>11, <2>1 DEF join, Types, SourceTypes, RingTypes, HandTypes, ring, source, hands, history
    <2>3. Hands'
      BY <1>f, <1>11, ThreadFacts DEF join, Goto, LabelTypes, HandTypes, Hands, Phases, tc_running, GivenUp, Between, Media, mode, ring, source, hands, history
    <2>4. Phases'
      BY <1>f, <1>11, ThreadFacts DEF join, Goto, LabelTypes, HandTypes, Phases, Between, mode, LastPart, ring, source, hands, history
    <2> QED
      BY <2>2, <2>3, <2>4 DEF Base
  <1>12. ASSUME NEW m \in Media, tc_frame_ring_flush(m) PROVE Base'
    <2>1. RingTypes'
      <3> DEFINE S == status[m][flushed[m] + 1]
      <3>1. S \in Stages /\ "NULL" \in Stages
        <4>1. flushed[m] \in 0 .. Size /\ flushed[m] < Size
          BY <1>f, <1>12 DEF tc_frame_ring_flush, flush_more, HandTypes
        <4>2. flushed[m] + 1 \in Frames
          BY <4>1 DEF Frames
        <4> QED
          BY <1>f, <4>2 DEF RingTypes, Stages
      <3>2. \/ UNCHANGED <<pool, status>>
            \/ /\ pool[m][S] # <<>>
               /\ pool' = [pool EXCEPT ![m][S] = Tail(@), ![m]["NULL"] = Append(@, Head(pool[m][S]))]
               /\ status' = [status EXCEPT ![m][Head(pool[m][S])] = "NULL"]
        BY <1>12 DEF tc_frame_ring_flush, flush_frame
      <3> HIDE DEF S
      <3>3. pool' \in [Media -> [Stages -> Seq(Frames)]] /\ status' \in [Media -> [Frames -> Stages]]
        <4>1. CASE UNCHANGED <<pool, status>>
          BY <1>f, <4>1 DEF RingTypes
        <4>2. CASE pool' # pool \/ status' # status
          <5>1. pool[m][S] # <<>>
            BY <3>2, <4>2
          <5>2. /\ [pool EXCEPT ![m][S] = Tail(@), ![m]["NULL"] = Append(@, Head(pool[m][S]))]
                      \in [Media -> [Stages -> Seq(Frames)]]
                /\ [status EXCEPT ![m][Head(pool[m][S])] = "NULL"] \in [Media -> [Frames -> Stages]]
            BY <1>f, <3>1, <5>1, MoveTypes
          <5> QED
            BY <3>2, <4>2, <5>2
        <4> QED
          BY <4>1, <4>2
      <3> QED
        BY <1>f, <1>12, <3>3 DEF tc_frame_ring_flush, RingTypes
    <2>2. HandTypes'
      BY <1>f, <1>12, ThreadFacts DEF tc_frame_ring_flush, flush_frame, flush_more, HandTypes, ring, source, hands, history
    <2>3. Types'
      BY <1>f, <1>12, <2>1, <2>2 DEF tc_frame_ring_flush, Types, SourceTypes, LabelTypes, ring, source, hands, history
    <2>4. Hands'
      BY <1>f, <1>12, ThreadFacts DEF tc_frame_ring_flush, flush_frame, flush_more, LabelTypes, HandTypes, Hands, Phases, tc_running, GivenUp, Between, Media, mode, ring, source, hands, history
    <2>5. Phases'
      BY <1>f, <1>12, ThreadFacts DEF tc_frame_ring_flush, flush_frame, flush_more, LabelTypes, HandTypes, Phases, Between, mode, LastPart, ring, source, hands, history
    <2> QED
      BY <2>3, <2>4, <2>5 DEF Base
  <1>13. CASE tc_framebuffer_flush
    <2>1. LabelTypes'
      BY <1>f, <1>13, ThreadFacts DEF tc_framebuffer_flush, flush_more, Both, Goto, MainLabels, ImportLabels, EventLabels, LabelTypes, ring, source, hands, history
    <2>2. HandTypes'
      BY <1>f, <1>13, ThreadFacts DEF tc_framebuffer_flush, flush_more, Both, HandTypes, ring, source, hands, history
    <2>3. Types'
      BY <1>f, <1>13, <2>1, <2>2 DEF tc_framebuffer_flush, Types, SourceTypes, RingTypes, ring, source, hands, history
    <2>4. Hands'
      BY <1>f, <1>13, ThreadFacts DEF tc_framebuffer_flush, flush_more, Both, Goto, LabelTypes, HandTypes, Hands, Phases, tc_running, GivenUp, Between, Media, mode, ring, source, hands, history
    <2>5. Phases'
      BY <1>f, <1>13, ThreadFacts DEF tc_framebuffer_flush, flush_more, Both, Goto, LabelTypes, HandTypes, Phases, Between, mode, LastPart, ring, source, hands, history
    <2> QED
      BY <2>3, <2>4, <2>5 DEF Base
  <1>14. CASE next_range
    <2>1. SourceTypes'
      <3>1. /\ UNCHANGED <<session, framecount>>
            /\ file' = Both(part + 1) /\ read' = Both(0) /\ active' = Both(TRUE) /\ part' = part + 1
            /\ ~LastPart
        BY <1>f, <1>14 DEF next_range, open, Phases, Between
      <3>2. \A n \in Media : \A k \in DOMAIN session.parts : session.parts[k][n] \in Nat
        BY <1>f, SessionFacts DEF SourceTypes
      <3>3. Len(session.parts) \in Nat /\ DOMAIN session.parts = 1 .. Len(session.parts)
        BY <1>f, SessionFacts DEF SourceTypes
      <3>4. part' \in DOMAIN session.parts
        BY <1>f, <3>1, <3>3 DEF SourceTypes, LastPart
      <3> QED
        BY <1>f, <3>1, <3>2, <3>4 DEF SourceTypes, Both
    <2>2. LabelTypes'
      BY <1>f, <1>14, ThreadFacts DEF next_range, open, Both, MainLabels, ImportLabels, EventLabels, LabelTypes, ring, source, hands, history
    <2>3. Types'
      BY <1>f, <1>14, <2>1, <2>2 DEF next_range, Types, RingTypes, HandTypes, ring, source, hands, history
    <2>4. Hands'
      BY <1>f, <1>14, ThreadFacts DEF next_range, open, Both, LabelTypes, HandTypes, Hands, Phases, tc_running, GivenUp, Between, Media, mode, ring, source, hands, history
    <2>5. Phases'
      BY <1>f, <1>14, ThreadFacts DEF next_range, open, Both, LabelTypes, HandTypes, Phases, Between, mode, LastPart, ring, source, hands, history
    <2> QED
      BY <2>3, <2>4, <2>5 DEF Base
  <1>15. CASE next_unit
    <2>1. SourceTypes'
      <3>1. /\ UNCHANGED <<session, framecount>>
            /\ UNCHANGED <<file, read, active>>
            /\ part' = part \/ (part' = part + 1 /\ ~LastPart)
        BY <1>15 DEF next_unit, source
      <3>2. \A n \in Media : \A k \in DOMAIN session.parts : session.parts[k][n] \in Nat
        BY <1>f, SessionFacts DEF SourceTypes
      <3>3. Len(session.parts) \in Nat /\ DOMAIN session.parts = 1 .. Len(session.parts)
        BY <1>f, SessionFacts DEF SourceTypes
      <3>4. part' \in DOMAIN session.parts
        BY <1>f, <3>1, <3>3 DEF SourceTypes, LastPart
      <3> QED
        BY <1>f, <3>1, <3>2, <3>4 DEF SourceTypes, Both
    <2>2. LabelTypes'
      BY <1>f, <1>15, ThreadFacts DEF next_unit, Goto, MainLabels, ImportLabels, EventLabels, LabelTypes, ring, source, hands, history
    <2>3. Types'
      BY <1>f, <1>15, <2>1, <2>2 DEF next_unit, Types, RingTypes, HandTypes, ring, source, hands, history
    <2>4. Hands'
      BY <1>f, <1>15, ThreadFacts DEF next_unit, Goto, LabelTypes, HandTypes, Hands, Phases, tc_running, GivenUp, Between, Media, mode, ring, source, hands, history
    <2>5. Phases'
      BY <1>f, <1>15, ThreadFacts DEF next_unit, Goto, LabelTypes, HandTypes, Phases, Between, mode, LastPart, ring, source, hands, history
    <2> QED
      BY <2>3, <2>4, <2>5 DEF Base
  <1>16. CASE tc_stop_all
    <2>1. LabelTypes'
      BY <1>f, <1>16, ThreadFacts DEF tc_stop_all, Goto, MainLabels, ImportLabels, EventLabels, LabelTypes, ring, source, hands, history
    <2>2. HandTypes'
      BY <1>f, <1>16, ThreadFacts, SignalledType DEF tc_stop_all, HandTypes, ring, source, hands, history
    <2>3. Types'
      BY <1>f, <1>16, <2>1, <2>2 DEF tc_stop_all, Types, SourceTypes, RingTypes, ring, source, hands, history
    <2>4. Hands'
      BY <1>f, <1>16, ThreadFacts DEF tc_stop_all, Goto, LabelTypes, HandTypes, Hands, Phases, tc_running, GivenUp, Between, Media, mode, ring, source, hands, history
    <2>5. Phases'
      BY <1>f, <1>16, ThreadFacts DEF tc_stop_all, Goto, LabelTypes, HandTypes, Phases, Between, mode, LastPart, ring, source, hands, history
    <2> QED
      BY <2>3, <2>4, <2>5 DEF Base
  <1>17. CASE tc_interrupt
    <2>1. LabelTypes'
      BY <1>f, <1>17, ThreadFacts DEF tc_interrupt, Goto, MainLabels, ImportLabels, EventLabels, LabelTypes, ring, source, hands, history
    <2>2. HandTypes'
      BY <1>f, <1>17, ThreadFacts DEF tc_interrupt, HandTypes, ring, source, hands, history
    <2>3. Types'
      BY <1>f, <1>17, <2>1, <2>2 DEF tc_interrupt, Types, SourceTypes, RingTypes, ring, source, hands, history
    <2>4. Hands'
      BY <1>f, <1>17, ThreadFacts DEF tc_interrupt, Goto, LabelTypes, HandTypes, Hands, Phases, tc_running, GivenUp, Between, Media, mode, ring, source, hands, history
    <2>5. Phases'
      BY <1>f, <1>17, ThreadFacts DEF tc_interrupt, Goto, LabelTypes, HandTypes, Phases, Between, mode, LastPart, ring, source, hands, history
    <2> QED
      BY <2>3, <2>4, <2>5 DEF Base
  <1>18. CASE event_handler
    <2>1. LabelTypes'
      BY <1>f, <1>18, ThreadFacts DEF event_handler, Goto, MainLabels, ImportLabels, EventLabels, LabelTypes, ring, source, hands, history
    <2>2. HandTypes'
      BY <1>f, <1>18, ThreadFacts, SignalledType DEF event_handler, HandTypes, ring, source, hands, history
    <2>3. Types'
      BY <1>f, <1>18, <2>1, <2>2 DEF event_handler, Types, SourceTypes, RingTypes, ring, source, hands, history
    <2>4. Hands'
      BY <1>f, <1>18, ThreadFacts DEF event_handler, Goto, LabelTypes, HandTypes, Hands, Phases, tc_running, GivenUp, Between, Media, mode, ring, source, hands, history
    <2>5. Phases'
      BY <1>f, <1>18, ThreadFacts DEF event_handler, Goto, LabelTypes, HandTypes, Phases, Between, mode, LastPart, ring, source, hands, history
    <2> QED
      BY <2>3, <2>4, <2>5 DEF Base
  <1>19. CASE UNCHANGED vars
    <2>1. Types'
      BY <1>f, <1>19 DEF vars, Types, SourceTypes, LabelTypes, RingTypes, HandTypes
    <2>2. Hands'
      BY <1>f, <1>19 DEF vars, Hands, GivenUp, mode
    <2>3. Phases'
      BY <1>f, <1>19 DEF vars, Phases, mode, LastPart
    <2> QED
      BY <2>1, <2>2, <2>3 DEF Base
  <1> QED
    BY <1>1, <1>2, <1>3, <1>4, <1>5, <1>6, <1>7, <1>8, <1>9, <1>10, <1>11, <1>12, <1>13, <1>14, <1>15, <1>16, <1>17, <1>18, <1>19 DEF MainThread

LEMMA BaseStep == Base /\ [Next]_vars => Base'
  BY ImportBase, MainBase DEF Next, Ended

-----------------------------------------------------------------------------
(* Every step keeps the frames of both rings.                              *)

LEMMA InitRings == Init => Rings
  <1> SUFFICES ASSUME Init, NEW m \in Media PROVE RingKept(m)
    BY DEF Rings
  <1>1. Held(m) = {} /\ filling[m] = NoFrame
    BY DEF Init, Both, Held
  <1>2. \A S \in Stages : pool[m][S] = IF S = "NULL" THEN [i \in Frames |-> i] ELSE <<>>
    BY DEF Init, Both
  <1>3. \A f \in Frames : status[m][f] = "NULL"
    BY DEF Init, Both
  <1>4. Range([i \in Frames |-> i]) = Frames /\ IsInjective([i \in Frames |-> i])
    BY DEF Range, IsInjective
  <1>5. Range(<<>>) = {} /\ IsInjective(<<>>)
    BY DEF Range, IsInjective
  <1>6. "NULL" \in Stages
    BY DEF Stages
  <1>7. \A S \in Stages : /\ IsInjective(pool[m][S])
                          /\ \A f \in Range(pool[m][S]) : status[m][f] = S
    <2>1. \A S \in Stages : Range(pool[m][S]) = IF S = "NULL" THEN Frames ELSE {}
      BY <1>2, <1>4, <1>5
    <2> QED
      BY <1>2, <1>3, <1>4, <1>5, <2>1
  <1>8. \A f \in Frames : f \in Range(pool[m]["NULL"])
    BY <1>2, <1>4, <1>6
  <1> QED
    BY <1>1, <1>6, <1>7, <1>8 DEF RingKept, Conserved

LEMMA SameRing ==
    ASSUME NEW m \in Media, RingKept(m), pool'[m] = pool[m], status'[m] = status[m],
           filling'[m] = filling[m], input'[m] = input[m]
    PROVE  RingKept(m)'
  BY DEF RingKept, Held

(* A thread with empty hands claims the first frame of a pool, ...         *)
LEMMA ClaimKeeps ==
    ASSUME RingTypes, NEW m \in Media, RingKept(m), NEW S \in Stages, pool[m][S] # <<>>,
           pool'[m] = [pool[m] EXCEPT ![S] = Tail(@)],
           Agree(status[m], status'[m], Head(pool[m][S])),
           \/ filling[m] = NoFrame /\ filling'[m] = Head(pool[m][S]) /\ input'[m] = input[m]
           \/ input[m] = NoFrame /\ input'[m] = Head(pool[m][S]) /\ filling'[m] = filling[m]
    PROVE  RingKept(m)'
  <1> DEFINE f == Head(pool[m][S])
             p == pool[m]
             st == status[m]
             st1 == status'[m]
             H == Held(m)
  <1>1. p \in [Stages -> Seq(Frames)] /\ Conserved(p, H, st) /\ p[S] # <<>>
        /\ Agree(st, st1, Head(p[S]))
    BY DEF RingTypes, RingKept
  <1> HIDE DEF p, H, st, st1
  <1>2. /\ Head(p[S]) \in Frames /\ Head(p[S]) \notin H
        /\ Conserved([p EXCEPT ![S] = Tail(@)], H \union {Head(p[S])}, st1)
    BY <1>1, TakeKeeps
  <1>3. Held(m)' = H \union {Head(p[S])}
    BY <1>2 DEF Held, H, p, Frames, NoFrame
  <1>4. Conserved(pool[m], Held(m), status[m])'
    BY <1>2, <1>3 DEF p, st1
  <1>5. filling'[m] # input'[m]
    BY <1>2 DEF Held, H, p, Frames, NoFrame
  <1> QED
    BY <1>4, <1>5 DEF RingKept

(* ... and puts a frame of its hands into a pool, or ...                   *)
LEMMA GiveKeeps ==
    ASSUME RingTypes, NEW m \in Media, RingKept(m), NEW S \in Stages, NEW f \in Frames,
           NEW i \in 1 .. Len(pool[m][S]) + 1, NEW q \in Seq(Frames), Inserted(pool[m][S], i, f, q),
           pool'[m] = [pool[m] EXCEPT ![S] = q],
           status'[m][f] = S, Agree(status[m], status'[m], f),
           \/ filling[m] = f /\ filling'[m] = NoFrame /\ input'[m] = input[m]
           \/ input[m] = f /\ input'[m] = NoFrame /\ filling'[m] = filling[m]
    PROVE  RingKept(m)'
  <1> DEFINE p == pool[m]
             st == status[m]
             st1 == status'[m]
             H == Held(m)
  <1>1. /\ p \in [Stages -> Seq(Frames)] /\ Conserved(p, H, st)
        /\ i \in 1 .. Len(p[S]) + 1 /\ Inserted(p[S], i, f, q)
        /\ st1[f] = S /\ Agree(st, st1, f)
        /\ f # NoFrame /\ (filling[m] = input[m] => filling[m] = NoFrame)
    BY DEF RingTypes, RingKept, Frames, NoFrame
  <1>2. f \in H /\ Held(m)' = H \ {f}
    BY <1>1 DEF Held
  <1> HIDE DEF p, H, st, st1
  <1>3. Conserved([p EXCEPT ![S] = q], H \ {f}, st1)
    BY <1>1, <1>2, PutKeeps
  <1>4. Conserved(pool[m], Held(m), status[m])'
    BY <1>2, <1>3 DEF p, st1
  <1>5. filling'[m] = input'[m] => filling'[m] = NoFrame
    BY <1>1
  <1> QED
    BY <1>4, <1>5 DEF RingKept

(* ... a frame is moved into NULL without being in any hands.              *)
LEMMA FreeKeeps ==
    ASSUME RingTypes, NEW m \in Media, RingKept(m), NEW S \in Stages \ {"NULL"}, pool[m][S] # <<>>,
           pool' = [pool EXCEPT ![m][S] = Tail(@), ![m]["NULL"] = Append(@, Head(pool[m][S]))],
           status' = [status EXCEPT ![m][Head(pool[m][S])] = "NULL"],
           filling' = filling, input' = input
    PROVE  RingKept(m)'
  <1> DEFINE p == pool[m]
             st == status[m]
  <1>1. p \in [Stages -> Seq(Frames)] /\ st \in [Frames -> Stages] /\ Conserved(p, Held(m), st)
    BY DEF RingTypes, RingKept
  <1>2. /\ pool'[m] = [p EXCEPT ![S] = Tail(@), !["NULL"] = Append(@, Head(p[S]))]
        /\ status'[m] = [st EXCEPT ![Head(p[S])] = "NULL"]
    BY DEF RingTypes
  <1> HIDE DEF p, st
  <1>3. p[S] # <<>>
    BY DEF p
  <1>4. Conserved([p EXCEPT ![S] = Tail(@), !["NULL"] = Append(@, Head(p[S]))], Held(m),
                  [st EXCEPT ![Head(p[S])] = "NULL"])
    BY <1>1, <1>3, MoveKeeps
  <1>5. Conserved(pool[m], Held(m), status[m])'
    BY <1>2, <1>4 DEF Held
  <1> QED
    BY <1>5 DEF RingKept

LEMMA PushKeeps ==
    ASSUME RingTypes, NEW m \in Media, RingKept(m), filling[m] \in Frames,
           push_next(m, filling[m]), input' = input, filling \in [Media -> Frames \union {NoFrame}]
    PROVE  RingKept(m)'
  <1>1. PICK i \in 1 .. Len(Ready(m)) + 1, q \in Seq(Frames) :
            Inserted(Ready(m), i, filling[m], q) /\ pool' = [pool EXCEPT ![m]["READY"] = q]
    BY Pushed
  <1>2. /\ pool'[m] = [pool[m] EXCEPT !["READY"] = q]
        /\ status'[m][filling[m]] = "READY" /\ Agree(status[m], status'[m], filling[m])
        /\ filling'[m] = NoFrame /\ "READY" \in Stages
    BY <1>1 DEF RingTypes, push_next, Stages, Agree
  <1> QED
    BY <1>1, <1>2, GiveKeeps DEF Ready

(* The actions that have nothing to do with the pools.                     *)
LEMMA RingsUntouched ==
    ASSUME Rings, UNCHANGED <<pool, status, filling, input>>
    PROVE  Rings'
  BY SameRing DEF Rings

LEMMA RingsStep ==
    ASSUME Base, Rings, [Next]_vars
    PROVE  Rings'
  <1>f. RingTypes /\ HandTypes /\ Hands /\ \A m \in Media : RingKept(m)
    BY DEF Base, Types, Rings
  <1>o. ASSUME NEW m \in Media, RingKept(m)',
               \A n \in Media : n # m => /\ pool'[n] = pool[n] /\ status'[n] = status[n]
                                         /\ filling'[n] = filling[n] /\ input'[n] = input[n]
        PROVE  Rings'
    BY <1>f, <1>o, SameRing DEF Rings
  <1>1. ASSUME NEW m \in Media, register(m) PROVE Rings'
    <2>1. PICK f \in Frames :
              /\ pool[m]["NULL"] # <<>> /\ f = Head(pool[m]["NULL"])
              /\ pool' = [pool EXCEPT ![m]["NULL"] = Tail(@)]
              /\ status' = [status EXCEPT ![m][f] = "EMPTY"]
              /\ filling' = [filling EXCEPT ![m] = f] /\ input' = input
      BY <1>1 DEF register, Claimed
    <2>2. filling[m] = NoFrame
      BY <1>f, <1>1 DEF register, Hands
    <2>3. /\ pool'[m] = [pool[m] EXCEPT !["NULL"] = Tail(@)] /\ filling'[m] = f /\ input'[m] = input[m]
          /\ Agree(status[m], status'[m], f)
      BY <1>f, <2>1 DEF RingTypes, HandTypes, Agree
    <2>4. RingKept(m)'
      BY <1>f, <2>1, <2>2, <2>3, ClaimKeeps DEF Stages
    <2> QED
      BY <1>f, <1>o, <2>1, <2>4 DEF RingTypes, HandTypes
  <1>2. ASSUME NEW m \in Media, import_frame(m) \/ import_end(m) PROVE Rings'
    <2>1. filling[m] \in Frames /\ push_next(m, filling[m]) /\ input' = input
      BY <1>f, <1>2 DEF import_frame, import_end, Hands, HandTypes
    <2>2. RingKept(m)'
      BY <1>f, <2>1, PushKeeps DEF HandTypes
    <2>3. PICK q : pool' = [pool EXCEPT ![m]["READY"] = q]
      BY <2>1 DEF push_next
    <2> QED
      BY <1>f, <1>o, <2>1, <2>2, <2>3 DEF RingTypes, HandTypes, push_next
  <1>3. ASSUME NEW m \in Media, NEW next, acquire(m, next) PROVE Rings'
    <2>1. PICK f \in Frames :
              /\ pool[m]["READY"] # <<>> /\ f = Head(pool[m]["READY"])
              /\ pool' = [pool EXCEPT ![m]["READY"] = Tail(@)]
              /\ status' = status
              /\ input' = [input EXCEPT ![m] = f] /\ filling' = filling
      BY <1>3 DEF acquire, Claimed
    <2>2. input[m] = NoFrame
      BY <1>f, <1>3, ThreadFacts DEF acquire, Hands, GivenUp, Between
    <2>3. pool'[m] = [pool[m] EXCEPT !["READY"] = Tail(@)] /\ filling'[m] = filling[m] /\ input'[m] = f
      BY <1>f, <2>1 DEF RingTypes, HandTypes
    <2>4. RingKept(m)'
      BY <1>f, <2>1, <2>2, <2>3, ClaimKeeps DEF Stages, Agree
    <2> QED
      BY <1>f, <1>o, <2>1, <2>4 DEF RingTypes, HandTypes
  <1>4. ASSUME NEW m \in Media, acquire_skipped(m) PROVE Rings'
    <2>1. /\ pool[m]["READY"] # <<>> /\ filling' = filling /\ input' = input
          /\ pool' = [pool EXCEPT ![m]["READY"] = Tail(@), ![m]["NULL"] = Append(@, Head(pool[m]["READY"]))]
          /\ status' = [status EXCEPT ![m][Head(pool[m]["READY"])] = "NULL"]
      BY <1>4 DEF acquire_skipped, hands
    <2>2. RingKept(m)'
      BY <1>f, <2>1, FreeKeeps DEF Stages
    <2> QED
      BY <1>f, <1>o, <2>1, <2>2 DEF RingTypes
  <1>5. CASE tc_export_frames
    <2>1. SUFFICES ASSUME NEW m \in Media PROVE RingKept(m)'
      BY DEF Rings
    <2>2. input[m] \in Frames
      BY <1>f, <1>5, ThreadFacts DEF tc_export_frames, Hands, HandTypes
    <2>3. /\ pool'[m] = [pool[m] EXCEPT !["NULL"] = Append(@, input[m])]
          /\ status'[m] = [status[m] EXCEPT ![input[m]] = "NULL"]
          /\ input'[m] = NoFrame /\ filling'[m] = filling[m]
      BY <1>5 DEF tc_export_frames, Both
    <2>4. pool[m]["NULL"] \in Seq(Frames) /\ "NULL" \in Stages
      BY <1>f DEF RingTypes, Stages
    <2>5. /\ Append(pool[m]["NULL"], input[m]) \in Seq(Frames)
          /\ Len(pool[m]["NULL"]) + 1 \in 1 .. Len(pool[m]["NULL"]) + 1
          /\ Inserted(pool[m]["NULL"], Len(pool[m]["NULL"]) + 1, input[m], Append(pool[m]["NULL"], input[m]))
      BY <2>2, <2>4, AppendInserts
    <2>6. /\ pool'[m] = [pool[m] EXCEPT !["NULL"] = Append(pool[m]["NULL"], input[m])]
          /\ status'[m][input[m]] = "NULL" /\ Agree(status[m], status'[m], input[m])
      BY <1>f, <2>2, <2>3, <2>4 DEF RingTypes, Agree
    <2> QED
      BY <1>f, <2>2, <2>3, <2>4, <2>5, <2>6, GiveKeeps
  <1>6. ASSUME NEW m \in Media, tc_frame_ring_flush(m) PROVE Rings'
    <2> DEFINE S == status[m][flushed[m] + 1]
    <2>1. filling' = filling /\ input' = input
      BY <1>6 DEF tc_frame_ring_flush, hands
    <2>2. \/ UNCHANGED <<pool, status>>
          \/ /\ S # "NULL" /\ pool[m][S] # <<>>
             /\ pool' = [pool EXCEPT ![m][S] = Tail(@), ![m]["NULL"] = Append(@, Head(pool[m][S]))]
             /\ status' = [status EXCEPT ![m][Head(pool[m][S])] = "NULL"]
      BY <1>6 DEF tc_frame_ring_flush, flush_frame
    <2>3. CASE UNCHANGED <<pool, status>>
      BY <2>1, <2>3, RingsUntouched
    <2>4. CASE pool' # pool \/ status' # status
      <3>1. S \in Stages
        <4>1. flushed[m] \in 0 .. Size /\ flushed[m] < Size
          BY <1>f, <1>6 DEF tc_frame_ring_flush, flush_more, HandTypes
        <4>2. flushed[m] + 1 \in Frames
          BY <4>1 DEF Frames
        <4> QED
          BY <1>f, <4>2 DEF RingTypes
      <3> HIDE DEF S
      <3>2. RingKept(m)'
        BY <1>f, <2>1, <2>2, <2>4, <3>1, FreeKeeps
      <3> QED
        BY <1>f, <1>o, <2>1, <2>2, <2>4, <3>2 DEF RingTypes
    <2> QED
      BY <2>3, <2>4
  <1>7. CASE UNCHANGED <<pool, status, filling, input>>
    BY <1>7, RingsUntouched
  <1>8. ASSUME NEW m \in Media,
               \/ import_loop(m) \/ register_interrupted(m) \/ next_file(m) \/ multi_import_end(m)
               \/ get_frame_wait(m, m, "NULL") \/ get_frame_wait(Main, m, "READY")
        PROVE  Rings'
    BY <1>8, <1>7 DEF import_loop, register_interrupted, next_file, multi_import_end, get_frame_wait, ring, hands
  <1>9. CASE \/ export_loop \/ acquire_interrupted \/ start \/ leave \/ tc_import_threads_cancel \/ join
             \/ tc_framebuffer_flush \/ next_range \/ next_unit \/ tc_stop_all \/ tc_interrupt \/ event_handler
             \/ UNCHANGED vars
    BY <1>9, <1>7 DEF export_loop, acquire_interrupted, start, leave, tc_import_threads_cancel, join,
       tc_framebuffer_flush, next_range, next_unit, tc_stop_all, tc_interrupt, event_handler, ring, hands, vars
  <1> QED
    BY <1>1, <1>2, <1>3, <1>4, <1>5, <1>6, <1>8, <1>9, ThreadFacts DEF Next, Import, MainThread, Ended

-----------------------------------------------------------------------------
(* Every step obeys the interruption.                                      *)

LEMMA InitObeyed == Init => Obeyed
  BY ThreadFacts DEF Init, Obeyed

LEMMA ObeyedStep ==
    ASSUME Base, Obeyed, [Next]_vars
    PROVE  Obeyed'
  <1>f. LabelTypes /\ HandTypes /\ Phases
    BY DEF Base, Types
  <1>1. ASSUME NEW m \in Media, Import(m) PROVE Obeyed'
    <2>1. UNCHANGED <<tc_run_status, late>> /\ \A t \in {Main, Event} : pc'[t] = pc[t]
      BY <1>f, <1>1, ThreadFacts DEF Import, import_loop, register, register_interrupted, get_frame_wait, import_frame,
         import_end, next_file, multi_import_end, Goto, LabelTypes, history
    <2> QED
      BY <2>1 DEF Obeyed
  <1>2. CASE \/ export_loop \/ acquire("video", "audio") \/ acquire("audio", "encode")
             \/ acquire_interrupted \/ leave \/ tc_import_threads_cancel \/ join
             \/ tc_framebuffer_flush \/ next_range \/ next_unit
    <2>1. UNCHANGED <<tc_run_status, late>> /\ pc'[Event] = pc[Event]
      BY <1>f, <1>2, ThreadFacts DEF export_loop, acquire, acquire_interrupted, leave, tc_import_threads_cancel, join,
         tc_framebuffer_flush, next_range, next_unit, open, Goto, LabelTypes, history
    <2>2. tc_run_status = "INTERRUPTED" /\ pc'[Main] \in {"video", "audio", "encode"}
          => pc[Main] \in {"video", "audio", "encode"}
      BY <1>f, <1>2, ThreadFacts DEF export_loop, acquire, acquire_interrupted, leave, tc_import_threads_cancel, join,
         tc_framebuffer_flush, next_range, next_unit, open, Goto, LabelTypes, tc_running, Media
    <2> QED
      BY <2>1, <2>2 DEF Obeyed
  <1>3. ASSUME NEW m \in Media,
               acquire_skipped(m) \/ get_frame_wait(Main, m, "READY") \/ tc_frame_ring_flush(m)
        PROVE  Obeyed'
    BY <1>3 DEF acquire_skipped, get_frame_wait, tc_frame_ring_flush, Obeyed, history
  <1>4. CASE tc_export_frames
    <2>1. /\ pc[Main] = "encode" /\ pc'[Event] = pc[Event] /\ pc'[Main] \in {"leave", "loop"}
          /\ tc_run_status' = tc_run_status
      BY <1>f, <1>4, ThreadFacts DEF tc_export_frames, Goto, LabelTypes
    <2>2. late' = late \/ late' = late + (IF tc_run_status = "INTERRUPTED" THEN 1 ELSE 0)
      BY <1>4 DEF tc_export_frames, history
    <2> QED
      BY <2>1, <2>2 DEF Obeyed
  <1>5. CASE start
    BY <1>f, <1>5, ThreadFacts DEF start, open, Obeyed, history
  <1>6. CASE tc_stop_all
    <2>1. /\ pc'[Event] = pc[Event] /\ pc'[Main] \in {"ended", "last_cancel"} /\ late' = late
          /\ tc_run_status' = "INTERRUPTED" => tc_run_status = "INTERRUPTED"
      BY <1>f, <1>6, ThreadFacts DEF tc_stop_all, Goto, LabelTypes, history
    <2> QED
      BY <2>1 DEF Obeyed
  <1>7. CASE tc_interrupt
    <2>1. pc[Event] = "wait" /\ pc'[Event] = "wake" /\ late' = late
      BY <1>f, <1>7, ThreadFacts DEF tc_interrupt, Goto, LabelTypes, history
    <2> QED
      BY <2>1 DEF Obeyed
  <1>8. CASE event_handler
    <2>1. pc'[Event] = "done" /\ UNCHANGED <<tc_run_status, late>> /\ pc'[Main] = pc[Main] /\ pc[Event] # "wait"
      BY <1>f, <1>8, ThreadFacts DEF event_handler, Goto, LabelTypes, history
    <2> QED
      BY <2>1 DEF Obeyed
  <1>9. CASE UNCHANGED vars
    BY <1>9 DEF vars, Obeyed
  <1> QED
    BY <1>1, <1>2, <1>3, <1>4, <1>5, <1>6, <1>7, <1>8, <1>9 DEF Next, MainThread, Ended

-----------------------------------------------------------------------------
(* The course of a part.                                                   *)

LEMMA LeastOfThree ==
    ASSUME NEW a \in Nat, NEW b \in Nat, NEW c \in Nat
    PROVE  LET x == Least({a, b, c})
           IN  x \in {a, b, c} /\ x <= a /\ x <= b /\ x <= c
  <1>1. \E x \in {a, b, c} : \A y \in {a, b, c} : x <= y
    <2>1. CASE a <= b /\ a <= c
      BY <2>1
    <2>2. CASE b <= a /\ b <= c
      BY <2>2
    <2>3. CASE c <= a /\ c <= b
      BY <2>3
    <2> QED
      BY <2>1, <2>2, <2>3
  <1> QED
    BY <1>1 DEF Least

(* The least of what ends a part.                                          *)
LEMMA LimitFacts ==
    ASSUME SourceTypes
    PROVE  /\ ThisPart.first \in Nat /\ ThisPart.last \in Nat
           /\ ThisPart["video"] \in Nat /\ ThisPart["audio"] \in Nat
           /\ Limit \in {ThisPart.last, ThisPart["video"], ThisPart["audio"]}
           /\ Limit <= ThisPart.last /\ Limit <= ThisPart["video"] /\ Limit <= ThisPart["audio"]
           /\ Limit \in Nat
           /\ Pairs(ThisPart) = Limit + 1
           /\ \A m \in Media : Leftover(ThisPart, m) = (ThisPart[m] + 1) - (Limit + 1)
  <1>1. /\ ThisPart.first \in Nat /\ ThisPart.last \in Nat
        /\ ThisPart["video"] \in Nat /\ ThisPart["audio"] \in Nat
    BY SessionFacts, ThreadFacts DEF SourceTypes, ThisPart
  <1>2. /\ Limit \in {ThisPart.last, ThisPart["video"], ThisPart["audio"]}
        /\ Limit <= ThisPart.last /\ Limit <= ThisPart["video"] /\ Limit <= ThisPart["audio"]
    BY <1>1, LeastOfThree DEF Limit
  <1>3. Pairs(ThisPart) = Limit + 1
    BY DEF Pairs, Limit
  <1>4. \A m \in Media : Leftover(ThisPart, m) = (ThisPart[m] + 1) - (Limit + 1)
    <2>1. \A m \in Media : ThisPart[m] \in Nat
      BY <1>1, ThreadFacts
    <2>2. Pairs(ThisPart) \in Nat
      BY <1>1, <1>2, <1>3
    <2> QED
      BY <1>3, <2>1, <2>2 DEF Leftover
  <1> QED
    BY <1>1, <1>2, <1>3, <1>4

(* Without an interruption the program runs, and the main thread has no    *)
(* frame that it does not encode.                                          *)
LEMMA QuietFacts ==
    ASSUME Base, Obeyed, Quiet
    PROVE  /\ tc_run_status # "INTERRUPTED"
           /\ pc[Main] \in Encoding \union Between \union {"leave"} => tc_running
           /\ pc[Main] \notin {"audio", "encode"} => input["video"] = NoFrame
           /\ pc[Main] # "encode" => input["audio"] = NoFrame
           /\ \A m \in Media : pc[Main] \notin {"audio", "encode"} => input[m] = NoFrame
  <1>1. tc_run_status # "INTERRUPTED"
    BY DEF Quiet, Obeyed
  <1>2. pc[Main] \in Encoding \union Between \union {"leave"} => tc_running
    BY <1>1 DEF Base, Types, HandTypes, Phases, Encoding, Between, tc_running
  <1>3. /\ pc[Main] \notin {"audio", "encode"} => input["video"] = NoFrame
        /\ pc[Main] # "encode" => input["audio"] = NoFrame
    BY <1>1 DEF Base, Hands, GivenUp
  <1> QED
    BY <1>1, <1>2, <1>3, ThreadFacts

(* The frames in READY are not in any hands, and those have different      *)
(* frames.                                                                 *)
LEMMA ReadyFacts ==
    ASSUME Base, Rings, NEW m \in Media
    PROVE  /\ Ready(m) \in Seq(Frames)
           /\ \A i \in DOMAIN Ready(m) : /\ Ready(m)[i] # filling[m] /\ Ready(m)[i] # input[m]
                                         /\ Ready(m)[i] \in Frames
                                         /\ status[m][Ready(m)[i]] = "READY"
           /\ filling[m] = input[m] => filling[m] = NoFrame
           /\ "READY" \in Stages
  <1>1. Ready(m) \in Seq(Frames) /\ "READY" \in Stages
    BY DEF Base, Types, RingTypes, Ready, Stages
  <1>2. /\ Range(Ready(m)) \intersect Held(m) = {}
        /\ \A f \in Range(Ready(m)) : status[m][f] = "READY"
        /\ filling[m] = input[m] => filling[m] = NoFrame
    BY <1>1 DEF Rings, RingKept, Conserved, Ready
  <1>3. \A i \in DOMAIN Ready(m) : Ready(m)[i] \in Range(Ready(m)) /\ Ready(m)[i] \in Frames
    BY <1>1 DEF Range
  <1>4. NoFrame \notin Frames
    BY ThreadFacts
  <1> QED
    BY <1>1, <1>2, <1>3, <1>4 DEF Held

LEMMA SameLine ==
    ASSUME NEW m \in Media, Line(m), UNCHANGED <<session, part>>, file'[m] = file[m], read'[m] = read[m],
           active'[m] = active[m], framecount'[m] = framecount[m], pc'[m] = pc[m], pool'[m] = pool[m],
           filling'[m] = filling[m], input'[m] = input[m], id'[m] = id[m], mark'[m] = mark[m],
           origin'[m] = origin[m]
    PROVE  Line(m)' /\ Taken(m)' = Taken(m) /\ Done(m)' = Done(m)
  <1>1. Ready(m)' = Ready(m) /\ Made(m)' = Made(m) /\ ThisPart' = ThisPart
    BY DEF Ready, Made, ThisPart
  <1>2. Taken(m)' = Taken(m)
    BY <1>1 DEF Taken
  <1>3. Done(m)' = Done(m)
    BY <1>2 DEF Done
  <1>4. \A f, p : Placed(m, f, p) => Placed(m, f, p)'
    BY <1>1 DEF Placed
  <1>5. Line(m)'
    BY <1>1, <1>2, <1>4 DEF Line
  <1> QED
    BY <1>2, <1>3, <1>5

(* What an import thread leaves alone.                                     *)
LEMMA ImportFrame ==
    ASSUME Base, NEW m \in Media, Import(m)
    PROVE  /\ UNCHANGED <<session, part, tc_run_status, flushed, encoded, input>>
           /\ pc'[Main] = pc[Main] /\ pc'[Event] = pc[Event]
           /\ \A n \in Media : n # m =>
                /\ file'[n] = file[n] /\ read'[n] = read[n] /\ active'[n] = active[n]
                /\ framecount'[n] = framecount[n] /\ pc'[n] = pc[n] /\ pool'[n] = pool[n]
                /\ filling'[n] = filling[n] /\ id'[n] = id[n] /\ mark'[n] = mark[n]
                /\ origin'[n] = origin[n]
           /\ framecount' \in [Media -> Nat] /\ \A n \in Media : framecount[n] <= framecount'[n]
           /\ pc[m] \notin {"none", "done"}
  <1>f. SourceTypes /\ LabelTypes /\ RingTypes /\ HandTypes
    BY DEF Base, Types
  <1>1. UNCHANGED <<session, part, tc_run_status, flushed, encoded, input>> /\ pc[m] \notin {"none", "done"}
    BY DEF Import, import_loop, register, register_interrupted, get_frame_wait, import_frame, import_end,
       next_file, multi_import_end, history, hands
  <1>2. pc'[Main] = pc[Main] /\ pc'[Event] = pc[Event] /\ \A n \in Media : n # m => pc'[n] = pc[n]
    <2>1. pc' = pc \/ \E l : pc' = [pc EXCEPT ![m] = l]
      BY DEF Import, import_loop, register, register_interrupted, get_frame_wait, import_frame, import_end,
         next_file, multi_import_end, Goto
    <2> QED
      BY <1>f, <2>1, ThreadFacts DEF LabelTypes
  <1>3. \A n \in Media : n # m => /\ file'[n] = file[n] /\ read'[n] = read[n] /\ active'[n] = active[n]
                                  /\ framecount'[n] = framecount[n]
    BY <1>f DEF Import, import_loop, register, register_interrupted, get_frame_wait, import_frame, import_end,
       next_file, multi_import_end, source, SourceTypes
  <1>4. \A n \in Media : n # m => /\ id'[n] = id[n] /\ mark'[n] = mark[n] /\ origin'[n] = origin[n]
                                  /\ filling'[n] = filling[n]
    BY <1>f DEF Import, import_loop, register, register_interrupted, get_frame_wait, import_frame, import_end,
       next_file, multi_import_end, push_next, ring, hands, RingTypes, HandTypes
  <1>5. \A n \in Media : n # m => pool'[n] = pool[n]
    <2>1. CASE register(m)
      <3>1. pool' = [pool EXCEPT ![m]["NULL"] = Tail(@)]
        BY <2>1 DEF register, Claimed
      <3> QED
        BY <1>f, <3>1 DEF RingTypes
    <2>2. CASE import_frame(m) \/ import_end(m)
      <3>1. PICK q : pool' = [pool EXCEPT ![m]["READY"] = q]
        BY <2>2 DEF import_frame, import_end, push_next
      <3> QED
        BY <1>f, <3>1 DEF RingTypes
    <2>3. CASE ~(register(m) \/ import_frame(m) \/ import_end(m))
      BY <2>3 DEF Import, import_loop, register_interrupted, get_frame_wait, next_file, multi_import_end, ring
    <2> QED
      BY <2>1, <2>2, <2>3
  <1>6. framecount' \in [Media -> Nat] /\ \A n \in Media : framecount[n] <= framecount'[n]
    <2>1. framecount' = framecount \/ framecount' = [framecount EXCEPT ![m] = @ + 1]
      BY DEF Import, import_loop, register, register_interrupted, get_frame_wait, import_frame, import_end,
         next_file, multi_import_end, source
    <2>2. framecount \in [Media -> Nat]
      BY <1>f DEF SourceTypes
    <2> QED
      BY <2>1, <2>2
  <1> QED
    BY <1>1, <1>2, <1>3, <1>4, <1>5, <1>6

(* A frame that is pushed is the last one in READY: its id is the highest. *)
LEMMA PushedLast ==
    ASSUME Base, Rings, NEW m \in Media, Line(m), pc[m] = "fill", push_next(m, filling[m])
    PROVE  /\ active[m] /\ filling[m] \in Frames
           /\ Ready(m)' \in Seq(Frames) /\ Len(Ready(m)') = Len(Ready(m)) + 1
           /\ Ready(m)'[Len(Ready(m)) + 1] = filling[m]
           /\ \A k \in DOMAIN Ready(m) : Ready(m)'[k] = Ready(m)[k]
  <1>1. RingTypes /\ filling[m] \in Frames /\ read[m] \in Nat /\ framecount[m] \in Nat
        /\ read[m] <= framecount[m]
    BY DEF Base, Types, Hands, HandTypes, SourceTypes
  <1>2. active[m] /\ Made(m) = read[m] /\ id[m][filling[m]] = framecount[m]
    <2>1. active[m]
      <3>1. ~active[m] => pc[m] \in {"returned", "interrupt", "done"}
        BY DEF Line
      <3> QED
        BY <3>1
    <2> QED
      BY <1>1, <2>1 DEF Line, Made
  <1>3. Ready(m) \in Seq(Frames) /\ Len(Ready(m)) \in Nat /\ DOMAIN Ready(m) = 1 .. Len(Ready(m))
    BY ReadyFacts
  <1>4. \A k \in 1 .. Len(Ready(m)) :
            id[m][Ready(m)[k]] = (framecount[m] - read[m]) + (((read[m] - Len(Ready(m))) + k) - 1)
    BY <1>2, <1>3 DEF Line, Placed, Taken
  <1>5. \A k \in 1 .. Len(Ready(m)) : id[m][Ready(m)[k]] < framecount[m]
    BY <1>1, <1>3, <1>4
  <1>6. PICK i \in 1 .. Len(Ready(m)) + 1, q \in Seq(Frames) :
            /\ Inserted(Ready(m), i, filling[m], q)
            /\ \A k \in i .. Len(Ready(m)) : id[m][filling[m]] <= id[m][Ready(m)[k]]
            /\ pool' = [pool EXCEPT ![m]["READY"] = q]
    BY <1>1, Pushed
  <1>7. i = Len(Ready(m)) + 1
    <2>1. SUFFICES ASSUME i <= Len(Ready(m)) PROVE FALSE
      BY <1>3
    <2>2. i \in i .. Len(Ready(m)) /\ i \in 1 .. Len(Ready(m))
      BY <1>3, <2>1
    <2>3. framecount[m] <= id[m][Ready(m)[i]] /\ id[m][Ready(m)[i]] < framecount[m]
      BY <1>2, <1>5, <1>6, <2>2
    <2>4. id[m][Ready(m)[i]] \in Nat
      <3>1. Ready(m)[i] \in Frames
        BY <1>3, <2>2
      <3> QED
        BY <1>1, <3>1 DEF RingTypes
    <2> QED
      BY <1>1, <2>3, <2>4
  <1>8. Ready(m)' = q
    BY <1>1, <1>6, ReadyFacts DEF Ready, RingTypes
  <1> QED
    BY <1>1, <1>2, <1>3, <1>6, <1>7, <1>8 DEF Inserted

LEMMA OneFile ==
    ASSUME SourceTypes, mode = "directory" => Len(session.parts) = 1, NEW m \in Media
    PROVE  ~has_more_files(m)
  <1>1. CASE mode = "directory"
    <2>1. file[m] \in 1 .. Len(session.parts) /\ Len(session.parts) = 1
      BY <1>1, SessionFacts DEF SourceTypes
    <2>2. file[m] \in 1 .. 1
      BY <2>1
    <2> QED
      BY <2>1, <2>2 DEF has_more_files
  <1>2. CASE mode # "directory"
    BY <1>2 DEF has_more_files
  <1> QED
    BY <1>1, <1>2

(* The import thread fills a frame: the line is longer by one.             *)
LEMMA FilledLine ==
    ASSUME Base, Rings, NEW m \in Media, Line(m),
           mode = "directory" => Len(session.parts) = 1,
           import_frame(m) \/ import_end(m)
    PROVE  Line(m)' /\ Taken(m)' = Taken(m) /\ Done(m)' = Done(m)
  <1> DEFINE f == filling[m]
             n == Len(Ready(m))
  <1>1. /\ SourceTypes /\ LabelTypes /\ RingTypes /\ HandTypes
        /\ read[m] \in Nat /\ framecount[m] \in Nat /\ file[m] = part
    BY DEF Base, Types, SourceTypes, Line
  <1>2. /\ active[m] /\ f \in Frames /\ Ready(m)' \in Seq(Frames) /\ Len(Ready(m)') = n + 1
        /\ Ready(m)'[n + 1] = f /\ \A k \in DOMAIN Ready(m) : Ready(m)'[k] = Ready(m)[k]
    BY PushedLast DEF import_frame, import_end
  <1>3. Ready(m) \in Seq(Frames) /\ n \in Nat /\ DOMAIN Ready(m) = 1 .. n /\ DOMAIN Ready(m)' = 1 .. n + 1
        /\ \A k \in 1 .. n : Ready(m)[k] # f /\ Ready(m)[k] \in Frames
    BY <1>2, ReadyFacts
  <1>4. input[m] # f /\ (input[m] = NoFrame \/ input[m] \in Frames) /\ f # NoFrame
    BY <1>1, <1>2, ReadyFacts, ThreadFacts DEF HandTypes
  <1>5. id[m][f] = framecount[m] /\ mark[m][f] = "no"
    BY DEF Line, import_frame, import_end
  <1>6. /\ UNCHANGED <<session, part, input>> /\ ThisPart' = ThisPart
        /\ id' = id /\ file' = file
        /\ origin'[m][f] = <<part, read[m]>>
        /\ \A g \in Frames : g # f => origin'[m][g] = origin[m][g] /\ mark'[m][g] = mark[m][g]
    <2>1. UNCHANGED <<session, part, input>> /\ id' = id /\ file' = file
          /\ origin' = [origin EXCEPT ![m][f] = <<file[m], read[m]>>]
          /\ (mark' = mark \/ \E x : mark' = [mark EXCEPT ![m][f] = x])
      BY DEF import_frame, import_end
    <2> HIDE DEF f
    <2> QED
      BY <1>1, <1>2, <2>1 DEF RingTypes, ThisPart
  <1>7. \/ /\ import_frame(m) /\ read[m] # ThisPart[m]
           /\ read'[m] = read[m] + 1 /\ framecount'[m] = framecount[m] + 1 /\ active'[m] /\ pc'[m] = "loop"
           /\ mark'[m][f] = "no"
        \/ /\ import_end(m) /\ read[m] = ThisPart[m]
           /\ read'[m] = read[m] /\ framecount'[m] = framecount[m] /\ ~active'[m] /\ pc'[m] = "returned"
           /\ mark'[m][f] = "eos"
    <2>1. CASE import_frame(m)
      BY <1>1, <1>5, <2>1, ThreadFacts
      DEF import_frame, AtEnd, Goto, SourceTypes, LabelTypes, ThisPart, RingTypes, Line, Busy
    <2>2. CASE import_end(m)
      <3>1. ~has_more_files(m)
        BY <1>1, OneFile
      <3>2. mark' = [mark EXCEPT ![m][f] = "eos"]
        BY <2>2, <3>1 DEF import_end
      <3>3. mark'[m][f] = "eos"
        BY <1>1, <1>2, <3>2 DEF RingTypes
      <3> QED
        BY <1>1, <2>2, <3>3, ThreadFacts DEF import_end, AtEnd, Goto, SourceTypes, LabelTypes, ThisPart
    <2> QED
      BY <2>1, <2>2
  <1> HIDE DEF f, n
  <1>8. Made(m) = read[m] /\ Made(m)' = read[m] + 1 /\ Taken(m) = read[m] - n
    BY <1>1, <1>2, <1>7 DEF Made, Taken, n
  <1>9. Taken(m)' = Taken(m)
    BY <1>1, <1>2, <1>3, <1>8 DEF Taken
  <1>10. Done(m)' = Done(m)
    BY <1>6, <1>9 DEF Done
  <1>11. framecount'[m] - read'[m] = framecount[m] - read[m]
    BY <1>1, <1>7
  <1>12. \A g \in Frames : \A p : g # f /\ Placed(m, g, p) => Placed(m, g, p)'
    BY <1>6, <1>11 DEF Placed
  <1>13. \A g, p : g = f /\ p = read[m] => Placed(m, g, p)'
    <2>1. framecount[m] = (framecount[m] - read[m]) + read[m]
      BY <1>1
    <2> QED
      BY <1>5, <1>6, <1>7, <1>11, <2>1 DEF Placed
  <1>14. \A i \in 1 .. n + 1 : Placed(m, Ready(m)[i], (Taken(m) + i) - 1)'
    <2>1. ASSUME NEW i \in 1 .. n PROVE Placed(m, Ready(m)[i], (Taken(m) + i) - 1)'
      <3>1. Placed(m, Ready(m)[i], (Taken(m) + i) - 1)
        BY <1>3 DEF Line
      <3>2. \A g, p : g = Ready(m)[i] /\ p = (Taken(m) + i) - 1 => Placed(m, g, p)'
        BY <1>3, <1>12, <3>1
      <3> QED
        BY <1>2, <1>3, <1>9, <3>2
    <2>2. (Taken(m)' + (n + 1)) - 1 = read[m]
      BY <1>1, <1>3, <1>8, <1>9
    <2>3. \A i : i = n + 1 => Placed(m, Ready(m)[i], (Taken(m) + i) - 1)'
      BY <1>2, <1>13, <2>2 DEF n
    <2> QED
      BY <1>3, <2>1, <2>3
  <1>15. (input[m] # NoFrame => Placed(m, input[m], Taken(m) - 1))'
    BY <1>4, <1>6, <1>9, <1>12 DEF Line
  <1>16. Line(m)'
    BY <1>1, <1>3, <1>6, <1>7, <1>14, <1>15 DEF Line, Busy
  <1> QED
    BY <1>9, <1>10, <1>16

(* The import thread claims a frame that is not in the line.               *)
LEMMA ClaimedLine ==
    ASSUME Base, Rings, NEW m \in Media, Line(m), register(m)
    PROVE  Line(m)' /\ Taken(m)' = Taken(m) /\ Done(m)' = Done(m)
  <1>1. RingTypes /\ HandTypes /\ LabelTypes /\ file[m] = part
    BY DEF Base, Types, Line
  <1>2. PICK f \in Frames :
            /\ pool[m]["NULL"] # <<>> /\ f = Head(pool[m]["NULL"])
            /\ pool' = [pool EXCEPT ![m]["NULL"] = Tail(@)]
            /\ id' = [id EXCEPT ![m][f] = framecount[m]]
            /\ mark' = [mark EXCEPT ![m][f] = "no"]
            /\ filling' = [filling EXCEPT ![m] = f]
    BY DEF register, Claimed
  <1>3. f \in Range(pool[m]["NULL"])
    <2>1. pool[m]["NULL"] \in Seq(Frames)
      BY <1>1 DEF RingTypes, Stages
    <2> QED
      BY <1>2, <2>1, TailElements
  <1>4. "NULL" \in Stages /\ Conserved(pool[m], Held(m), status[m])
    BY DEF Stages, Rings, RingKept
  <1>5. f # input[m] /\ status[m][f] = "NULL"
    <2>1. f \notin Held(m) /\ f # NoFrame
      BY <1>3, <1>4, ThreadFacts DEF Conserved
    <2> QED
      BY <1>3, <1>4, <2>1 DEF Conserved, Held
  <1>6. \A i \in DOMAIN Ready(m) : Ready(m)[i] # f /\ Ready(m)[i] \in Frames
    BY <1>5, ReadyFacts
  <1>7. /\ UNCHANGED <<session, part, file, read, active, framecount, input, origin>>
        /\ pc[m] = "register" /\ pc'[m] = "fill"
    BY <1>1, ThreadFacts DEF register, Goto, LabelTypes, source
  <1>8. Ready(m)' = Ready(m) /\ Made(m)' = Made(m) /\ ThisPart' = ThisPart
    BY <1>1, <1>2, <1>7 DEF Ready, Made, ThisPart, RingTypes, Stages
  <1>9. Taken(m)' = Taken(m) /\ Done(m)' = Done(m)
    BY <1>7, <1>8 DEF Taken, Done
  <1>10. /\ \A g \in Frames : g # f => id'[m][g] = id[m][g] /\ mark'[m][g] = mark[m][g]
         /\ filling'[m] = f /\ id'[m][f] = framecount[m] /\ mark'[m][f] = "no"
    BY <1>1, <1>2 DEF RingTypes, HandTypes
  <1>11. \A g \in Frames : \A p : g # f /\ Placed(m, g, p) => Placed(m, g, p)'
    BY <1>7, <1>8, <1>10 DEF Placed
  <1>12. (\A i \in DOMAIN Ready(m) : Placed(m, Ready(m)[i], (Taken(m) + i) - 1))'
    BY <1>6, <1>8, <1>9, <1>11 DEF Line
  <1>13. (input[m] # NoFrame => Placed(m, input[m], Taken(m) - 1))'
    <2>1. input[m] = NoFrame \/ input[m] \in Frames
      BY <1>1 DEF HandTypes
    <2> QED
      BY <1>5, <1>7, <1>9, <1>11, <2>1 DEF Line
  <1>14. active[m]
    <2>1. ~active[m] => pc[m] \in {"returned", "interrupt", "done"}
      BY DEF Line
    <2> QED
      BY <1>7, <2>1
  <1>15. (pc[m] \in IF active[m] THEN Busy ELSE {"returned", "interrupt", "done"})'
    BY <1>7, <1>14 DEF Busy
  <1> QED
    BY <1>7, <1>8, <1>9, <1>10, <1>12, <1>13, <1>14, <1>15 DEF Line

(* In all other steps of it the line stays as it is.                       *)
LEMMA KeptLine ==
    ASSUME Base, Obeyed, Quiet, NEW m \in Media, Line(m), pc[Main] \in Encoding \union {"leave"},
           \/ import_loop(m) \/ register_interrupted(m) \/ next_file(m) \/ multi_import_end(m)
           \/ pc[m] = "register" /\ get_frame_wait(m, m, "NULL")
    PROVE  Line(m)' /\ Taken(m)' = Taken(m) /\ Done(m)' = Done(m)
  <1>1. LabelTypes /\ SourceTypes /\ tc_running
    BY QuietFacts DEF Base, Types
  <1>2. ~has_more_files(m)
    BY <1>1, OneFile DEF Quiet
  <1>3. UNCHANGED <<session, part, file, read, active, framecount, filling, input, pool, id, mark, origin>>
    BY <1>2 DEF import_loop, register_interrupted, next_file, multi_import_end, get_frame_wait,
       source, hands, ring
  <1>4. active[m] => pc[m] \in Busy
    BY DEF Line
  <1>5. ~active[m] => pc[m] \in {"returned", "interrupt", "done"}
    BY DEF Line
  <1>6. IF active[m] THEN pc'[m] \in {"loop", "register"} ELSE pc'[m] \in {"interrupt", "done"}
    <2>1. CASE import_loop(m)
      BY <1>1, <1>5, <2>1, ThreadFacts DEF import_loop, Goto, LabelTypes
    <2>2. CASE register_interrupted(m)
      BY <1>1, <2>2 DEF register_interrupted, Interrupted
    <2>3. CASE next_file(m)
      BY <1>1, <1>2, <1>4, <2>3, ThreadFacts DEF next_file, Goto, LabelTypes, Busy
    <2>4. CASE multi_import_end(m)
      BY <1>1, <1>4, <2>4, ThreadFacts DEF multi_import_end, Goto, LabelTypes, Busy
    <2>5. CASE pc[m] = "register" /\ get_frame_wait(m, m, "NULL")
      BY <1>5, <2>5 DEF get_frame_wait
    <2> QED
      BY <2>1, <2>2, <2>3, <2>4, <2>5
  <1>7. Ready(m)' = Ready(m) /\ Made(m)' = Made(m) /\ ThisPart' = ThisPart
    BY <1>3 DEF Ready, Made, ThisPart
  <1>8. Taken(m)' = Taken(m) /\ Done(m)' = Done(m)
    BY <1>3, <1>7 DEF Taken, Done
  <1>9. \A g, p : Placed(m, g, p) => Placed(m, g, p)'
    BY <1>3, <1>7 DEF Placed
  <1>10. (pc[m] \in IF active[m] THEN Busy ELSE {"returned", "interrupt", "done"})' /\ pc'[m] # "fill"
    BY <1>3, <1>6 DEF Busy
  <1> QED
    BY <1>3, <1>7, <1>8, <1>9, <1>10 DEF Line

LEMMA ImportLine ==
    ASSUME Base, Rings, Obeyed, Quiet, NEW m \in Media, Line(m), Import(m),
           pc[Main] \in Encoding \union {"leave"}
    PROVE  Line(m)' /\ Taken(m)' = Taken(m) /\ Done(m)' = Done(m)
  BY ClaimedLine, FilledLine, KeptLine DEF Import, Quiet

(* What is taken for granted of a state was so before it.                  *)
LEMMA ImportQuiet ==
    ASSUME Base, NEW m \in Media, Import(m), Quiet'
    PROVE  Quiet
  <1>1. /\ UNCHANGED <<session, part>> /\ pc'[Event] = pc[Event]
        /\ framecount'["video"] \in Nat /\ framecount["video"] \in Nat
        /\ framecount["video"] <= framecount'["video"]
    BY ImportFrame, ThreadFacts DEF Base, Types, SourceTypes
  <1>2. \A k \in 2 .. part : Endless(k)' => Endless(k)
    <2>1. SourceTypes /\ part \in Nat
      BY SessionFacts DEF Base, Types, SourceTypes
    <2>2. \A k \in 2 .. part : session.parts[k].last \in Nat
      BY <2>1, SessionFacts DEF SourceTypes
    <2> QED
      BY <1>1, <2>2 DEF Endless
  <1>3. CleanBefore(part)' => CleanBefore(part)
    BY <1>1 DEF CleanBefore, LeavesAtMost
  <1> QED
    BY <1>1, <1>2, <1>3 DEF Quiet, mode

(* While the main thread cancels or joins, an import thread puts a frame   *)
(* into READY for each it reads, and one more at the end.                  *)
LEMMA ImportLeaves ==
    ASSUME Base, Rings, NEW m \in Media, Import(m), mode # "directory", file[m] = part,
           Len(Ready(m)) + Pairs(ThisPart) <= read[m] + (IF pc[m] \in Busy THEN 0 ELSE 1)
    PROVE  /\ file'[m] = part
           /\ Len(Ready(m)') + Pairs(ThisPart) <= read'[m] + (IF pc'[m] \in Busy THEN 0 ELSE 1)
  <1>1. LabelTypes /\ SourceTypes /\ RingTypes /\ HandTypes /\ ~has_more_files(m)
        /\ read[m] \in Nat /\ Pairs(ThisPart) \in Nat
    BY LimitFacts DEF Base, Types, SourceTypes, has_more_files
  <1>2. Ready(m) \in Seq(Frames) /\ Len(Ready(m)) \in Nat
    BY ReadyFacts
  <1>3. file' = file
    BY <1>1 DEF Import, import_loop, register, register_interrupted, get_frame_wait, import_frame, import_end,
       next_file, multi_import_end, source
  <1>4. CASE import_frame(m) \/ import_end(m)
    <2>1. filling[m] \in Frames /\ push_next(m, filling[m]) /\ pc[m] = "fill"
      BY <1>1, <1>4 DEF import_frame, import_end, Base, Hands, HandTypes
    <2>2. PICK i \in 1 .. Len(Ready(m)) + 1, q \in Seq(Frames) :
              Inserted(Ready(m), i, filling[m], q) /\ pool' = [pool EXCEPT ![m]["READY"] = q]
      BY <1>1, <2>1, Pushed
    <2>3. Len(Ready(m)') = Len(Ready(m)) + 1
      <3>1. Ready(m)' = q
        BY <1>1, <2>2, ReadyFacts DEF Ready, RingTypes
      <3> QED
        BY <2>2, <3>1 DEF Inserted
    <2>4. CASE import_frame(m)
      <3>1. read'[m] = read[m] + 1 /\ pc'[m] = "loop"
        BY <1>1, <2>4, ThreadFacts DEF import_frame, Goto, SourceTypes, LabelTypes
      <3> QED
        BY <1>1, <1>2, <1>3, <2>1, <2>3, <3>1 DEF Busy
    <2>5. CASE import_end(m)
      <3>1. read'[m] = read[m] /\ pc'[m] = "returned"
        BY <1>1, <2>5, ThreadFacts DEF import_end, Goto, LabelTypes
      <3> QED
        BY <1>1, <1>2, <1>3, <2>1, <2>3, <3>1 DEF Busy
    <2> QED
      BY <1>4, <2>4, <2>5
  <1>5. CASE ~(import_frame(m) \/ import_end(m))
    <2>1. read' = read
      BY <1>1, <1>5 DEF Import, import_loop, register, register_interrupted, get_frame_wait, next_file,
         multi_import_end, source
    <2>2. Ready(m)' = Ready(m)
      <3>1. pool' = pool \/ pool' = [pool EXCEPT ![m]["NULL"] = Tail(@)]
        BY <1>5 DEF Import, import_loop, register, register_interrupted, get_frame_wait, next_file,
           multi_import_end, Claimed, ring
      <3> QED
        BY <1>1, <3>1 DEF Ready, RingTypes, Stages
    <2>3. pc'[m] \in Busy => pc[m] \in Busy
      <3>1. \/ pc' = pc
            \/ pc[m] \in Busy
            \/ pc' = [pc EXCEPT ![m] = "interrupt"] \/ pc' = [pc EXCEPT ![m] = "done"]
        BY <1>1, <1>5 DEF Import, import_loop, register, register_interrupted, get_frame_wait, next_file,
           multi_import_end, Goto, Busy
      <3> QED
        BY <1>1, <3>1, ThreadFacts DEF LabelTypes, Busy
    <2> QED
      BY <1>1, <1>2, <1>3, <2>1, <2>2, <2>3
  <1> QED
    BY <1>4, <1>5

LEMMA ImportLater ==
    ASSUME Base, Later, NEW m \in Media, Import(m)
    PROVE  Later'
  BY ImportFrame DEF Later

LEMMA ImportInLoop ==
    ASSUME Base, Rings, Obeyed, Quiet, InLoop, NEW m \in Media, Import(m)
    PROVE  InLoop'
  <1>1. SUFFICES ASSUME pc[Main] \in Encoding \union {"leave"} PROVE InLoop'
    BY ImportFrame DEF InLoop
  <1>2. \A n \in Media : Line(n)
    BY <1>1 DEF InLoop
  <1>3. UNCHANGED <<session, part, encoded, input>> /\ pc'[Main] = pc[Main]
    BY ImportFrame
  <1>4. \A n \in Media : Line(n)' /\ Taken(n)' = Taken(n) /\ Done(n)' = Done(n)
    <2>1. Line(m)' /\ Taken(m)' = Taken(m) /\ Done(m)' = Done(m)
      BY <1>1, <1>2, ImportLine
    <2>2. ASSUME NEW n \in Media, n # m PROVE Line(n)' /\ Taken(n)' = Taken(n) /\ Done(n)' = Done(n)
      BY <1>2, <1>3, <2>2, ImportFrame, SameLine
    <2> QED
      BY <2>1, <2>2
  <1>5. Limit' = Limit /\ ThisPart' = ThisPart
    BY <1>3 DEF Limit, ThisPart
  <1>6. \A n : Encodes(n) => Encodes(n)'
    BY <1>3, <1>5 DEF Encodes
  <1>7. Done("video")' = Done("video") /\ Done("audio")' = Done("audio")
    BY <1>4, ThreadFacts
  <1> QED
    BY <1>1, <1>3, <1>4, <1>5, <1>6, <1>7 DEF InLoop

LEMMA ImportLeftOver ==
    ASSUME Base, Rings, Obeyed, Quiet, LeftOver, NEW m \in Media, Import(m)
    PROVE  LeftOver'
  <1>1. UNCHANGED <<session, part, flushed>> /\ pc'[Main] = pc[Main] /\ pc[m] \notin {"none", "done"}
    BY ImportFrame
  <1>2. pc[Main] \notin {"start", "flush", "next"}
    BY <1>1 DEF Base, Phases
  <1>3. SUFFICES ASSUME pc[Main] \in {"cancel", "join"} PROVE LeftOver'
    BY <1>1, <1>2 DEF LeftOver
  <1>4. mode # "directory"
    BY <1>3 DEF Base, Phases, Between
  <1>5. \A n \in Media : file[n] = part
                         /\ Len(Ready(n)) + Pairs(ThisPart) <= read[n] + (IF pc[n] \in Busy THEN 0 ELSE 1)
    BY <1>3 DEF LeftOver
  <1>6. \A n \in Media : file'[n] = part
                         /\ Len(Ready(n)') + Pairs(ThisPart) <= read'[n] + (IF pc'[n] \in Busy THEN 0 ELSE 1)
    <2>1. ASSUME NEW n \in Media, n # m
          PROVE  file'[n] = file[n] /\ read'[n] = read[n] /\ pc'[n] = pc[n] /\ Ready(n)' = Ready(n)
      BY <2>1, ImportFrame DEF Ready
    <2> QED
      BY <1>4, <1>5, <2>1, ImportLeaves
  <1>7. Pairs(ThisPart)' = Pairs(ThisPart)
    BY <1>1 DEF ThisPart, Pairs
  <1> QED
    BY <1>1, <1>2, <1>3, <1>6, <1>7 DEF LeftOver

LEMMA ImportCourse ==
    ASSUME Base, Rings, Obeyed, Course, NEW m \in Media, Import(m)
    PROVE  Course'
  <1>1. Later'
    BY ImportLater DEF Course
  <1>2. ASSUME Quiet' PROVE InLoop' /\ LeftOver'
    <2>1. Quiet /\ InLoop /\ LeftOver
      BY <1>2, ImportQuiet DEF Course
    <2> QED
      BY <2>1, ImportInLoop, ImportLeftOver
  <1> QED
    BY <1>1, <1>2 DEF Course

-----------------------------------------------------------------------------
(* The course of a part: the main thread.                                  *)

LEMMA QuietBefore ==
    ASSUME Base, session' = session, framecount' = framecount, part' = part \/ part' = part + 1,
           pc'[Event] = pc[Event], Quiet'
    PROVE  /\ Quiet
           /\ part' = part + 1 => mode = "units" /\ LeavesAtMost(part, 1)
  <1>1. part \in Nat /\ part >= 1 /\ part' \in Nat /\ part <= part'
    BY SessionFacts DEF Base, Types, SourceTypes
  <1>2. /\ \A k \in 2 .. part : k \in 2 .. part'
        /\ \A k \in 1 .. part - 1 : k \in 1 .. part' - 1
    <2>1. \A k \in 2 .. part : k \in 2 .. part + 1
      BY <1>1
    <2>2. \A k \in 1 .. part - 1 : k \in 1 .. (part + 1) - 1
      BY <1>1
    <2> QED
      BY <2>1, <2>2
  <1>3. \A k \in 2 .. part : Endless(k)
    <2>1. \A k \in 2 .. part' : Endless(k)'
      BY DEF Quiet
    <2> QED
      BY <1>2, <2>1 DEF Endless
  <1>4. \A j \in 1 .. part' - 1 : LeavesAtMost(j, 1)
    BY DEF Quiet, CleanBefore, LeavesAtMost
  <1>5. CleanBefore(part)
    BY <1>2, <1>4 DEF CleanBefore
  <1>6. part' = 1 \/ session.mode = "units"
    BY DEF Quiet, mode
  <1>7. pc[Event] = "wait" /\ (session.mode = "directory" => Len(session.parts) = 1)
    BY DEF Quiet, mode
  <1>8. part' = part + 1 => part # part' /\ part \in 1 .. part' - 1 /\ part' # 1
    BY <1>1
  <1> QED
    BY <1>1, <1>3, <1>4, <1>5, <1>6, <1>7, <1>8 DEF Quiet, mode

(* The main thread takes the first frame of the line.                      *)
LEMMA TakenLine ==
    ASSUME Base, Rings, NEW m \in Media, Line(m), NEW next, acquire(m, next), input[m] = NoFrame
    PROVE  Line(m)' /\ Done(m)' = Done(m)
  <1>1. RingTypes /\ HandTypes /\ SourceTypes /\ LabelTypes /\ read[m] \in Nat
    BY DEF Base, Types, SourceTypes
  <1>2. PICK f \in Frames :
            /\ pool[m]["READY"] # <<>> /\ f = Head(pool[m]["READY"])
            /\ pool' = [pool EXCEPT ![m]["READY"] = Tail(@)]
            /\ input' = [input EXCEPT ![m] = f]
    BY DEF acquire, Claimed
  <1>3. UNCHANGED <<session, part, file, read, active, framecount, filling, id, mark, origin>> /\ pc'[m] = pc[m]
    BY <1>1, ThreadFacts DEF acquire, Goto, LabelTypes, source
  <1>4. Ready(m) \in Seq(Frames) /\ Ready(m) # <<>> /\ f = Head(Ready(m))
    BY <1>2, ReadyFacts DEF Ready
  <1>5. Ready(m)' = Tail(Ready(m)) /\ input'[m] = f /\ f # NoFrame
    <2>1. pool'[m]["READY"] = Tail(pool[m]["READY"])
      BY <1>1, <1>2 DEF RingTypes, Stages
    <2>2. input'[m] = f /\ f # NoFrame
      BY <1>1, <1>2, ThreadFacts DEF HandTypes
    <2> QED
      BY <2>1, <2>2 DEF Ready
  <1> DEFINE n == Len(Ready(m))
  <1>6. n \in Nat /\ n > 0 /\ DOMAIN Ready(m) = 1 .. n
        /\ f = Ready(m)[1] /\ Len(Tail(Ready(m))) = n - 1 /\ DOMAIN Tail(Ready(m)) = 1 .. n - 1
        /\ \A i \in 1 .. n - 1 : Tail(Ready(m))[i] = Ready(m)[i + 1]
    BY <1>4
  <1>7. Made(m)' = Made(m) /\ Made(m) \in Nat /\ ThisPart' = ThisPart
    BY <1>1, <1>3 DEF Made, ThisPart
  <1> HIDE DEF n
  <1>8. Taken(m) = Made(m) - n /\ Taken(m)' = Made(m) - (n - 1)
    BY <1>5, <1>6, <1>7 DEF Taken, n
  <1>9. Taken(m)' = Taken(m) + 1 /\ Taken(m) \in Int
    BY <1>6, <1>7, <1>8
  <1>10. Done(m) = Taken(m) /\ Done(m)' = Taken(m)
    BY <1>5, <1>9 DEF Done
  <1>11. \A g, p : Placed(m, g, p) => Placed(m, g, p)'
    BY <1>3, <1>7 DEF Placed
  <1>12. (\A i \in DOMAIN Ready(m) : Placed(m, Ready(m)[i], (Taken(m) + i) - 1))'
    <2>1. ASSUME NEW i \in 1 .. n - 1 PROVE Placed(m, Ready(m)[i], (Taken(m) + i) - 1)'
      <3>1. i + 1 \in 1 .. n /\ (Taken(m) + (i + 1)) - 1 = (Taken(m)' + i) - 1
        <4>1. i \in Nat /\ 1 <= i /\ i <= n - 1
          BY <1>6
        <4> QED
          BY <1>6, <1>9, <4>1
      <3>2. Placed(m, Ready(m)[i + 1], (Taken(m) + (i + 1)) - 1)
        BY <1>6, <3>1 DEF Line
      <3> QED
        BY <1>5, <1>6, <1>11, <3>1, <3>2
    <2> QED
      BY <1>5, <1>6, <2>1
  <1>13. Placed(m, input[m], Taken(m) - 1)'
    <2>1. 1 \in 1 .. n /\ (Taken(m) + 1) - 1 = Taken(m)' - 1
      BY <1>6, <1>9
    <2>2. Placed(m, Ready(m)[1], (Taken(m) + 1) - 1)
      BY <1>6, <2>1 DEF Line
    <2> QED
      BY <1>5, <1>6, <1>11, <2>1, <2>2
  <1> QED
    BY <1>3, <1>7, <1>10, <1>12, <1>13 DEF Line

LEMMA AcquireInLoop ==
    ASSUME Base, Rings, Obeyed, Quiet, InLoop, NEW m \in Media, NEW next \in {"audio", "encode"},
           acquire(m, next), m = "audio" <=> next = "encode"
    PROVE  InLoop'
  <1>1. /\ RingTypes /\ HandTypes /\ LabelTypes /\ pc[Main] = m /\ pc'[Main] = next
        /\ pc'["video"] = pc["video"] /\ pc'["audio"] = pc["audio"]
    BY ThreadFacts DEF Base, Types, acquire, Goto, LabelTypes
  <1>2. pc[Main] \in Encoding /\ pc'[Main] \in Encoding /\ pc[Main] # "leave" /\ pc'[Main] # "leave"
    BY <1>1, ThreadFacts DEF Encoding
  <1>3. input[m] = NoFrame
    BY <1>1, QuietFacts, ThreadFacts
  <1>4. UNCHANGED <<session, part, file, read, active, framecount, filling, id, mark, origin, encoded>>
    BY DEF acquire, source, history
  <1>5. \A n \in Media : n # m => pool'[n] = pool[n] /\ input'[n] = input[n]
    BY <1>1 DEF acquire, Claimed, RingTypes, HandTypes
  <1>6. \A n \in Media : Line(n)' /\ Done(n)' = Done(n)
    <2>1. Line(m)' /\ Done(m)' = Done(m)
      BY <1>2, <1>3, TakenLine DEF InLoop
    <2>2. ASSUME NEW n \in Media, n # m PROVE Line(n)' /\ Done(n)' = Done(n)
      <3>1. Line(n) /\ pc'[n] = pc[n]
        BY <1>1, <1>2, ThreadFacts DEF InLoop
      <3> QED
        BY <1>4, <1>5, <2>2, <3>1, SameLine
    <2> QED
      BY <2>1, <2>2
  <1>7. Limit' = Limit /\ ThisPart' = ThisPart
    BY <1>4 DEF Limit, ThisPart
  <1>8. \A n : Encodes(n) => Encodes(n)'
    BY <1>4, <1>7 DEF Encodes
  <1>9. Done("video")' = Done("video") /\ Done("audio")' = Done("audio")
    BY <1>6, ThreadFacts
  <1> QED
    BY <1>2, <1>4, <1>6, <1>7, <1>8, <1>9 DEF InLoop

(* The pair the main thread has is the one at the position Done, and it is *)
(* the last one if that is the limit.                                      *)
LEMMA PairInHand ==
    ASSUME Base, Rings, Obeyed, Quiet, InLoop, pc[Main] = "encode"
    PROVE  /\ \A m \in Media : /\ input[m] \in Frames
                               /\ Taken(m) = Done("audio") + 1
                               /\ origin[m][input[m]] = <<part, Done("audio")>>
           /\ Done("audio") \in Nat /\ Done("audio") <= Limit
           /\ is_last_frame <=> Done("audio") = Limit
           /\ part = 1 => id["video"][input["video"]] = Done("audio")
           /\ part # 1 => /\ 0 <= id["video"][input["video"]]
                          /\ id["video"][input["video"]] < ThisPart.last
  <1> DEFINE d == Done("audio")
             x == id["video"][input["video"]]
  <1>1. /\ SourceTypes /\ \A m \in Media : input[m] \in Frames /\ input[m] # NoFrame
        /\ part \in Nat /\ part >= 1
    <2>1. input["video"] # NoFrame /\ input["audio"] # NoFrame
      BY DEF Base, Hands
    <2>2. \A m \in Media : input[m] \in Frames /\ input[m] # NoFrame
      BY <2>1, ThreadFacts DEF Base, Types, HandTypes
    <2>3. SourceTypes /\ part \in Nat /\ part >= 1
      BY SessionFacts DEF Base, Types, SourceTypes
    <2> QED
      BY <2>2, <2>3
  <1>2. /\ \A m \in Media : Line(m) /\ Done(m) = d
        /\ d \in Nat /\ d <= Limit
    BY ThreadFacts DEF InLoop, Encoding
  <1>3. ASSUME NEW m \in Media
        PROVE  /\ Taken(m) = d + 1 /\ Placed(m, input[m], d)
               /\ read[m] \in Nat /\ framecount[m] \in Nat /\ read[m] <= framecount[m] /\ d <= read[m]
    <2>1. read[m] \in Nat /\ framecount[m] \in Nat /\ read[m] <= framecount[m]
      BY <1>1 DEF SourceTypes
    <2>2. Len(Ready(m)) \in Nat /\ Made(m) \in Nat /\ Made(m) <= read[m] + 1
      BY <2>1, ReadyFacts DEF Made
    <2>3. Taken(m) \in Int /\ Taken(m) <= read[m] + 1
      BY <2>1, <2>2 DEF Taken
    <2>4. d = Taken(m) - 1
      BY <1>1, <1>2 DEF Done
    <2>5. Taken(m) = d + 1 /\ d <= read[m]
      BY <1>2, <2>1, <2>3, <2>4
    <2>6. Placed(m, input[m], d)
      BY <1>1, <1>2, <2>4 DEF Line
    <2> QED
      BY <2>1, <2>5, <2>6
  <1> HIDE DEF d, x
  <1>4. \A m \in Media : /\ origin[m][input[m]] = <<part, d>>
                         /\ mark[m][input[m]] = "eos" <=> d = ThisPart[m]
    BY <1>3 DEF Placed
  <1>5. x = (framecount["video"] - read["video"]) + d
    BY <1>3, ThreadFacts DEF Placed, x
  <1>6. part = 1 => x = d
    <2>1. part = 1 => framecount["video"] = read["video"]
      BY <1>2, ThreadFacts DEF Line
    <2> QED
      BY <1>2, <1>3, <1>5, <2>1, ThreadFacts
  <1>7. part # 1 => /\ framecount["video"] < ThisPart.last
                    /\ 0 <= x /\ x <= framecount["video"] /\ d <= framecount["video"]
    <2>1. SUFFICES ASSUME part # 1
                   PROVE  /\ framecount["video"] < ThisPart.last
                          /\ 0 <= x /\ x <= framecount["video"] /\ d <= framecount["video"]
      OBVIOUS
    <2>2. part \in 2 .. part
      BY <1>1, <2>1
    <2>3. ThisPart.last > framecount["video"]
      BY <2>2 DEF Quiet, Endless, ThisPart
    <2>4. ThisPart.last \in Nat
      BY <1>1, LimitFacts
    <2> QED
      BY <1>2, <1>3, <1>5, <2>3, <2>4, ThreadFacts
  <1>8. /\ ThisPart.last \in Nat /\ ThisPart["video"] \in Nat /\ ThisPart["audio"] \in Nat
        /\ Limit \in {ThisPart.last, ThisPart["video"], ThisPart["audio"]} /\ Limit \in Nat
        /\ Limit <= ThisPart.last /\ Limit <= ThisPart["video"] /\ Limit <= ThisPart["audio"]
    BY <1>1, LimitFacts
  <1>9. is_last_frame <=> \/ d = ThisPart["video"] \/ d = ThisPart["audio"]
                          \/ x = ThisPart.last
    BY <1>4, ThreadFacts DEF is_last_frame, x
  <1>10. is_last_frame <=> d = Limit
    <2>1. CASE part = 1
      BY <1>2, <1>6, <1>8, <1>9, <2>1
    <2>2. CASE part # 1
      <3>1. x # ThisPart.last /\ d # ThisPart.last
        <4>1. framecount["video"] \in Nat /\ x \in Int
          BY <1>2, <1>3, <1>5, ThreadFacts
        <4> QED
          BY <1>2, <1>7, <1>8, <2>2, <4>1
      <3> QED
        BY <1>2, <1>8, <1>9, <3>1
    <2> QED
      BY <2>1, <2>2
  <1>11. part # 1 => 0 <= x /\ x < ThisPart.last
    <2>1. framecount["video"] \in Nat /\ x \in Int
      BY <1>2, <1>3, <1>5, ThreadFacts
    <2> QED
      BY <1>7, <1>8, <2>1
  <1> QED
    BY <1>1, <1>2, <1>3, <1>4, <1>6, <1>10, <1>11 DEF d, x

(* The pair is given back, and the line goes on behind it.                 *)
LEMMA GivenLine ==
    ASSUME Base, Rings, NEW m \in Media, Line(m), tc_export_frames, input[m] \in Frames
    PROVE  Line(m)' /\ Done(m)' = Taken(m) /\ Taken(m) \in Int
  <1>1. /\ RingTypes /\ HandTypes /\ SourceTypes /\ LabelTypes /\ read[m] \in Nat
    BY DEF Base, Types, SourceTypes
  <1>2. /\ UNCHANGED <<session, part, file, read, active, framecount, filling, id, origin>>
        /\ input'[m] = NoFrame /\ pc'[m] = pc[m]
        /\ mark'[m] = [mark[m] EXCEPT ![input[m]] = "no"]
        /\ pool'[m] = [pool[m] EXCEPT !["NULL"] = Append(@, input[m])]
    BY <1>1, ThreadFacts DEF tc_export_frames, Goto, LabelTypes, source, Both
  <1>3. Ready(m)' = Ready(m) /\ Made(m)' = Made(m) /\ ThisPart' = ThisPart
        /\ Len(Ready(m)) \in Nat /\ Made(m) \in Nat
    BY <1>1, <1>2, ReadyFacts DEF Ready, Made, ThisPart, RingTypes, Stages
  <1>4. Taken(m)' = Taken(m) /\ Taken(m) \in Int
    BY <1>3 DEF Taken
  <1>5. Done(m)' = Taken(m)
    BY <1>2, <1>4 DEF Done
  <1>6. \A g \in Frames : g # input[m] => mark'[m][g] = mark[m][g]
    BY <1>1, <1>2 DEF RingTypes
  <1>7. \A g \in Frames : \A p : g # input[m] /\ Placed(m, g, p) => Placed(m, g, p)'
    BY <1>2, <1>3, <1>6 DEF Placed
  <1>8. (\A i \in DOMAIN Ready(m) : Placed(m, Ready(m)[i], (Taken(m) + i) - 1))'
    BY <1>3, <1>4, <1>7, ReadyFacts DEF Line
  <1>9. pc[m] = "fill" => mark'[m][filling[m]] = "no"
    <2>1. pc[m] = "fill" => filling[m] \in Frames /\ filling[m] # input[m]
      BY <1>1, ReadyFacts DEF Base, Hands, HandTypes
    <2> QED
      BY <1>6, <2>1 DEF Line
  <1> QED
    BY <1>2, <1>3, <1>4, <1>5, <1>8, <1>9 DEF Line

LEMMA ExportInLoop ==
    ASSUME Base, Rings, Obeyed, Quiet, InLoop, tc_export_frames
    PROVE  InLoop'
  <1> DEFINE d == Done("audio")
             o == [m \in Media |-> origin[m][input[m]]]
             e == encoded[part]
             first == ThisPart.first
  <1>1. /\ SourceTypes /\ LabelTypes /\ pc[Main] = "encode"
        /\ encoded \in [DOMAIN session.parts -> Seq([Media -> Nat \X Nat])]
    BY DEF Base, Types, tc_export_frames
  <1>2. /\ UNCHANGED <<session, part>> /\ ThisPart' = ThisPart /\ Limit' = Limit
        /\ pc'[Main] = IF is_last_frame THEN "leave" ELSE "loop"
    BY <1>1, ThreadFacts DEF tc_export_frames, Goto, LabelTypes, ThisPart, Limit
  <1>3. \A m \in Media : Line(m)
    BY <1>1 DEF InLoop, Encoding
  <1>4. \A m \in Media : input[m] \in Frames /\ Taken(m) = d + 1 /\ origin[m][input[m]] = <<part, d>>
    BY <1>1, PairInHand
  <1>5. /\ d \in Nat /\ d <= Limit /\ (is_last_frame <=> d = Limit)
        /\ part = 1 => id["video"][input["video"]] = d
        /\ part # 1 => 0 <= id["video"][input["video"]] /\ id["video"][input["video"]] < ThisPart.last
    BY <1>1, PairInHand
  <1>6. \A m \in Media : Line(m)' /\ Done(m)' = d + 1
    BY <1>3, <1>4, GivenLine
  <1>7. Limit \in Nat /\ first \in Nat /\ Limit <= ThisPart.last /\ ThisPart.last \in Nat
    BY <1>1, LimitFacts
  <1>8. e \in Seq([Media -> Nat \X Nat]) /\ Len(e) \in Nat /\ DOMAIN e = 1 .. Len(e)
    BY <1>1 DEF SourceTypes
  <1>9. part = 1 \/ first = 0 => Encodes(d)
    BY <1>1 DEF InLoop, Encoding
  <1>10. part = 1 \/ first = 0 => (is_in_range <=> first <= d) \/ d = Limit
    <2>1. CASE part = 1
      BY <1>5, <1>7, <2>1 DEF is_in_range
    <2>2. CASE part # 1 /\ first = 0
      BY <1>5, <1>7, <2>2 DEF is_in_range
    <2> QED
      BY <2>1, <2>2
  <1>11. encoded'[part] = IF ~is_last_frame /\ is_in_range THEN Append(e, o) ELSE e
    BY <1>1 DEF tc_export_frames, history, SourceTypes
  <1>12. o \in [Media -> Nat \X Nat] /\ \A m \in Media : o[m] = <<part, d>>
    <2>1. RingTypes
      BY DEF Base, Types
    <2> QED
      BY <1>4, <2>1 DEF RingTypes
  <1> HIDE DEF d, o, e, first
  <1>13. ASSUME part = 1 \/ first = 0
         PROVE  \A n : n = (IF is_last_frame THEN Limit ELSE d + 1) => Encodes(n)'
    <2>1. /\ Len(e) = IF d <= first THEN 0 ELSE d - first
          /\ \A i \in DOMAIN e : \A m \in Media : e[i][m] = <<part, (first + i) - 1>>
      BY <1>9, <1>13 DEF Encodes, e, first
    <2>2. CASE ~is_last_frame /\ is_in_range
      <3>1. first <= d /\ encoded'[part] = Append(e, o) /\ ~is_last_frame
        BY <1>5, <1>10, <1>11, <1>13, <2>2
      <3>2. Len(e) = d - first
        BY <1>5, <1>7, <2>1, <3>1
      <3>3. /\ Len(Append(e, o)) = Len(e) + 1 /\ DOMAIN Append(e, o) = 1 .. Len(e) + 1
            /\ Append(e, o)[Len(e) + 1] = o
            /\ \A i \in 1 .. Len(e) : Append(e, o)[i] = e[i]
        BY <1>8, <1>12
      <3>4. Len(encoded'[part]) = (d + 1) - first /\ d + 1 > first
        BY <1>5, <1>7, <3>1, <3>2, <3>3
      <3>5. \A m \in Media : Append(e, o)[Len(e) + 1][m] = <<part, (first + (Len(e) + 1)) - 1>>
        <4>1. (first + (Len(e) + 1)) - 1 = d
          BY <1>5, <1>7, <3>2
        <4> QED
          BY <1>12, <3>3, <4>1
      <3>6. \A i \in 1 .. Len(e) + 1 : \A m \in Media : Append(e, o)[i][m] = <<part, (first + i) - 1>>
        <4>1. \A i \in 1 .. Len(e) + 1 : i \in 1 .. Len(e) \/ i = Len(e) + 1
          BY <1>8
        <4> QED
          BY <1>8, <2>1, <3>3, <3>5, <4>1
      <3>7. /\ ~((d + 1) <= first) /\ first \in Nat /\ d + 1 \in Nat
        BY <1>5, <1>7, <3>4
      <3> QED
        BY <1>2, <3>1, <3>3, <3>4, <3>6, <3>7 DEF Encodes, first
    <2>3. CASE ~is_last_frame /\ ~is_in_range
      <3>1. encoded'[part] = e /\ d < first
        BY <1>5, <1>7, <1>10, <1>11, <1>13, <2>3
      <3>2. Len(e) = 0 /\ d + 1 <= first
        BY <1>5, <1>7, <2>1, <3>1
      <3> QED
        BY <1>2, <2>1, <2>3, <3>1, <3>2 DEF Encodes, first
    <2>4. CASE is_last_frame
      <3>1. encoded'[part] = e /\ d = Limit
        BY <1>5, <1>11, <2>4
      <3> QED
        BY <1>2, <2>1, <2>4, <3>1 DEF Encodes, first
    <2> QED
      BY <2>2, <2>3, <2>4
  <1>14. Done("video")' = d + 1 /\ Done("audio")' = d + 1
    BY <1>6, ThreadFacts
  <1>15. IF is_last_frame THEN d + 1 = Limit + 1 ELSE d + 1 <= Limit
    BY <1>5, <1>7
  <1>16. d + 1 \in Nat
    BY <1>5
  <1>17. (part = 1 \/ ThisPart.first = 0 =>
              Encodes(IF pc[Main] = "leave" THEN Limit ELSE Done("audio")))'
    BY <1>2, <1>13, <1>14 DEF first
  <1> QED
    BY <1>2, <1>6, <1>14, <1>15, <1>16, <1>17 DEF InLoop

(* What the main thread leaves alone.                                      *)
LEMMA MainFrame ==
    ASSUME Base, MainThread
    PROVE  /\ session' = session /\ framecount' = framecount /\ pc'[Event] = pc[Event]
           /\ part' = part \/ (part' = part + 1 /\ (next_range \/ next_unit))
           /\ encoded' = encoded \/ (tc_export_frames /\ \E x : encoded' = [encoded EXCEPT ![part] = x])
           /\ pc'[Main] = "start" => pc[Main] = "start" \/ (next_unit /\ part' = part + 1)
  <1>1. LabelTypes
    BY DEF Base, Types
  <1>2. session' = session /\ framecount' = framecount
    BY DEF MainThread, export_loop, acquire, acquire_skipped, get_frame_wait, acquire_interrupted, tc_export_frames,
       start, leave, tc_import_threads_cancel, join, tc_frame_ring_flush, tc_framebuffer_flush, next_range,
       next_unit, tc_stop_all, source
  <1>3. part' = part \/ (part' = part + 1 /\ (next_range \/ next_unit))
    BY DEF MainThread, export_loop, acquire, acquire_skipped, get_frame_wait, acquire_interrupted, tc_export_frames,
       start, leave, tc_import_threads_cancel, join, tc_frame_ring_flush, tc_framebuffer_flush, next_range,
       next_unit, tc_stop_all
  <1>4. encoded' = encoded \/ (tc_export_frames /\ \E x : encoded' = [encoded EXCEPT ![part] = x])
    BY DEF MainThread, export_loop, acquire, acquire_skipped, get_frame_wait, acquire_interrupted, tc_export_frames,
       start, leave, tc_import_threads_cancel, join, tc_frame_ring_flush, tc_framebuffer_flush, next_range,
       next_unit, tc_stop_all, history
  <1>5. pc'[Event] = pc[Event]
    BY <1>1, ThreadFacts
    DEF MainThread, export_loop, acquire, acquire_skipped, get_frame_wait, acquire_interrupted, tc_export_frames,
        start, leave, tc_import_threads_cancel, join, tc_frame_ring_flush, tc_framebuffer_flush, next_range,
        next_unit, tc_stop_all, open, Goto, LabelTypes
  <1>6. pc'[Main] = "start" => pc[Main] = "start" \/ (next_unit /\ part' = part + 1)
    BY <1>1, ThreadFacts
    DEF MainThread, export_loop, acquire, acquire_skipped, get_frame_wait, acquire_interrupted, tc_export_frames,
        start, leave, tc_import_threads_cancel, join, tc_frame_ring_flush, tc_framebuffer_flush, next_range,
        next_unit, tc_stop_all, open, Goto, LabelTypes
  <1> QED
    BY <1>2, <1>3, <1>4, <1>5, <1>6

LEMMA MainLater ==
    ASSUME Base, Later, MainThread
    PROVE  Later'
  <1>1. SourceTypes /\ part \in Nat /\ encoded \in [DOMAIN session.parts -> Seq([Media -> Nat \X Nat])]
        /\ DOMAIN session.parts = 1 .. Len(session.parts) /\ Len(session.parts) \in Nat
    BY SessionFacts DEF Base, Types, SourceTypes
  <1>2. SUFFICES ASSUME NEW k \in DOMAIN session.parts, part' < k \/ (part' = k /\ pc'[Main] = "start")
                 PROVE  encoded'[k] = <<>>
    BY MainFrame DEF Later
  <1>3. k \in Nat
    BY <1>1
  <1>4. part < k \/ (part = k /\ pc[Main] = "start")
    BY <1>1, <1>2, <1>3, MainFrame
  <1>5. encoded[k] = <<>>
    BY <1>4 DEF Later
  <1>6. tc_export_frames => part # k
    <2>1. tc_export_frames => pc[Main] = "encode"
      BY DEF tc_export_frames
    <2>2. pc[Main] = "encode" => part < k
      BY <1>4
    <2>3. part < k => part # k
      BY <1>1, <1>3
    <2> QED
      BY <2>1, <2>2, <2>3
  <1> QED
    BY <1>1, <1>5, <1>6, MainFrame

(* A pair in hand when the loop is left: what the part leaves behind.      *)
LEMMA LeaveLeft ==
    ASSUME Base, Rings, Obeyed, Quiet, InLoop, leave
    PROVE  LeftOver'
  <1>1. SourceTypes /\ LabelTypes /\ pc[Main] = "leave"
        /\ UNCHANGED <<session, part, file, read, active, input, pool>>
        /\ pc'[Main] \in {"cancel", "stop"} /\ \A m \in Media : pc'[m] = pc[m]
    BY ThreadFacts DEF Base, Types, leave, Goto, LabelTypes, source, ring, hands
  <1>2. \A m \in Media : Line(m) /\ Done(m) = Limit + 1 /\ input[m] = NoFrame
    BY <1>1, QuietFacts, ThreadFacts DEF InLoop
  <1>3. Pairs(ThisPart) = Limit + 1 /\ Limit \in Nat
    BY <1>1, LimitFacts
  <1>4. ASSUME NEW m \in Media
        PROVE  /\ file[m] = part
               /\ Len(Ready(m)) + Pairs(ThisPart) <= read[m] + (IF pc[m] \in Busy THEN 0 ELSE 1)
    <2>1. read[m] \in Nat /\ Len(Ready(m)) \in Nat /\ Made(m) \in Nat
      BY <1>1, ReadyFacts DEF SourceTypes, Made
    <2>2. Taken(m) = Limit + 1
      <3>1. Taken(m) \in Int
        BY <2>1 DEF Taken
      <3> QED
        BY <1>2, <3>1 DEF Done
    <2>3. Len(Ready(m)) + Pairs(ThisPart) = Made(m)
      BY <1>3, <2>1, <2>2 DEF Taken
    <2>4. pc[m] \in Busy <=> active[m]
      <3>1. active[m] => pc[m] \in Busy
        BY <1>2 DEF Line
      <3>2. ~active[m] => pc[m] \in {"returned", "interrupt", "done"}
        BY <1>2 DEF Line
      <3> QED
        BY <3>1, <3>2 DEF Busy
    <2>5. Made(m) = read[m] + (IF pc[m] \in Busy THEN 0 ELSE 1)
      BY <2>4 DEF Made
    <2> QED
      BY <1>2, <2>1, <2>3, <2>5 DEF Line
  <1>5. \A m \in Media : Ready(m)' = Ready(m)
    BY <1>1 DEF Ready
  <1>6. Pairs(ThisPart)' = Pairs(ThisPart)
    BY <1>1 DEF Pairs, ThisPart
  <1> QED
    BY <1>1, <1>4, <1>5, <1>6 DEF LeftOver

LEMMA CancelLeft ==
    ASSUME Base, LeftOver, tc_import_threads_cancel
    PROVE  LeftOver'
  <1>1. LabelTypes /\ UNCHANGED <<session, part, file, read, pool>> /\ \A m \in Media : pc'[m] = pc[m]
        /\ pc'[Main] \in {"join", "last_join"} /\ (pc'[Main] = "join" => pc[Main] = "cancel")
    BY ThreadFacts DEF Base, Types, tc_import_threads_cancel, Goto, LabelTypes, ring
  <1>2. \A m \in Media : Ready(m)' = Ready(m)
    BY <1>1 DEF Ready
  <1>3. Pairs(ThisPart)' = Pairs(ThisPart)
    BY <1>1 DEF Pairs, ThisPart
  <1> QED
    BY <1>1, <1>2, <1>3 DEF LeftOver

(* Both sources have been read to their ends.                              *)
LEMMA JoinLeft ==
    ASSUME Base, Rings, LeftOver, join
    PROVE  LeftOver'
  <1>1. SourceTypes /\ LabelTypes /\ UNCHANGED <<session, part, file, read, pool, flushed>>
        /\ pc[Main] \in {"join", "last_join"} /\ \A m \in Media : pc[m] = "done"
        /\ pc'[Main] \in {"flush", "ended"} /\ (pc'[Main] = "flush" => pc[Main] = "join")
    BY ThreadFacts DEF Base, Types, join, Goto, LabelTypes, source, ring
  <1>2. SUFFICES ASSUME NEW m \in Media, pc[Main] = "join", LeavesAtMost(part, 1)
                 PROVE  Len(Ready(m)) <= 1 /\ (Ready(m) # <<>> => flushed[m] < Head(Ready(m)))
    <2>1. \A m \in Media : Ready(m)' = Ready(m)
      BY <1>1 DEF Ready
    <2>2. LeavesAtMost(part, 1)' <=> LeavesAtMost(part, 1)
      BY <1>1 DEF LeavesAtMost
    <2> QED
      BY <1>1, <1>2, <2>1, <2>2 DEF LeftOver
  <1>3. file[m] = part /\ Len(Ready(m)) + Pairs(ThisPart) <= read[m] + 1
    BY <1>1, <1>2 DEF LeftOver, Busy
  <1>4. read[m] \in Nat /\ read[m] <= ThisPart[m] /\ ThisPart[m] \in Nat
    BY <1>1, <1>3, LimitFacts, ThreadFacts DEF SourceTypes, ThisPart
  <1>5. Pairs(ThisPart) = Limit + 1 /\ Limit \in Nat /\ (ThisPart[m] + 1) - (Limit + 1) <= 1
    BY <1>1, <1>2, LimitFacts DEF LeavesAtMost, ThisPart
  <1>6. Ready(m) \in Seq(Frames) /\ Len(Ready(m)) \in Nat
    BY ReadyFacts
  <1>7. Len(Ready(m)) <= 1
    BY <1>3, <1>4, <1>5, <1>6
  <1>8. Ready(m) # <<>> => flushed[m] < Head(Ready(m))
    <2>1. flushed[m] = 0
      BY <1>2 DEF Base, Phases, Both
    <2>2. Ready(m) # <<>> => Head(Ready(m)) \in Frames
      BY <1>6
    <2> QED
      BY <2>1, <2>2 DEF Frames
  <1> QED
    BY <1>7, <1>8

(* A frame that is alone in READY is freed when its index comes up.        *)
LEMMA FlushLeft ==
    ASSUME Base, Rings, LeftOver, NEW r \in Media, tc_frame_ring_flush(r)
    PROVE  LeftOver'
  <1>1. /\ RingTypes /\ HandTypes /\ pc[Main] = "flush"
        /\ UNCHANGED <<session, part, pc, file, read>>
        /\ flushed[r] < Size /\ flushed' = [flushed EXCEPT ![r] = @ + 1]
    BY DEF Base, Types, tc_frame_ring_flush, flush_more, source
  <1>2. SUFFICES ASSUME NEW m \in Media, LeavesAtMost(part, 1)
                 PROVE  Len(Ready(m)') <= 1 /\ (Ready(m)' # <<>> => flushed'[m] < Head(Ready(m)'))
    <2>1. LeavesAtMost(part, 1)' <=> LeavesAtMost(part, 1)
      BY <1>1 DEF LeavesAtMost
    <2> QED
      BY <1>1, <1>2, <2>1 DEF LeftOver
  <1>3. Len(Ready(m)) <= 1 /\ (Ready(m) # <<>> => flushed[m] < Head(Ready(m)))
    BY <1>1, <1>2 DEF LeftOver
  <1>4. CASE m # r
    <2>1. pool' = pool \/ \E S, f : pool' = [pool EXCEPT ![r][S] = Tail(@), ![r]["NULL"] = Append(@, f)]
      BY DEF tc_frame_ring_flush, flush_frame
    <2>2. pool'[m] = pool[m] /\ flushed'[m] = flushed[m]
      BY <1>1, <1>4, <2>1 DEF RingTypes, HandTypes
    <2> QED
      BY <1>3, <2>2 DEF Ready
  <1>5. CASE m = r
    <2> DEFINE x == flushed[m] + 1
               S == status[m][x]
    <2>1. x \in Frames /\ flushed[m] \in Nat /\ flushed'[m] = x
      BY <1>1, <1>5 DEF HandTypes, Frames
    <2>2. S \in Stages /\ "NULL" \in Stages /\ "READY" \in Stages
      BY <1>1, <2>1 DEF RingTypes, Stages
    <2>3. IF S = "NULL" \/ pool[m][S] = <<>> THEN pool' = pool
          ELSE pool' = [pool EXCEPT ![m][S] = Tail(@), ![m]["NULL"] = Append(@, Head(pool[m][S]))]
      BY <1>5 DEF tc_frame_ring_flush, flush_frame
    <2> HIDE DEF x, S
    <2>4. S # "READY" => Ready(m)' = Ready(m)
      BY <1>1, <2>2, <2>3 DEF Ready, RingTypes
    <2>5. S = "READY" => Ready(m)' = IF Ready(m) = <<>> THEN Ready(m) ELSE Tail(Ready(m))
      <3>1. CASE S = "READY" /\ Ready(m) = <<>>
        BY <2>3, <3>1 DEF Ready
      <3>2. CASE S = "READY" /\ Ready(m) # <<>>
        <4>1. pool' = [pool EXCEPT ![m]["READY"] = Tail(@), ![m]["NULL"] = Append(@, Head(pool[m]["READY"]))]
          BY <2>3, <3>2 DEF Ready
        <4>2. pool'[m]["READY"] = Tail(pool[m]["READY"])
          BY <1>1, <2>2, <4>1 DEF RingTypes
        <4> QED
          BY <3>2, <4>2 DEF Ready
      <3> QED
        BY <3>1, <3>2
    <2>6. Ready(m) \in Seq(Frames) /\ Len(Ready(m)) \in Nat
      BY ReadyFacts
    <2>7. CASE Ready(m) = <<>>
      BY <2>4, <2>5, <2>7
    <2>8. CASE Ready(m) # <<>> /\ S = "READY"
      <3>1. Tail(Ready(m)) \in Seq(Frames) /\ Len(Tail(Ready(m))) = Len(Ready(m)) - 1
        BY <2>6, <2>8, TailElements
      <3>2. Len(Tail(Ready(m))) = 0
        <4>1. Len(Tail(Ready(m))) \in Nat
          BY <3>1
        <4> QED
          BY <1>3, <2>6, <3>1, <4>1
      <3>3. Tail(Ready(m)) = <<>>
        BY <3>1, <3>2, EmptySeq
      <3> QED
        BY <2>5, <2>8, <3>2, <3>3
    <2>9. CASE Ready(m) # <<>> /\ S # "READY"
      <3>1. Head(Ready(m)) \in Frames /\ status[m][Head(Ready(m))] = "READY"
        <4>1. 1 \in DOMAIN Ready(m) /\ Head(Ready(m)) = Ready(m)[1]
          BY <2>6, <2>9
        <4> QED
          BY <4>1, ReadyFacts
      <3>2. Head(Ready(m)) # x
        BY <2>9, <3>1 DEF S
      <3>3. x < Head(Ready(m))
        BY <1>3, <2>1, <2>9, <3>1, <3>2 DEF x, Frames
      <3> QED
        BY <1>3, <2>1, <2>4, <2>9, <3>3
    <2> QED
      BY <2>7, <2>8, <2>9
  <1> QED
    BY <1>4, <1>5

LEMMA FlushedLeft ==
    ASSUME Base, Rings, LeftOver, tc_framebuffer_flush
    PROVE  LeftOver'
  <1>1. /\ HandTypes /\ LabelTypes /\ pc[Main] = "flush" /\ pc'[Main] = "next"
        /\ UNCHANGED <<session, part, pool>> /\ \A m \in Media : ~(flushed[m] < Size)
    BY ThreadFacts DEF Base, Types, tc_framebuffer_flush, flush_more, Goto, LabelTypes, ring
  <1>2. ASSUME NEW m \in Media, LeavesAtMost(part, 1) PROVE Ready(m) = <<>>
    <2>1. Ready(m) # <<>> => flushed[m] < Head(Ready(m))
      BY <1>1, <1>2 DEF LeftOver
    <2>2. Ready(m) # <<>> => Head(Ready(m)) \in Frames
      BY ReadyFacts
    <2> QED
      BY <1>1, <2>1, <2>2 DEF Frames, HandTypes
  <1>3. \A m \in Media : Ready(m)' = Ready(m)
    BY <1>1 DEF Ready
  <1>4. LeavesAtMost(part, 1)' <=> LeavesAtMost(part, 1)
    BY <1>1 DEF LeavesAtMost
  <1> QED
    BY <1>1, <1>2, <1>3, <1>4 DEF LeftOver

(* A part begins with empty rings.                                         *)
LEMMA StartInLoop ==
    ASSUME Base, Rings, Obeyed, Quiet, Later, LeftOver, start
    PROVE  InLoop'
  <1>1. /\ SourceTypes /\ LabelTypes /\ RingTypes /\ pc[Main] = "start" /\ pc'[Main] = "loop"
        /\ UNCHANGED <<session, part, framecount, filling, input, pool, id, mark, origin, encoded>>
        /\ \A m \in Media : file'[m] = part /\ read'[m] = 0 /\ active'[m] = TRUE /\ pc'[m] = "loop"
    BY ThreadFacts DEF Base, Types, start, open, Both, LabelTypes, hands, ring, history
  <1>2. ThisPart' = ThisPart /\ Limit' = Limit /\ Limit \in Nat /\ ThisPart.first \in Nat
    BY <1>1, LimitFacts DEF ThisPart, Limit
  <1>3. \A m \in Media : Ready(m) = <<>> /\ (part = 1 => framecount[m] = 0) /\ input[m] = NoFrame
    BY <1>1, QuietFacts DEF LeftOver
  <1>4. ASSUME NEW m \in Media PROVE Line(m)' /\ Done(m)' = 0
    <2>1. Ready(m)' = <<>> /\ Made(m)' = 0 /\ input'[m] = NoFrame
      BY <1>1, <1>3 DEF Ready, Made
    <2>2. Taken(m)' = 0
      <3>1. Len(Ready(m)') = 0
        BY <2>1
      <3>2. Taken(m)' = Made(m)' - Len(Ready(m)')
        BY DEF Taken
      <3> QED
        BY <2>1, <3>1, <3>2
    <2>3. Done(m)' = 0
      BY <2>1, <2>2 DEF Done
    <2>4. (pc[m] \in IF active[m] THEN Busy ELSE {"returned", "interrupt", "done"})'
      BY <1>1 DEF Busy
    <2>5. DOMAIN Ready(m)' = {}
      BY <2>1
    <2> QED
      BY <1>1, <1>3, <2>1, <2>3, <2>4, <2>5 DEF Line
  <1>5. encoded[part] = <<>>
    BY <1>1 DEF Later, SourceTypes
  <1>6. \A n : n = 0 => Encodes(n)'
    BY <1>1, <1>2, <1>5 DEF Encodes
  <1>7. Done("video")' = 0 /\ Done("audio")' = 0
    BY <1>4, ThreadFacts
  <1> QED
    BY <1>1, <1>2, <1>4, <1>6, <1>7 DEF InLoop

(* Steps that leave the line alone.                                        *)
LEMMA WaitInLoop ==
    ASSUME Base, Obeyed, Quiet, InLoop,
           export_loop \/ \E m \in Media : pc[Main] = m /\ get_frame_wait(Main, m, "READY")
    PROVE  InLoop'
  <1>1. /\ LabelTypes /\ pc[Main] \in Encoding /\ pc[Main] # "leave"
        /\ UNCHANGED <<session, part, file, read, active, framecount, filling, input, pool, id, mark, origin, encoded>>
    BY DEF Base, Types, export_loop, get_frame_wait, source, ring, hands, history, Encoding, Media
  <1>2. tc_running
    BY <1>1, QuietFacts
  <1>3. pc'[Main] \in Encoding /\ pc'[Main] # "leave" /\ \A m \in Media : pc'[m] = pc[m]
    BY <1>1, <1>2, ThreadFacts DEF export_loop, get_frame_wait, Goto, LabelTypes, Encoding, Media
  <1>4. \A m \in Media : Line(m)' /\ Done(m)' = Done(m)
    BY <1>1, <1>3, SameLine DEF InLoop
  <1>5. ThisPart' = ThisPart /\ Limit' = Limit /\ \A n : Encodes(n) => Encodes(n)'
    BY <1>1 DEF ThisPart, Limit, Encodes
  <1>6. Done("video")' = Done("video") /\ Done("audio")' = Done("audio")
    BY <1>4, ThreadFacts
  <1> QED
    BY <1>1, <1>3, <1>4, <1>5, <1>6 DEF InLoop

(* Without an interruption no frame is left out.                           *)
LEMMA NothingLeftOut ==
    ASSUME Base, Rings, Obeyed, Quiet, InLoop
    PROVE  ~acquire_interrupted /\ \A m \in Media : ~acquire_skipped(m)
  <1>1. ~acquire_interrupted
    BY QuietFacts DEF acquire_interrupted, Interrupted, Encoding, Media
  <1>2. ASSUME NEW m \in Media, acquire_skipped(m) PROVE FALSE
    <2>1. pc[Main] \in Encoding /\ Ready(m) # <<>> /\ mark[m][Head(Ready(m))] = "skipped"
      BY <1>2 DEF acquire_skipped, Encoding, Media, Ready
    <2>2. 1 \in DOMAIN Ready(m) /\ Head(Ready(m)) = Ready(m)[1]
      BY <2>1, ReadyFacts
    <2>3. \A i \in DOMAIN Ready(m) : \E p : Placed(m, Ready(m)[i], p)
      BY <2>1 DEF InLoop, Line
    <2>4. PICK p : Placed(m, Ready(m)[1], p)
      BY <2>2, <2>3
    <2>5. mark[m][Ready(m)[1]] \in {"eos", "no"}
      BY <2>4 DEF Placed
    <2> QED
      BY <2>1, <2>2, <2>5
  <1> QED
    BY <1>1, <1>2

(* The next unit begins with the rings that the flush has left.            *)
LEMMA NextLeft ==
    ASSUME Base, LeftOver, next_unit, part' = part + 1 => LeavesAtMost(part, 1)
    PROVE  LeftOver' /\ pc'[Main] \in {"start", "stop"}
  <1>1. SourceTypes /\ LabelTypes /\ pc[Main] = "next" /\ UNCHANGED <<session, pool>>
        /\ ((pc'[Main] = "start" /\ part' = part + 1) \/ pc'[Main] = "stop")
    BY ThreadFacts DEF Base, Types, next_unit, Goto, LabelTypes, ring
  <1>2. \A m \in Media : Ready(m)' = Ready(m)
    BY <1>1 DEF Ready
  <1>3. part \in Nat /\ part >= 1
    BY <1>1, SessionFacts DEF SourceTypes
  <1>4. CASE pc'[Main] = "start" /\ part' = part + 1
    <2>1. part' # 1
      BY <1>3, <1>4
    <2>2. \A m \in Media : Ready(m) = <<>>
      BY <1>1, <1>4 DEF LeftOver
    <2> QED
      BY <1>2, <1>4, <2>1, <2>2 DEF LeftOver
  <1>5. CASE pc'[Main] = "stop"
    BY <1>5 DEF LeftOver
  <1> QED
    BY <1>1, <1>4, <1>5

LEMMA MainCourse ==
    ASSUME Base, Rings, Obeyed, Course, MainThread
    PROVE  Course'
  <1>1. Later'
    BY MainLater DEF Course
  <1>2. SUFFICES ASSUME Quiet' PROVE InLoop' /\ LeftOver'
    BY <1>1 DEF Course
  <1>3. Quiet /\ (part' = part + 1 => mode = "units" /\ LeavesAtMost(part, 1))
    BY <1>2, MainFrame, QuietBefore
  <1>4. InLoop /\ LeftOver /\ Later
    BY <1>3 DEF Course
  <1>5. LabelTypes
    BY DEF Base, Types
  <1>6. pc'[Main] \in Encoding => LeftOver'
    BY DEF LeftOver, Encoding
  <1>7. pc'[Main] \notin Encoding \union {"leave"} => InLoop'
    BY DEF InLoop
  <1>8. ASSUME export_loop \/ \E m \in Media : pc[Main] = m /\ get_frame_wait(Main, m, "READY")
        PROVE  InLoop' /\ LeftOver'
    <2>1. InLoop'
      BY <1>3, <1>4, <1>8, WaitInLoop
    <2>2. pc'[Main] \in {"video", "audio"}
      <3>1. export_loop => tc_running
        BY <1>3, QuietFacts DEF export_loop, Encoding
      <3> QED
        BY <1>5, <1>8, <3>1, ThreadFacts DEF export_loop, get_frame_wait, Goto, LabelTypes
    <2> QED
      BY <1>6, <2>1, <2>2 DEF Encoding
  <1>9. ASSUME acquire("video", "audio") \/ acquire("audio", "encode")
        PROVE  InLoop' /\ LeftOver'
    <2>1. InLoop'
      BY <1>3, <1>4, <1>9, ThreadFacts, AcquireInLoop
    <2>2. pc'[Main] \in {"audio", "encode"}
      BY <1>5, <1>9, ThreadFacts DEF acquire, Goto, LabelTypes
    <2> QED
      BY <1>6, <2>1, <2>2 DEF Encoding
  <1>10. ASSUME tc_export_frames PROVE InLoop' /\ LeftOver'
    <2>1. pc'[Main] \in {"leave", "loop"}
      BY <1>5, <1>10, ThreadFacts DEF tc_export_frames, Goto, LabelTypes
    <2>2. LeftOver'
      BY <2>1 DEF LeftOver
    <2> QED
      BY <1>3, <1>4, <1>10, <2>2, ExportInLoop
  <1>11. ASSUME start PROVE InLoop' /\ LeftOver'
    <2>1. pc'[Main] = "loop"
      BY <1>11, ThreadFacts DEF start, open
    <2> QED
      BY <1>3, <1>4, <1>6, <1>11, <2>1, StartInLoop DEF Encoding
  <1>12. ASSUME leave PROVE InLoop' /\ LeftOver'
    <2>1. pc'[Main] \in {"cancel", "stop"}
      BY <1>5, <1>12, ThreadFacts DEF leave, Goto, LabelTypes
    <2> QED
      BY <1>3, <1>4, <1>7, <1>12, <2>1, LeaveLeft DEF Encoding
  <1>13. ASSUME tc_import_threads_cancel PROVE InLoop' /\ LeftOver'
    <2>1. pc'[Main] \in {"join", "last_join"}
      BY <1>5, <1>13, ThreadFacts DEF tc_import_threads_cancel, Goto, LabelTypes
    <2> QED
      BY <1>4, <1>7, <1>13, <2>1, CancelLeft DEF Encoding
  <1>14. ASSUME join PROVE InLoop' /\ LeftOver'
    <2>1. pc'[Main] \in {"flush", "ended"}
      BY <1>5, <1>14, ThreadFacts DEF join, Goto, LabelTypes
    <2> QED
      BY <1>4, <1>7, <1>14, <2>1, JoinLeft DEF Encoding
  <1>15. ASSUME NEW m \in Media, tc_frame_ring_flush(m) PROVE InLoop' /\ LeftOver'
    <2>1. pc'[Main] = "flush"
      BY <1>15 DEF tc_frame_ring_flush
    <2> QED
      BY <1>4, <1>7, <1>15, <2>1, FlushLeft DEF Encoding
  <1>16. ASSUME tc_framebuffer_flush PROVE InLoop' /\ LeftOver'
    <2>1. pc'[Main] = "next"
      BY <1>5, <1>16, ThreadFacts DEF tc_framebuffer_flush, Goto, LabelTypes
    <2> QED
      BY <1>4, <1>7, <1>16, <2>1, FlushedLeft DEF Encoding
  <1>17. ~next_range
    BY <1>3 DEF next_range
  <1>18. ASSUME next_unit PROVE InLoop' /\ LeftOver'
    BY <1>3, <1>4, <1>7, <1>18, NextLeft DEF Encoding
  <1>19. ASSUME tc_stop_all PROVE InLoop' /\ LeftOver'
    <2>1. pc'[Main] \in {"ended", "last_cancel"}
      BY <1>5, <1>19, ThreadFacts DEF tc_stop_all, Goto, LabelTypes
    <2>2. LeftOver'
      BY <2>1 DEF LeftOver
    <2> QED
      BY <1>7, <2>1, <2>2 DEF Encoding
  <1>20. ~acquire_interrupted /\ \A m \in Media : ~acquire_skipped(m)
    BY <1>3, <1>4, NothingLeftOut
  <1> QED
    BY <1>8, <1>9, <1>10, <1>11, <1>12, <1>13, <1>14, <1>15, <1>16, <1>17, <1>18, <1>19, <1>20
    DEF MainThread

-----------------------------------------------------------------------------
(* The inductive invariant.                                                *)

LEMMA InitCourse == Init => Course
  <1> SUFFICES ASSUME Init PROVE Course
    OBVIOUS
  <1>1. pc[Main] = "start"
    BY ThreadFacts DEF Init
  <1>2. \A m \in Media : Ready(m) = <<>> /\ framecount[m] = 0
    BY DEF Init, Both, Ready, Stages
  <1>3. Later
    BY DEF Init, Later
  <1>4. InLoop
    BY <1>1 DEF InLoop, Encoding
  <1>5. LeftOver
    BY <1>1, <1>2 DEF LeftOver
  <1> QED
    BY <1>3, <1>4, <1>5 DEF Course

LEMMA EventCourse ==
    ASSUME Base, Course, tc_interrupt \/ event_handler
    PROVE  Course'
  <1>1. LabelTypes
    BY DEF Base, Types
  <1>2. pc'[Event] # "wait" /\ pc'[Main] = pc[Main] /\ UNCHANGED <<session, part, encoded>>
    BY <1>1, ThreadFacts DEF tc_interrupt, event_handler, Goto, LabelTypes, history
  <1>3. Later'
    BY <1>2 DEF Course, Later
  <1> QED
    BY <1>2, <1>3 DEF Course, Quiet

LEMMA SameCourse ==
    ASSUME Course, UNCHANGED vars
    PROVE  Course'
  <1>1. Later'
    BY DEF Course, Later, vars
  <1>2. Quiet' <=> Quiet
    BY DEF Quiet, CleanBefore, LeavesAtMost, Endless, mode, vars
  <1>3. ThisPart' = ThisPart /\ Limit' = Limit
    BY DEF vars, ThisPart, Limit
  <1>4. \A m \in Media : Ready(m)' = Ready(m) /\ Made(m)' = Made(m)
                         /\ Taken(m)' = Taken(m) /\ Done(m)' = Done(m)
    BY DEF vars, Ready, Made, Taken, Done
  <1>5. \A m \in Media : Line(m) => Line(m)'
    BY SameLine DEF vars
  <1>6. \A n : Encodes(n) => Encodes(n)'
    BY <1>3 DEF vars, Encodes
  <1>7. InLoop => InLoop'
    BY <1>3, <1>4, <1>5, <1>6, ThreadFacts DEF vars, InLoop
  <1>8. LeftOver => LeftOver'
    BY <1>3, <1>4 DEF vars, LeftOver, LeavesAtMost, Pairs
  <1> QED
    BY <1>1, <1>2, <1>7, <1>8 DEF Course

LEMMA IInvStep == IInv /\ [Next]_vars => IInv'
  <1> SUFFICES ASSUME IInv, [Next]_vars PROVE IInv'
    OBVIOUS
  <1>1. Base /\ Rings /\ Obeyed /\ Course
    BY DEF IInv
  <1>2. Base' /\ Rings' /\ Obeyed'
    BY <1>1, BaseStep, RingsStep, ObeyedStep
  <1>3. Course'
    BY <1>1, ImportCourse, MainCourse, EventCourse, SameCourse DEF Next, Ended
  <1> QED
    BY <1>2, <1>3 DEF IInv

LEMMA Invariance == Spec => []IInv
  <1>1. Init => IInv
    BY InitBase, InitRings, InitObeyed, InitCourse DEF IInv
  <1> QED
    BY <1>1, IInvStep, PTL DEF Spec

-----------------------------------------------------------------------------
(* What it says of the session.                                            *)

LEMMA TypesTyped == Types => TypeOK
  <1> SUFFICES ASSUME Types PROVE TypeOK
    OBVIOUS
  <1>1. SourceTypes /\ RingTypes /\ HandTypes
    BY DEF Types
  <1>2. \A m \in Media : read[m] \in 0 .. session.parts[file[m]][m] /\ framecount[m] \in Nat
    <2> TAKE m \in Media
    <2>1. session.parts[file[m]][m] \in Nat
      BY <1>1, SessionFacts DEF SourceTypes
    <2> QED
      BY <1>1, <2>1 DEF SourceTypes
  <1>3. \A m \in Media, S \in Stages : pool[m][S] \in Seq(Frames)
    BY <1>1 DEF RingTypes
  <1> QED
    BY <1>1, <1>2, <1>3 DEF TypeOK, SourceTypes, RingTypes, HandTypes

LEMMA CourseWhole ==
    ASSUME Base, Course
    PROVE  PartWhole
  <1> DEFINE least == Least({ThisPart.last, ThisPart.video, ThisPart.audio})
             whole == least - ThisPart.first
  <1> SUFFICES ASSUME pc[Main] = "leave", pc[Event] = "wait", CleanBefore(part),
                      part = 1 \/ (mode = "units" /\ ThisPart.first = 0),
                      \A k \in 2 .. part : Endless(k),
                      mode = "directory" => Len(session.parts) = 1
               PROVE  /\ Len(encoded[part]) = IF whole < 0 THEN 0 ELSE whole
                      /\ \A i \in DOMAIN encoded[part] : \A m \in Media :
                           encoded[part][i][m] = <<part, ThisPart.first + i - 1>>
    BY DEF PartWhole
  <1>1. Quiet
    BY DEF Quiet
  <1>2. Encodes(Limit)
    BY <1>1 DEF Course, InLoop
  <1>3. least = Limit
    BY DEF Limit
  <1>4. Limit \in Nat /\ ThisPart.first \in Nat
    BY LimitFacts DEF Base, Types
  <1> HIDE DEF least
  <1>5. Len(encoded[part]) = IF whole < 0 THEN 0 ELSE whole
    BY <1>2, <1>3, <1>4 DEF Encodes
  <1>6. \A i \in DOMAIN encoded[part] : \A m \in Media :
            encoded[part][i][m] = <<part, (ThisPart.first + i) - 1>>
    BY <1>2 DEF Encodes
  <1>7. \A i \in DOMAIN encoded[part] : (ThisPart.first + i) - 1 = ThisPart.first + i - 1
    <2>1. DOMAIN encoded[part] \subseteq Nat
      BY DEF Base, Types, SourceTypes
    <2> QED
      BY <1>4, <2>1
  <1> QED
    BY <1>5, <1>6, <1>7

(* What the threads and the main thread read and write keeps its type in   *)
(* every part of a session, whatever is cancelled and started again.       *)
THEOREM SessionTyped == Spec => []TypeOK
  <1>1. IInv => TypeOK
    BY TypesTyped DEF IInv, Base
  <1> QED
    BY <1>1, Invariance, PTL

(* Cancelling, joining, flushing and interrupting the import threads, in   *)
(* whatever order, neither loses nor doubles a frame of the two rings.     *)
THEOREM FramesKept == Spec => []FramesConserved
  <1>1. IInv => FramesConserved
    BY Conservation DEF IInv, Base
  <1> QED
    BY <1>1, Invariance, PTL

(* tc_export_loop encodes at most one pair after tc_interrupt, in whatever *)
(* part of the session the interruption comes.                             *)
THEOREM InterruptionObeyed == Spec => []InterruptObeyed
  <1>1. IInv => InterruptObeyed
    BY DEF IInv, Obeyed, InterruptObeyed
  <1> QED
    BY <1>1, Invariance, PTL

(* The first range, and every unit that starts with its first frame, is    *)
(* encoded whole and in order, for rings of any size and any session that  *)
(* leaves at most one frame of each medium to flush.                       *)
THEOREM PartsWhole == Spec => []PartWhole
  <1>1. IInv => PartWhole
    BY CourseWhole DEF IInv
  <1> QED
    BY <1>1, Invariance, PTL
=============================================================================
