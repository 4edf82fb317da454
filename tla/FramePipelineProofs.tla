------------------------ MODULE FramePipelineProofs ------------------------
(***************************************************************************)
(* The frames of a pipeline, for any ring, any number of frame threads and *)
(* any filters: where a frame can be, in which order frames come out, and  *)
(* that each one is encoded as often as the filters want.                  *)
(***************************************************************************)
EXTENDS FramePipeline, FiniteSetTheorems, SequenceTheorems, TLAPS

USE FramesAssumption, SetupAssumption, BoundAssumption, WorkersAssumption

-----------------------------------------------------------------------------
(* The inductive invariant of where the frames are.                        *)

(* Where a thread has a frame in its hands, and a worker its duplicate.    *)
HoldsAt == {"fill", "drop", "dup", "dup_put", "dup_mark", "dup_push", "post", "crashed",
            "requeue", "dispose", "dispose_last"}
DupAt   == {"dup_put", "dup_mark", "dup_push"}

Hands ==
    /\ pc = [t \in Threads |-> pc[t]]
    /\ \A t \in Threads : hold[t] = NULL <=> pc[t] \notin HoldsAt
    /\ \A w \in Workers : dup[w] = NULL <=> pc[w] \notin DupAt

InRing ==
    /\ setup \in Setups
    /\ pool \in [Stages -> Seq(setup.ring)]
    /\ \A S \in Stages : Len(pool[S]) <= Cardinality(setup.ring)
    /\ hold \in [Threads -> setup.ring \union {NULL}]
    /\ dup \in [Workers -> setup.ring \union {NULL}]
    /\ status \in [Frames -> Stages]

(* Until vframe_dup has put it into a pool, only the worker that makes it  *)
(* has the duplicate.                                                      *)
Fresh(w, f) == pc[w] = "dup_put" /\ dup[w] = f

Pooled(S, f) == f \in Range(pool[S])
Once(s, f)   == \A i, j \in DOMAIN s : s[i] = f /\ s[j] = f => i = j

(* A frame is in one place at most.                                        *)
Single(f) ==
    /\ \A S \in Stages : Once(pool[S], f)
    /\ \A S, T \in Stages : Pooled(S, f) /\ Pooled(T, f) => S = T
    /\ \A t, u \in Threads : hold[t] = f /\ hold[u] = f => t = u
    /\ \A v, w \in Workers : Fresh(v, f) /\ Fresh(w, f) => v = w
    /\ \A S \in Stages, t \in Threads : ~(Pooled(S, f) /\ hold[t] = f)
    /\ \A S \in Stages, w \in Workers : ~(Pooled(S, f) /\ Fresh(w, f))
    /\ \A t \in Threads, w \in Workers : ~(hold[t] = f /\ Fresh(w, f))

(* Frames that were put into a pool twice are not; nor, from then on, are  *)
(* those of which a worker still has the duplicate.                        *)
Exempt == doubled \union {dup[w] : w \in Workers}
Unshared == \A f \in Frames : f \notin Exempt \/ doubled = {} => Single(f)

(* Until then no frame is lost.                                            *)
Somewhere(f) ==
    \/ \E S \in Stages : Pooled(S, f)
    \/ \E t \in Threads : hold[t] = f
    \/ \E w \in Workers : Fresh(w, f)
Present == doubled = {} => \A f \in setup.ring : Somewhere(f)

IInv == InRing /\ Hands /\ Unshared /\ Present /\ StatusIsPool

-----------------------------------------------------------------------------
(* The ring is a finite set of frames, and not empty.                      *)
LEMMA RingFacts ==
    ASSUME setup \in Setups
    PROVE  /\ setup.ring \subseteq Frames /\ IsFiniteSet(setup.ring) /\ setup.ring # {}
           /\ Cardinality(setup.ring) \in Nat
           /\ NULL \notin setup.ring
  <1>1. setup.ring \in SUBSET Frames /\ setup.ring # {}
    BY DEF Setup
  <1> QED
    BY <1>1, FS_Subset, FS_CardinalityType

(* A sequence with one more element, f, at position i.                     *)
Inserted(s, i, f, q) ==
    /\ Len(q) = Len(s) + 1
    /\ q[i] = f
    /\ \A k \in 1 .. i - 1 : q[k] = s[k]
    /\ \A k \in i + 1 .. Len(s) + 1 : q[k] = s[k - 1]

LEMMA AppendInserts ==
    ASSUME NEW R, NEW s \in Seq(R), NEW f \in R
    PROVE  Append(s, f) \in Seq(R) /\ Inserted(s, Len(s) + 1, f, Append(s, f))
  <1>1. Append(s, f) \in Seq(R) /\ Len(Append(s, f)) = Len(s) + 1
        /\ Append(s, f)[Len(s) + 1] = f /\ Len(s) \in Nat
    OBVIOUS
  <1>2. \A k \in 1 .. Len(s) : Append(s, f)[k] = s[k]
    OBVIOUS
  <1>3. \A k \in (Len(s) + 1) + 1 .. Len(s) + 1 : FALSE
    BY <1>1
  <1> QED
    BY <1>1, <1>2, <1>3 DEF Inserted

LEMMA InsertAtInserts ==
    ASSUME NEW R, NEW s \in Seq(R), NEW f \in R, NEW i \in 1 .. Len(s) + 1
    PROVE  InsertAt(s, i, f) \in Seq(R) /\ Inserted(s, i, f, InsertAt(s, i, f))
  <1> DEFINE a == SubSeq(s, 1, i - 1)
             c == SubSeq(s, i, Len(s))
  <1>1. Len(s) \in Nat /\ i \in Nat /\ 1 <= i /\ i <= Len(s) + 1
    OBVIOUS
  <1>2. a \in Seq(R) /\ Len(a) = i - 1 /\ \A k \in 1 .. i - 1 : a[k] = s[k]
    BY <1>1
  <1>3. c \in Seq(R) /\ Len(c) = Len(s) + 1 - i
        /\ \A k \in 1 .. Len(s) + 1 - i : c[k] = s[i + k - 1]
    BY <1>1
  <1> DEFINE b == <<f>>
             ab == a \o b
  <1>4. b \in Seq(R) /\ Len(b) = 1 /\ b[1] = f
    OBVIOUS
  <1> HIDE DEF a, b, c
  <1>5. ab \in Seq(R) /\ Len(ab) = i /\ ab[i] = f /\ \A k \in 1 .. i - 1 : ab[k] = s[k]
    <2>1. /\ ab \in Seq(R) /\ Len(ab) = Len(a) + Len(b)
          /\ \A k \in 1 .. Len(a) + Len(b) : ab[k] = IF k <= Len(a) THEN a[k] ELSE b[k - Len(a)]
      BY <1>2, <1>4, ConcatProperties
    <2>2. Len(ab) = i /\ ab[i] = b[1]
      BY <1>1, <1>2, <1>4, <2>1
    <2>3. \A k \in 1 .. i - 1 : ab[k] = a[k]
      BY <1>1, <1>2, <1>4, <2>1
    <2> QED
      BY <1>2, <1>4, <2>1, <2>2, <2>3
  <1> HIDE DEF ab
  <1> DEFINE q == ab \o c
  <1>6. q \in Seq(R) /\ Len(q) = Len(s) + 1 /\ \A k \in 1 .. i : q[k] = ab[k]
    <2>1. /\ q \in Seq(R) /\ Len(q) = Len(ab) + Len(c)
          /\ \A k \in 1 .. Len(ab) + Len(c) : q[k] = IF k <= Len(ab) THEN ab[k] ELSE c[k - Len(ab)]
      BY <1>3, <1>5, ConcatProperties
    <2> QED
      BY <1>1, <1>3, <1>5, <2>1
  <1>7. \A k \in i + 1 .. Len(s) + 1 : q[k] = c[k - i]
    <2>1. \A k \in 1 .. Len(ab) + Len(c) : q[k] = IF k <= Len(ab) THEN ab[k] ELSE c[k - Len(ab)]
      BY <1>3, <1>5, ConcatProperties
    <2> QED
      BY <1>1, <1>3, <1>5, <2>1
  <1>8. \A k \in i + 1 .. Len(s) + 1 : k - i \in 1 .. Len(s) + 1 - i /\ i + (k - i) - 1 = k - 1
    BY <1>1
  <1>9. \A k \in i + 1 .. Len(s) + 1 : q[k] = s[k - 1]
    BY <1>3, <1>7, <1>8
  <1>10. InsertAt(s, i, f) = q
    BY DEF InsertAt, a, b, ab, c
  <1> HIDE DEF q
  <1>11. q[i] = f /\ \A k \in 1 .. i - 1 : q[k] = s[k]
    BY <1>1, <1>5, <1>6
  <1> QED
    BY <1>6, <1>9, <1>10, <1>11 DEF Inserted

(* What a put makes of the elements of a sequence.                         *)
LEMMA InsertedElements ==
    ASSUME NEW R, NEW s \in Seq(R), NEW q \in Seq(R), NEW f, NEW i \in 1 .. Len(s) + 1,
           Inserted(s, i, f, q)
    PROVE  /\ Range(q) = Range(s) \union {f}
           /\ \A g : g # f /\ Once(s, g) => Once(q, g)
           /\ f \notin Range(s) => Once(q, f)
  <1>1. /\ Len(s) \in Nat /\ i \in Nat /\ 1 <= i /\ i <= Len(s) + 1
        /\ DOMAIN s = 1 .. Len(s) /\ DOMAIN q = 1 .. Len(s) + 1
    BY DEF Inserted
  <1>2. \A k \in DOMAIN q : \/ k = i /\ q[k] = f
                            \/ k < i /\ k \in DOMAIN s /\ q[k] = s[k]
                            \/ k > i /\ k - 1 \in DOMAIN s /\ q[k] = s[k - 1]
    BY <1>1 DEF Inserted
  <1>3. \A k \in DOMAIN s : \/ k < i /\ k \in DOMAIN q /\ q[k] = s[k]
                            \/ k >= i /\ k + 1 \in DOMAIN q /\ q[k + 1] = s[k]
    <2> SUFFICES ASSUME NEW k \in DOMAIN s
                 PROVE  \/ k < i /\ k \in DOMAIN q /\ q[k] = s[k]
                        \/ k >= i /\ k + 1 \in DOMAIN q /\ q[k + 1] = s[k]
      OBVIOUS
    <2>1. k \in 1 .. i - 1 \/ k + 1 \in i + 1 .. Len(s) + 1
      BY <1>1
    <2>2. (k + 1) - 1 = k
      BY <1>1
    <2> QED
      BY <1>1, <2>1, <2>2 DEF Inserted
  <1>4. i \in DOMAIN q /\ q[i] = f
    BY <1>1 DEF Inserted
  <1>5. Range(q) = Range(s) \union {f}
    <2>1. ASSUME NEW x \in Range(q) PROVE x \in Range(s) \/ x = f
      BY <1>2 DEF Range
    <2>2. ASSUME NEW x \in Range(s) PROVE x \in Range(q)
      BY <1>3 DEF Range
    <2>3. f \in Range(q)
      BY <1>4 DEF Range
    <2> QED
      BY <2>1, <2>2, <2>3
  <1>6. \A g : g # f /\ Once(s, g) => Once(q, g)
    BY <1>1, <1>2 DEF Once
  <1>7. f \notin Range(s) => Once(q, f)
    BY <1>1, <1>2 DEF Once, Range
  <1> QED
    BY <1>5, <1>6, <1>7

(* What a claim makes of them.                                             *)
LEMMA TailElements ==
    ASSUME NEW R, NEW s \in Seq(R), s # <<>>
    PROVE  /\ Tail(s) \in Seq(R) /\ Len(Tail(s)) = Len(s) - 1
           /\ Head(s) \in R
           /\ Range(s) = Range(Tail(s)) \union {Head(s)}
           /\ \A g : Once(s, g) => Once(Tail(s), g)
           /\ Once(s, Head(s)) => Head(s) \notin Range(Tail(s))
  <1>1. /\ Len(s) \in Nat /\ Len(s) > 0 /\ DOMAIN s = 1 .. Len(s)
        /\ Tail(s) \in Seq(R) /\ Len(Tail(s)) = Len(s) - 1 /\ DOMAIN Tail(s) = 1 .. Len(s) - 1
        /\ Head(s) = s[1] /\ Head(s) \in R
    OBVIOUS
  <1>2. \A k \in 1 .. Len(s) - 1 : Tail(s)[k] = s[k + 1]
    BY <1>1
  <1>3. \A k \in DOMAIN s : k = 1 \/ (k - 1 \in DOMAIN Tail(s) /\ Tail(s)[k - 1] = s[k])
    BY <1>1, <1>2
  <1>4. Range(s) = Range(Tail(s)) \union {Head(s)}
    <2>1. ASSUME NEW x \in Range(s) PROVE x \in Range(Tail(s)) \/ x = Head(s)
      BY <1>1, <1>3 DEF Range
    <2>2. ASSUME NEW x \in Range(Tail(s)) PROVE x \in Range(s)
      BY <1>1, <1>2 DEF Range
    <2>3. Head(s) \in Range(s)
      BY <1>1 DEF Range
    <2> QED
      BY <2>1, <2>2, <2>3
  <1>5. \A g : Once(s, g) => Once(Tail(s), g)
    BY <1>1, <1>2 DEF Once
  <1>6. Once(s, Head(s)) => Head(s) \notin Range(Tail(s))
    BY <1>1, <1>2 DEF Once, Range
  <1> QED
    BY <1>1, <1>4, <1>5, <1>6

(* Distinct frames of a ring that lack one of it do not fill it.           *)
LEMMA NotFull ==
    ASSUME NEW R, IsFiniteSet(R), NEW s \in Seq(R), NEW f \in R, f \notin Range(s),
           \A g \in R : Once(s, g)
    PROVE  Len(s) < Cardinality(R)
  <1> DEFINE D == 1 .. Len(s)
  <1>1. Len(s) \in Nat /\ s \in [D -> R]
    OBVIOUS
  <1>2. \A x \in D : s[x] \in R \ {f}
    BY <1>1 DEF Range
  <1>3. \A x, y \in D : s[x] = s[y] => x = y
    BY <1>1, <1>2 DEF Once
  <1>4. s \in Injection(D, R \ {f})
    BY <1>1, <1>2, <1>3 DEF Injection, IsInjective
  <1>5. IsFiniteSet(R \ {f}) /\ Cardinality(R \ {f}) = Cardinality(R) - 1
    BY FS_RemoveElement
  <1>6. IsFiniteSet(D) /\ Cardinality(D) = Len(s)
    BY <1>1, FS_Interval
  <1>7. Cardinality(D) <= Cardinality(R \ {f})
    BY <1>4, <1>5, <1>6, FS_Injection
  <1> QED
    BY <1>1, <1>5, <1>6, <1>7, FS_CardinalityType

-----------------------------------------------------------------------------
(* What a put and a claim do to the pools.                                 *)

LEMMA PutEffect ==
    ASSUME InRing, NEW S \in Stages, NEW f \in setup.ring, Put(S, f)
    PROVE  /\ status' = [status EXCEPT ![f] = S]
           /\ pool' \in [Stages -> Seq(setup.ring)]
           /\ \A T \in Stages : Len(pool'[T]) <= Cardinality(setup.ring)
           /\ \A T \in Stages : T # S => pool'[T] = pool[T]
           /\ \/ pool' = pool /\ Len(pool[S]) = Cardinality(setup.ring)
              \/ /\ Range(pool'[S]) = Range(pool[S]) \union {f}
                 /\ \A g : g # f /\ Once(pool[S], g) => Once(pool'[S], g)
                 /\ f \notin Range(pool[S]) => Once(pool'[S], f)
  <1>1. PICK q \in Queued(S, f) : pool' = [pool EXCEPT ![S] = q]
    BY DEF Put
  <1>2. /\ pool \in [Stages -> Seq(setup.ring)] /\ pool[S] \in Seq(setup.ring)
        /\ \A T \in Stages : Len(pool[T]) <= Cardinality(setup.ring)
        /\ Cardinality(setup.ring) \in Nat /\ Len(pool[S]) \in Nat
    BY RingFacts DEF InRing
  <1>3. status' = [status EXCEPT ![f] = S]
    BY DEF Put
  <1>4. CASE Len(pool[S]) = Cardinality(setup.ring)
    <2>1. pool' = pool
      BY <1>1, <1>2, <1>4 DEF Queued
    <2> QED
      BY <1>2, <1>3, <1>4, <2>1
  <1>5. CASE Len(pool[S]) # Cardinality(setup.ring)
    <2>1. PICK i \in 1 .. Len(pool[S]) + 1 : Inserted(pool[S], i, f, q) /\ q \in Seq(setup.ring)
      <3>1. CASE S # "READY"
        <4>1. q = Append(pool[S], f)
          BY <1>1, <1>5, <3>1 DEF Queued
        <4>2. Len(pool[S]) + 1 \in 1 .. Len(pool[S]) + 1
          BY <1>2
        <4>3. q \in Seq(setup.ring) /\ Inserted(pool[S], Len(pool[S]) + 1, f, q)
          BY <1>2, <4>1, AppendInserts
        <4> QED
          BY <4>2, <4>3
      <3>2. CASE S = "READY"
        <4>1. PICK i \in 1 .. Len(pool[S]) + 1 : q = InsertAt(pool[S], i, f)
          BY <1>1, <1>5, <3>2 DEF Queued
        <4> QED
          BY <1>2, <4>1, InsertAtInserts
      <3> QED
        BY <3>1, <3>2
    <2>2. /\ Range(q) = Range(pool[S]) \union {f}
          /\ \A g : g # f /\ Once(pool[S], g) => Once(q, g)
          /\ f \notin Range(pool[S]) => Once(q, f)
      BY <1>2, <2>1, InsertedElements
    <2>3. pool'[S] = q /\ \A T \in Stages : T # S => pool'[T] = pool[T]
      BY <1>1, <1>2
    <2>4. Len(q) <= Cardinality(setup.ring)
      BY <1>2, <1>5, <2>1 DEF Inserted
    <2>5. pool' \in [Stages -> Seq(setup.ring)]
      BY <1>1, <1>2, <2>1
    <2>6. \A T \in Stages : Len(pool'[T]) <= Cardinality(setup.ring)
      BY <1>2, <2>3, <2>4
    <2> QED
      BY <1>3, <2>2, <2>3, <2>5, <2>6
  <1> QED
    BY <1>4, <1>5

LEMMA GotEffect ==
    ASSUME InRing, NEW t, NEW f, NEW S \in Stages, ClaimsFrom(t) = S, Got(t, f)
    PROVE  /\ f \in setup.ring /\ Pooled(S, f)
           /\ pool' \in [Stages -> Seq(setup.ring)]
           /\ \A T \in Stages : Len(pool'[T]) <= Cardinality(setup.ring)
           /\ \A T \in Stages : T # S => pool'[T] = pool[T]
           /\ Range(pool[S]) = Range(pool'[S]) \union {f}
           /\ \A g : Once(pool[S], g) => Once(pool'[S], g)
           /\ Once(pool[S], f) => f \notin Range(pool'[S])
  <1>1. /\ pool[S] # <<>> /\ f = Head(pool[S])
        /\ pool' = [pool EXCEPT ![S] = Tail(pool[S])]
    BY DEF Got
  <1>2. /\ pool \in [Stages -> Seq(setup.ring)] /\ pool[S] \in Seq(setup.ring)
        /\ \A T \in Stages : Len(pool[T]) <= Cardinality(setup.ring)
        /\ Cardinality(setup.ring) \in Nat /\ Len(pool[S]) \in Nat
    BY RingFacts DEF InRing
  <1> DEFINE q == Tail(pool[S])
  <1>3. /\ q \in Seq(setup.ring) /\ Len(q) = Len(pool[S]) - 1
        /\ f \in setup.ring
        /\ Range(pool[S]) = Range(q) \union {f}
        /\ \A g : Once(pool[S], g) => Once(q, g)
        /\ Once(pool[S], f) => f \notin Range(q)
    BY <1>1, <1>2, TailElements
  <1> HIDE DEF q
  <1>4. pool' = [pool EXCEPT ![S] = q]
    BY <1>1 DEF q
  <1>5. pool'[S] = q /\ \A T \in Stages : T # S => pool'[T] = pool[T]
    BY <1>2, <1>4
  <1>6. \A T \in Stages : Len(pool'[T]) <= Cardinality(setup.ring)
    <2>1. Len(q) <= Cardinality(setup.ring)
      BY <1>2, <1>3
    <2> QED
      BY <1>2, <1>5, <2>1
  <1>7. pool' \in [Stages -> Seq(setup.ring)]
    BY <1>2, <1>3, <1>4
  <1> QED
    BY <1>3, <1>5, <1>6, <1>7 DEF Pooled

-----------------------------------------------------------------------------
(* Frames that are nowhere where they were not stay single, and frames     *)
(* that leave no place stay somewhere.                                     *)

LEMMA StaysSingle ==
    ASSUME NEW f, Single(f),
           \A S \in Stages : Once(pool[S], f) => Once(pool'[S], f),
           \A S \in Stages : Pooled(S, f)' => Pooled(S, f),
           \A t \in Threads : hold'[t] = f => hold[t] = f,
           \A w \in Workers : Fresh(w, f)' => Fresh(w, f)
    PROVE  Single(f)'
  <1>1. /\ \A S, T \in Stages : Pooled(S, f)' /\ Pooled(T, f)' => S = T
        /\ \A t, u \in Threads : hold'[t] = f /\ hold'[u] = f => t = u
        /\ \A v, w \in Workers : Fresh(v, f)' /\ Fresh(w, f)' => v = w
    BY DEF Single
  <1>2. /\ \A S \in Stages, t \in Threads : ~(Pooled(S, f)' /\ hold'[t] = f)
        /\ \A S \in Stages, w \in Workers : ~(Pooled(S, f)' /\ Fresh(w, f)')
        /\ \A t \in Threads, w \in Workers : ~(hold'[t] = f /\ Fresh(w, f)')
    BY DEF Single
  <1>3. \A S \in Stages : Once(pool[S], f)'
    <2>1. \A S \in Stages : Once(pool'[S], f)
      BY DEF Single
    <2> QED
      BY <2>1 DEF Once
  <1> QED
    BY <1>1, <1>2, <1>3 DEF Single

LEMMA StaysSomewhere ==
    ASSUME NEW f, Somewhere(f),
           \A S \in Stages : Pooled(S, f) => Pooled(S, f)',
           \A t \in Threads : hold[t] = f => hold'[t] = f,
           \A w \in Workers : Fresh(w, f) => Fresh(w, f)'
    PROVE  Somewhere(f)'
  BY DEF Somewhere

(* What a step that moves another frame leaves of f.                       *)
Untouched(f) ==
    /\ \A S \in Stages : (Pooled(S, f)' <=> Pooled(S, f))
                         /\ (Once(pool[S], f) => Once(pool'[S], f))
    /\ \A t \in Threads : hold'[t] = f <=> hold[t] = f
    /\ \A w \in Workers : Fresh(w, f)' <=> Fresh(w, f)

(* A step that moves one frame, f.                                         *)
LEMMA Moved ==
    ASSUME setup \in Setups, setup' = setup, Unshared, Present,
           NEW f \in Frames,
           \A g \in Frames : g # f => Untouched(g),
           doubled \subseteq doubled',
           \A g \in Frames : g \in Exempt => g \in Exempt',
           Single(f) => Single(f)',
           doubled' = {} => Somewhere(f)'
    PROVE  Unshared' /\ Present'
  <1>1. ASSUME NEW g \in Frames, g \notin Exempt' \/ doubled' = {}
        PROVE  Single(g)'
    <2>1. Single(g)
      BY <1>1 DEF Unshared
    <2>2. CASE g = f
      BY <2>1, <2>2
    <2>3. CASE g # f
      <3>1. Untouched(g)
        BY <2>3
      <3> QED
        BY <2>1, <3>1, StaysSingle DEF Untouched
    <2> QED
      BY <2>2, <2>3
  <1>2. ASSUME doubled' = {}, NEW g \in setup.ring
        PROVE  Somewhere(g)'
    <2>1. Somewhere(g) /\ g \in Frames
      BY <1>2, RingFacts DEF Present
    <2>2. CASE g = f
      BY <1>2, <2>2
    <2>3. CASE g # f
      <3>1. Untouched(g)
        BY <2>1, <2>3
      <3> QED
        BY <2>1, <3>1, StaysSomewhere DEF Untouched
    <2> QED
      BY <2>2, <2>3
  <1>3. Unshared'
    BY <1>1 DEF Unshared
  <1>4. Present'
    BY <1>2 DEF Present
  <1> QED
    BY <1>3, <1>4

(* A step that takes f to a place where it then is alone.                  *)
LEMMA Alone ==
    ASSUME NEW f,
           \/ /\ \A S \in Stages : ~Pooled(S, f)'
              /\ \A t, u \in Threads : hold'[t] = f /\ hold'[u] = f => t = u
              /\ \A w \in Workers : ~Fresh(w, f)'
           \/ /\ \A S \in Stages : ~Pooled(S, f)'
              /\ \A t \in Threads : hold'[t] # f
              /\ \A v, w \in Workers : Fresh(v, f)' /\ Fresh(w, f)' => v = w
           \/ /\ \A S \in Stages : Once(pool'[S], f)
              /\ \A S, T \in Stages : Pooled(S, f)' /\ Pooled(T, f)' => S = T
              /\ \A t \in Threads : hold'[t] # f
              /\ \A w \in Workers : ~Fresh(w, f)'
    PROVE  Single(f)'
  <1>1. ASSUME \A S \in Stages : ~Pooled(S, f)'
        PROVE  \A S \in Stages : Once(pool[S], f)'
    <2>1. \A S \in Stages : ~(f \in Range(pool[S])')
      BY <1>1 DEF Pooled
    <2> QED
      BY <2>1 DEF Once, Range
  <1>2. (\A S \in Stages : Once(pool'[S], f)) => \A S \in Stages : Once(pool[S], f)'
    BY DEF Once
  <1>3. \A S \in Stages : Once(pool[S], f)'
    BY <1>1, <1>2
  <1>4. /\ \A S, T \in Stages : Pooled(S, f)' /\ Pooled(T, f)' => S = T
        /\ \A t, u \in Threads : hold'[t] = f /\ hold'[u] = f => t = u
        /\ \A v, w \in Workers : Fresh(v, f)' /\ Fresh(w, f)' => v = w
        /\ \A S \in Stages, t \in Threads : ~(Pooled(S, f)' /\ hold'[t] = f)
        /\ \A S \in Stages, w \in Workers : ~(Pooled(S, f)' /\ Fresh(w, f)')
        /\ \A t \in Threads, w \in Workers : ~(hold'[t] = f /\ Fresh(w, f)')
    OBVIOUS
  <1> QED
    BY <1>3, <1>4 DEF Single

-----------------------------------------------------------------------------
(* The kinds of steps, by what they do with a frame.                       *)

(* A thread goes on with what it has.                                      *)
LEMMA GoesOn ==
    ASSUME IInv, UNCHANGED <<setup, pool, hold, dup, status, doubled>>,
           NEW t \in Threads, NEW l, pc' = [pc EXCEPT ![t] = l],
           l \in HoldsAt <=> pc[t] \in HoldsAt,
           l \in DupAt <=> pc[t] \in DupAt,
           l = "dup_put" <=> pc[t] = "dup_put"
    PROVE  IInv'
  <1>1. /\ pc' = [u \in Threads |-> pc'[u]]
        /\ \A u \in Threads : /\ pc'[u] \in HoldsAt <=> pc[u] \in HoldsAt
                              /\ pc'[u] \in DupAt <=> pc[u] \in DupAt
                              /\ pc'[u] = "dup_put" <=> pc[u] = "dup_put"
    BY DEF IInv, Hands
  <1>2. Workers \subseteq Threads
    BY DEF Threads
  <1>3. InRing' /\ StatusIsPool'
    BY DEF IInv, InRing, StatusIsPool
  <1>4. Hands'
    BY <1>1, <1>2 DEF IInv, Hands
  <1>5. \A S \in Stages : \A f : (Pooled(S, f)' <=> Pooled(S, f))
                             /\ (Once(pool[S], f) => Once(pool'[S], f))
    BY DEF Pooled, Once, Range
  <1>6. \A w \in Workers : \A f : Fresh(w, f)' <=> Fresh(w, f)
    BY <1>1, <1>2 DEF Fresh
  <1>7. Unshared'
    <2>1. ASSUME NEW f \in Frames, f \notin Exempt' \/ doubled' = {} PROVE Single(f)'
      <3>1. Single(f)
        BY <2>1 DEF IInv, Unshared, Exempt
      <3> QED
        BY <1>5, <1>6, <3>1, StaysSingle
    <2> QED
      BY <2>1 DEF Unshared
  <1>8. Present'
    <2>1. ASSUME doubled' = {}, NEW f \in setup.ring PROVE Somewhere(f)'
      <3>1. Somewhere(f)
        BY <2>1 DEF IInv, Present
      <3> QED
        BY <1>5, <1>6, <3>1, StaysSomewhere
    <2> QED
      BY <2>1 DEF Present
  <1> QED
    BY <1>3, <1>4, <1>7, <1>8 DEF IInv

(* A thread claims a frame to work on it.                                  *)
LEMMA Claims ==
    ASSUME IInv, setup' = setup, dup' = dup, doubled' = doubled,
           NEW t \in Threads, NEW l, pc' = [pc EXCEPT ![t] = l],
           pc[t] \notin HoldsAt, l \in HoldsAt, pc[t] \notin DupAt, l \notin DupAt,
           NEW S \in Stages, ClaimsFrom(t) = S, NEW f \in Frames, Got(t, f),
           Holds(t, f),
           NEW x \in Stages, status' \in {status, [status EXCEPT ![f] = x]}
    PROVE  IInv'
  <1>1. /\ f \in setup.ring /\ Pooled(S, f)
        /\ pool' \in [Stages -> Seq(setup.ring)]
        /\ \A T \in Stages : Len(pool'[T]) <= Cardinality(setup.ring)
        /\ \A T \in Stages : T # S => pool'[T] = pool[T]
        /\ Range(pool[S]) = Range(pool'[S]) \union {f}
        /\ \A g : Once(pool[S], g) => Once(pool'[S], g)
        /\ Once(pool[S], f) => f \notin Range(pool'[S])
    <2>1. InRing
      BY DEF IInv
    <2>2. \A T \in Stages : T # S => pool'[T] = pool[T]
      BY <2>1, GotEffect
    <2>3. Range(pool[S]) = Range(pool'[S]) \union {f}
      BY <2>1, GotEffect
    <2> QED
      BY <2>1, <2>2, <2>3, GotEffect
  <1>2. Workers \subseteq Threads
    BY DEF Threads
  <1>3. /\ pc' = [u \in Threads |-> pc'[u]] /\ pc'[t] = l
        /\ \A u \in Threads : u # t => pc'[u] = pc[u]
        /\ hold' \in [Threads -> setup.ring \union {NULL}] /\ hold'[t] = f
        /\ \A u \in Threads : u # t => hold'[u] = hold[u]
        /\ hold[t] = NULL /\ f # NULL
    BY <1>1, RingFacts DEF IInv, Hands, InRing, Holds
  <1>4. status' \in [Frames -> Stages] /\ \A g \in Frames : g # f => status'[g] = status[g]
    BY DEF IInv, InRing
  <1>5. InRing'
    BY <1>1, <1>3, <1>4 DEF IInv, InRing
  <1>6. Hands'
    BY <1>2, <1>3 DEF IInv, Hands
  <1>7. \A w \in Workers : \A g : Fresh(w, g)' <=> Fresh(w, g)
    BY <1>2, <1>3 DEF Fresh, DupAt
  <1>8. \A T \in Stages : \A g : g # f => (Pooled(T, g)' <=> Pooled(T, g))
    BY <1>1 DEF Pooled
  <1>9. \A g \in Frames : g # f => Untouched(g)
    BY <1>1, <1>3, <1>7, <1>8, FramesAssumption DEF Untouched
  <1>10. Single(f) => \A T \in Stages : ~Pooled(T, f)'
    BY <1>1 DEF Single, Pooled
  <1>11. Single(f) => Single(f)'
    <2> SUFFICES ASSUME Single(f) PROVE Single(f)'
      OBVIOUS
    <2>1. \A u \in Threads : hold[u] # f
      BY <1>1 DEF Single
    <2>2. \A w \in Workers : ~Fresh(w, f)'
      BY <1>1, <1>7 DEF Single
    <2> QED
      BY <1>3, <1>10, <2>1, <2>2, Alone
  <1>12. Somewhere(f)'
    BY <1>3 DEF Somewhere
  <1>13. Unshared' /\ Present'
    <2>1. setup \in Setups /\ Unshared /\ Present /\ (\A g \in Frames : g \in Exempt => g \in Exempt')
      BY DEF IInv, InRing, Exempt
    <2> QED
      BY <1>9, <1>11, <1>12, <2>1, Moved
  <1>14. StatusIsPool'
    <2> SUFFICES ASSUME doubled' = {}, NEW T \in Stages, NEW i \in DOMAIN pool'[T]
                 PROVE  status'[pool'[T][i]] = T
      BY DEF StatusIsPool
    <2>1. Single(f)
      BY DEF IInv, Unshared
    <2>2. PICK g \in Frames : g = pool'[T][i] /\ Pooled(T, g)' /\ g # f
      <3>1. PICK g \in setup.ring : g = pool'[T][i]
        BY <1>1
      <3>2. Pooled(T, g)'
        BY <3>1 DEF Pooled, Range
      <3> QED
        BY <1>10, <2>1, <3>1, <3>2, RingFacts DEF IInv, InRing
    <2>3. Pooled(T, g)
      BY <1>8, <2>2
    <2>4. status[g] = T
      BY <2>3 DEF IInv, StatusIsPool, Pooled, Range
    <2> QED
      BY <1>4, <2>2, <2>4
  <1> QED
    BY <1>5, <1>6, <1>13, <1>14 DEF IInv

(* While no frame is in two places, no pool refuses one that it lacks.     *)
LEMMA NotRefused ==
    ASSUME InRing, Unshared, doubled = {}, NEW S \in Stages, NEW f \in setup.ring,
           ~Pooled(S, f)
    PROVE  Len(pool[S]) # Cardinality(setup.ring)
  <1>1. /\ pool[S] \in Seq(setup.ring) /\ IsFiniteSet(setup.ring)
        /\ setup.ring \subseteq Frames /\ Cardinality(setup.ring) \in Nat
    BY RingFacts DEF InRing
  <1>2. \A g \in setup.ring : Once(pool[S], g)
    BY <1>1 DEF Unshared, Single
  <1>3. f \notin Range(pool[S])
    BY DEF Pooled
  <1>4. Len(pool[S]) < Cardinality(setup.ring)
    BY <1>1, <1>2, <1>3, NotFull
  <1> QED
    BY <1>1, <1>4

(* What a put makes of the places of the frames.                           *)
LEMMA PutPlaces ==
    ASSUME InRing, NEW S \in Stages, NEW f \in setup.ring, Put(S, f)
    PROVE  /\ \A T \in Stages, g \in Frames : g # f =>
                 /\ Pooled(T, g)' <=> Pooled(T, g)
                 /\ Once(pool[T], g) => Once(pool'[T], g)
           /\ \A T \in Stages : T # S => (Pooled(T, f)' <=> Pooled(T, f))
           /\ Len(pool[S]) # Cardinality(setup.ring) => Pooled(S, f)'
           /\ (\A T \in Stages : ~Pooled(T, f)) => \A T \in Stages : Once(pool'[T], f)
           /\ status' \in [Frames -> Stages]
           /\ status'[f] = S /\ \A g \in Frames : g # f => status'[g] = status[g]
  <1>1. /\ status' = [status EXCEPT ![f] = S]
        /\ \A T \in Stages : T # S => pool'[T] = pool[T]
        /\ \/ pool' = pool /\ Len(pool[S]) = Cardinality(setup.ring)
           \/ /\ Range(pool'[S]) = Range(pool[S]) \union {f}
              /\ \A g : g # f /\ Once(pool[S], g) => Once(pool'[S], g)
              /\ f \notin Range(pool[S]) => Once(pool'[S], f)
    <2>1. \A T \in Stages : T # S => pool'[T] = pool[T]
      BY PutEffect
    <2>2. \/ pool' = pool /\ Len(pool[S]) = Cardinality(setup.ring)
          \/ /\ Range(pool'[S]) = Range(pool[S]) \union {f}
             /\ \A g : g # f /\ Once(pool[S], g) => Once(pool'[S], g)
             /\ f \notin Range(pool[S]) => Once(pool'[S], f)
      BY PutEffect
    <2> QED
      BY <2>1, <2>2, PutEffect
  <1>2. /\ status' \in [Frames -> Stages]
        /\ status'[f] = S /\ \A g \in Frames : g # f => status'[g] = status[g]
    BY <1>1, RingFacts DEF InRing
  <1>3. \A T \in Stages : ~(f \in Range(pool[T])) => Once(pool[T], f)
    BY DEF Once, Range
  <1>4. CASE pool' = pool /\ Len(pool[S]) = Cardinality(setup.ring)
    BY <1>2, <1>3, <1>4 DEF Pooled
  <1>5. CASE /\ Range(pool'[S]) = Range(pool[S]) \union {f}
             /\ \A g : g # f /\ Once(pool[S], g) => Once(pool'[S], g)
             /\ f \notin Range(pool[S]) => Once(pool'[S], f)
    <2>1. \A T \in Stages : T # S => pool'[T] = pool[T]
      BY <1>1
    <2>2. \A T \in Stages, g \in Frames : g # f =>
                 /\ Pooled(T, g)' <=> Pooled(T, g)
                 /\ Once(pool[T], g) => Once(pool'[T], g)
      BY <1>5, <2>1 DEF Pooled
    <2>3. \A T \in Stages : T # S => (Pooled(T, f)' <=> Pooled(T, f))
      BY <2>1 DEF Pooled
    <2>4. Pooled(S, f)'
      BY <1>5 DEF Pooled
    <2>5. (\A T \in Stages : ~Pooled(T, f)) => \A T \in Stages : Once(pool'[T], f)
      BY <1>3, <1>5, <2>1 DEF Pooled
    <2> QED
      BY <1>2, <2>2, <2>3, <2>4, <2>5
  <1> QED
    BY <1>1, <1>4, <1>5

(* A put keeps the status of the pooled frames, if the frame put is in no  *)
(* other pool.                                                             *)
LEMMA PutStatus ==
    ASSUME InRing, StatusIsPool, NEW S \in Stages, NEW f \in setup.ring, Put(S, f),
           doubled' = doubled, doubled = {} => \A T \in Stages : ~Pooled(T, f)
    PROVE  StatusIsPool'
  <1> SUFFICES ASSUME doubled' = {}, NEW T \in Stages, NEW i \in DOMAIN pool'[T]
               PROVE  status'[pool'[T][i]] = T
    BY DEF StatusIsPool
  <1>1. pool' \in [Stages -> Seq(setup.ring)] /\ setup.ring \subseteq Frames
    BY PutEffect, RingFacts DEF InRing
  <1>2. PICK g \in Frames : g = pool'[T][i] /\ Pooled(T, g)'
    <2>1. PICK g \in setup.ring : g = pool'[T][i]
      BY <1>1
    <2> QED
      BY <1>1, <2>1 DEF Pooled, Range
  <1>3. /\ \A U \in Stages : ~Pooled(U, f)
        /\ \A U \in Stages : U # S => (Pooled(U, f)' <=> Pooled(U, f))
        /\ status'[f] = S
    BY PutPlaces
  <1>4. CASE g = f
    BY <1>2, <1>3, <1>4
  <1>5. CASE g # f
    <2>1. Pooled(T, g) /\ status'[g] = status[g]
      BY <1>2, <1>5, PutPlaces
    <2>2. status[g] = T
      BY <2>1 DEF StatusIsPool, Pooled, Range
    <2> QED
      BY <1>2, <2>1, <2>2
  <1> QED
    BY <1>4, <1>5

(* A thread puts the frame it has worked on into a pool.                   *)
LEMMA PutsBack ==
    ASSUME IInv, setup' = setup, dup' = dup, doubled' = doubled,
           NEW t \in Threads, NEW l, pc' = [pc EXCEPT ![t] = l],
           pc[t] \in HoldsAt, l \notin HoldsAt, pc[t] \notin DupAt, l \notin DupAt,
           NEW S \in Stages, Put(S, hold[t]), Releases(t)
    PROVE  IInv'
  <1>0. InRing /\ Hands /\ Unshared /\ Present /\ StatusIsPool
    BY DEF IInv
  <1>1. PICK f \in setup.ring : f = hold[t]
    BY <1>0 DEF InRing, Hands
  <1>2. Put(S, f) /\ f \in Frames /\ f # NULL
    BY <1>0, <1>1, RingFacts DEF InRing
  <1>3. Workers \subseteq Threads
    BY DEF Threads
  <1>4. /\ pc' = [u \in Threads |-> pc'[u]] /\ pc'[t] = l
        /\ \A u \in Threads : u # t => pc'[u] = pc[u]
        /\ hold' \in [Threads -> setup.ring \union {NULL}] /\ hold'[t] = NULL
        /\ \A u \in Threads : u # t => hold'[u] = hold[u]
    BY <1>0 DEF Hands, InRing, Releases
  <1>5. \A T \in Stages, g \in Frames : g # f =>
            /\ Pooled(T, g)' <=> Pooled(T, g)
            /\ Once(pool[T], g) => Once(pool'[T], g)
    BY <1>0, <1>2, PutPlaces
  <1>6. /\ \A T \in Stages : T # S => (Pooled(T, f)' <=> Pooled(T, f))
        /\ Len(pool[S]) # Cardinality(setup.ring) => Pooled(S, f)'
        /\ (\A T \in Stages : ~Pooled(T, f)) => \A T \in Stages : Once(pool'[T], f)
        /\ status' \in [Frames -> Stages]
    BY <1>0, <1>2, PutPlaces
  <1>7. InRing'
    <2>1. /\ pool' \in [Stages -> Seq(setup.ring)]
          /\ \A T \in Stages : Len(pool'[T]) <= Cardinality(setup.ring)
      BY <1>0, <1>2, PutEffect
    <2> QED
      BY <1>0, <1>4, <1>6, <2>1 DEF InRing
  <1>8. Hands'
    BY <1>0, <1>3, <1>4 DEF Hands
  <1>9. \A w \in Workers : \A g : Fresh(w, g)' <=> Fresh(w, g)
    BY <1>3, <1>4 DEF Fresh, DupAt
  <1>10. \A g \in Frames : g # f => Untouched(g)
    BY <1>0, <1>1, <1>2, <1>4, <1>5, <1>9, FramesAssumption DEF Untouched
  <1>11. Single(f) => \A T \in Stages : ~Pooled(T, f)
    BY <1>1 DEF Single
  <1>12. Single(f) => Single(f)'
    <2> SUFFICES ASSUME Single(f) PROVE Single(f)'
      OBVIOUS
    <2>1. \A u \in Threads : hold'[u] # f
      BY <1>1, <1>2, <1>4 DEF Single
    <2>2. \A w \in Workers : ~Fresh(w, f)'
      BY <1>1, <1>9 DEF Single
    <2> QED
      BY <1>6, <1>11, <2>1, <2>2, Alone
  <1>13. doubled' = {} => Somewhere(f)'
    <2> SUFFICES ASSUME doubled = {} PROVE Somewhere(f)'
      OBVIOUS
    <2>1. ~Pooled(S, f)
      BY <1>0, <1>2, <1>11 DEF Unshared
    <2>2. Pooled(S, f)'
      BY <1>0, <1>6, <2>1, NotRefused
    <2> QED
      BY <2>2 DEF Somewhere
  <1>14. Unshared' /\ Present'
    <2>1. setup \in Setups /\ (\A g \in Frames : g \in Exempt => g \in Exempt')
      BY <1>0 DEF InRing, Exempt
    <2> QED
      BY <1>0, <1>2, <1>10, <1>12, <1>13, <2>1, Moved
  <1>15. StatusIsPool'
    <2>1. doubled = {} => \A T \in Stages : ~Pooled(T, f)
      BY <1>0, <1>2, <1>11 DEF Unshared
    <2> QED
      BY <1>0, <1>2, <2>1, PutStatus
  <1> QED
    BY <1>7, <1>8, <1>14, <1>15 DEF IInv

(* A worker claims the frame for a duplicate.                              *)
LEMMA Duplicates ==
    ASSUME IInv, NEW w \in Workers, vframe_dup(w)
    PROVE  IInv'
  <1>0. InRing /\ Hands /\ Unshared /\ Present /\ StatusIsPool
    BY DEF IInv
  <1>1. PICK f \in Frames : /\ Got(w, f)
                            /\ dup' = [dup EXCEPT ![w] = f]
                            /\ status' = [status EXCEPT ![f] = "WAIT"]
    BY DEF vframe_dup
  <1>2. /\ pc[w] = "dup" /\ pc' = [pc EXCEPT ![w] = "dup_put"]
        /\ setup' = setup /\ hold' = hold /\ doubled' = doubled
    BY DEF vframe_dup, Goto, control, history
  <1>3. ClaimsFrom(w) = "NULL" /\ "NULL" \in Stages /\ "WAIT" \in Stages
    BY <1>2, WorkersAssumption DEF ClaimsFrom, Stages
  <1>4. f \in setup.ring /\ Pooled("NULL", f)
    BY <1>0, <1>1, <1>3, GotEffect
  <1>5. /\ pool' \in [Stages -> Seq(setup.ring)]
        /\ \A T \in Stages : Len(pool'[T]) <= Cardinality(setup.ring)
    BY <1>0, <1>1, <1>3, GotEffect
  <1>6. \A T \in Stages : T # "NULL" => pool'[T] = pool[T]
    BY <1>0, <1>1, <1>3, GotEffect
  <1>7. Range(pool["NULL"]) = Range(pool'["NULL"]) \union {f}
    BY <1>0, <1>1, <1>3, GotEffect
  <1>8. /\ \A g : Once(pool["NULL"], g) => Once(pool'["NULL"], g)
        /\ Once(pool["NULL"], f) => f \notin Range(pool'["NULL"])
    BY <1>0, <1>1, <1>3, GotEffect
  <1>9. Workers \subseteq Threads
    BY DEF Threads
  <1>10. /\ pc' = [u \in Threads |-> pc'[u]] /\ pc'[w] = "dup_put"
         /\ \A u \in Threads : u # w => pc'[u] = pc[u]
         /\ dup' \in [Workers -> setup.ring \union {NULL}] /\ dup'[w] = f
         /\ \A v \in Workers : v # w => dup'[v] = dup[v]
         /\ dup[w] = NULL /\ f # NULL
    BY <1>0, <1>1, <1>2, <1>4, <1>9, RingFacts DEF Hands, InRing, DupAt
  <1>11. status' \in [Frames -> Stages] /\ \A g \in Frames : g # f => status'[g] = status[g]
    BY <1>0, <1>1, <1>3 DEF InRing
  <1>12. InRing'
    BY <1>0, <1>2, <1>5, <1>10, <1>11 DEF InRing
  <1>13. Hands'
    BY <1>0, <1>2, <1>9, <1>10 DEF Hands, HoldsAt, DupAt
  <1>14. \A v \in Workers : \A g : g # f => (Fresh(v, g)' <=> Fresh(v, g))
    BY <1>2, <1>9, <1>10 DEF Fresh
  <1>15. \A T \in Stages : \A g : g # f => (Pooled(T, g)' <=> Pooled(T, g))
    BY <1>6, <1>7 DEF Pooled
  <1>16. \A T \in Stages : \A g : Once(pool[T], g) => Once(pool'[T], g)
    BY <1>6, <1>8
  <1>17. \A g \in Frames : g # f => Untouched(g)
    BY <1>2, <1>14, <1>15, <1>16 DEF Untouched
  <1>18. Single(f) => \A T \in Stages : ~Pooled(T, f)'
    BY <1>3, <1>4, <1>6, <1>8 DEF Single, Pooled
  <1>19. Fresh(w, f)'
    BY <1>10 DEF Fresh
  <1>20. Single(f) => Single(f)'
    <2> SUFFICES ASSUME Single(f) PROVE Single(f)'
      OBVIOUS
    <2>1. \A u \in Threads : hold'[u] # f
      BY <1>2, <1>3, <1>4 DEF Single
    <2>2. \A v \in Workers : ~Fresh(v, f)
      BY <1>3, <1>4 DEF Single
    <2>3. \A v \in Workers : Fresh(v, f)' => v = w
      BY <1>9, <1>10, <2>2 DEF Fresh
    <2> QED
      BY <1>18, <2>1, <2>3, Alone
  <1>21. Somewhere(f)'
    BY <1>19 DEF Somewhere
  <1>22. Unshared' /\ Present'
    <2>1. ASSUME NEW g \in Frames, g \in Exempt PROVE g \in Exempt'
      <3>1. CASE g \in doubled
        BY <1>2, <3>1 DEF Exempt
      <3>2. CASE g \notin doubled
        <4>1. PICK v \in Workers : g = dup[v]
          BY <2>1, <3>2 DEF Exempt
        <4>2. dup'[v] = g
          BY <1>10, <4>1, FramesAssumption
        <4> QED
          BY <4>2 DEF Exempt
      <3> QED
        BY <3>1, <3>2
    <2>2. setup \in Setups
      BY <1>0 DEF InRing
    <2> QED
      BY <1>0, <1>2, <1>17, <1>20, <1>21, <2>1, <2>2, Moved
  <1>23. StatusIsPool'
    <2> SUFFICES ASSUME doubled' = {}, NEW T \in Stages, NEW i \in DOMAIN pool'[T]
                 PROVE  status'[pool'[T][i]] = T
      BY DEF StatusIsPool
    <2>1. Single(f)
      BY <1>0, <1>2 DEF Unshared
    <2>2. PICK g \in setup.ring : g = pool'[T][i]
      BY <1>5
    <2>3. Pooled(T, g)' /\ g \in Frames
      BY <1>0, <1>5, <2>2, RingFacts DEF Pooled, Range, InRing
    <2>4. g # f /\ Pooled(T, g)
      BY <1>15, <1>18, <2>1, <2>3
    <2>5. status[g] = T
      BY <1>0, <1>2, <2>4 DEF StatusIsPool, Pooled, Range
    <2> QED
      BY <1>11, <2>2, <2>3, <2>4, <2>5
  <1> QED
    BY <1>12, <1>13, <1>22, <1>23 DEF IInv

(* vframe_dup puts the duplicate into the WAIT pool.                       *)
LEMMA DuplicatePut ==
    ASSUME IInv, NEW w \in Workers, vframe_dup_put(w)
    PROVE  IInv'
  <1>0. InRing /\ Hands /\ Unshared /\ Present /\ StatusIsPool
    BY DEF IInv
  <1>1. /\ pc[w] = "dup_put" /\ pc' = [pc EXCEPT ![w] = "dup_mark"]
        /\ Put("WAIT", dup[w]) /\ "WAIT" \in Stages
        /\ setup' = setup /\ hold' = hold /\ dup' = dup /\ doubled' = doubled
    BY DEF vframe_dup_put, Goto, control, history, Stages
  <1>2. Workers \subseteq Threads
    BY DEF Threads
  <1>3. PICK f \in setup.ring : f = dup[w]
    BY <1>0, <1>1 DEF Hands, InRing, DupAt
  <1>4. Put("WAIT", f) /\ Fresh(w, f) /\ f \in Frames
    BY <1>0, <1>1, <1>3, RingFacts DEF Fresh, InRing
  <1>5. /\ pc' = [u \in Threads |-> pc'[u]] /\ pc'[w] = "dup_mark"
        /\ \A u \in Threads : u # w => pc'[u] = pc[u]
    BY <1>0, <1>1, <1>2 DEF Hands
  <1>6. \A T \in Stages, g \in Frames : g # f =>
            /\ Pooled(T, g)' <=> Pooled(T, g)
            /\ Once(pool[T], g) => Once(pool'[T], g)
    BY <1>0, <1>1, <1>4, PutPlaces
  <1>7. /\ \A T \in Stages : T # "WAIT" => (Pooled(T, f)' <=> Pooled(T, f))
        /\ Len(pool["WAIT"]) # Cardinality(setup.ring) => Pooled("WAIT", f)'
        /\ (\A T \in Stages : ~Pooled(T, f)) => \A T \in Stages : Once(pool'[T], f)
        /\ status' \in [Frames -> Stages]
    BY <1>0, <1>1, <1>4, PutPlaces
  <1>8. InRing'
    <2>1. /\ pool' \in [Stages -> Seq(setup.ring)]
          /\ \A T \in Stages : Len(pool'[T]) <= Cardinality(setup.ring)
      BY <1>0, <1>1, <1>4, PutEffect
    <2> QED
      BY <1>0, <1>1, <1>7, <2>1 DEF InRing
  <1>9. Hands'
    BY <1>0, <1>1, <1>2, <1>5 DEF Hands, HoldsAt, DupAt
  <1>10. \A v \in Workers : \A g : Fresh(v, g)' <=> v # w /\ Fresh(v, g)
    BY <1>1, <1>2, <1>5 DEF Fresh
  <1>11. \A g \in Frames : g # f => Untouched(g)
    <2>1. \A g : g # f => ~Fresh(w, g)
      BY <1>3 DEF Fresh
    <2> QED
      BY <1>1, <1>6, <1>10, <2>1 DEF Untouched
  <1>12. Single(f) => \A T \in Stages : ~Pooled(T, f)
    BY <1>4 DEF Single
  <1>13. Single(f) => Single(f)'
    <2> SUFFICES ASSUME Single(f) PROVE Single(f)'
      OBVIOUS
    <2>1. \A u \in Threads : hold'[u] # f
      BY <1>1, <1>4 DEF Single
    <2>2. \A v \in Workers : ~Fresh(v, f)'
      BY <1>4, <1>10 DEF Single
    <2>3. \A S, T \in Stages : Pooled(S, f)' /\ Pooled(T, f)' => S = T
      BY <1>7, <1>12
    <2>4. \A T \in Stages : Once(pool'[T], f)
      BY <1>7, <1>12
    <2> QED
      BY <2>1, <2>2, <2>3, <2>4, Alone
  <1>14. doubled' = {} => Somewhere(f)'
    <2> SUFFICES ASSUME doubled = {} PROVE Somewhere(f)'
      BY <1>1
    <2>1. ~Pooled("WAIT", f)
      BY <1>0, <1>1, <1>4, <1>12 DEF Unshared
    <2>2. Pooled("WAIT", f)'
      BY <1>0, <1>1, <1>7, <2>1, NotRefused
    <2> QED
      BY <1>1, <2>2 DEF Somewhere
  <1>15. Unshared' /\ Present'
    <2>1. setup \in Setups /\ (\A g \in Frames : g \in Exempt => g \in Exempt')
      BY <1>0, <1>1 DEF InRing, Exempt
    <2> QED
      BY <1>0, <1>1, <1>4, <1>11, <1>13, <1>14, <2>1, Moved
  <1>16. StatusIsPool'
    <2>1. doubled = {} => \A T \in Stages : ~Pooled(T, f)
      BY <1>0, <1>4, <1>12 DEF Unshared
    <2> QED
      BY <1>0, <1>1, <1>4, <2>1, PutStatus
  <1> QED
    BY <1>8, <1>9, <1>15, <1>16 DEF IInv

(* DUP_vptr_if_cloned puts it there a second time.                         *)
LEMMA DuplicatePushed ==
    ASSUME IInv, NEW w \in Workers, dup_push(w)
    PROVE  IInv'
  <1>0. InRing /\ Hands /\ Unshared /\ Present /\ StatusIsPool
    BY DEF IInv
  <1>1. /\ pc[w] = "dup_push" /\ pc' = [pc EXCEPT ![w] = "post"]
        /\ Put("WAIT", dup[w]) /\ "WAIT" \in Stages
        /\ setup' = setup /\ hold' = hold /\ dup' = [dup EXCEPT ![w] = NULL]
        /\ doubled' = doubled \union {dup[w]}
    BY DEF dup_push, Goto, control, Stages
  <1>2. Workers \subseteq Threads
    BY DEF Threads
  <1>3. PICK f \in setup.ring : f = dup[w]
    BY <1>0, <1>1 DEF Hands, InRing, DupAt
  <1>4. Put("WAIT", f) /\ f \in Frames /\ f \in doubled'
    BY <1>0, <1>1, <1>3, RingFacts DEF InRing
  <1>5. /\ pc' = [u \in Threads |-> pc'[u]] /\ pc'[w] = "post"
        /\ \A u \in Threads : u # w => pc'[u] = pc[u]
        /\ dup' \in [Workers -> setup.ring \union {NULL}] /\ dup'[w] = NULL
        /\ \A v \in Workers : v # w => dup'[v] = dup[v]
    BY <1>0, <1>1, <1>2 DEF Hands, InRing
  <1>6. \A T \in Stages, g \in Frames : g # f =>
            /\ Pooled(T, g)' <=> Pooled(T, g)
            /\ Once(pool[T], g) => Once(pool'[T], g)
    BY <1>0, <1>1, <1>4, PutPlaces
  <1>7. InRing'
    <2>1. /\ pool' \in [Stages -> Seq(setup.ring)]
          /\ \A T \in Stages : Len(pool'[T]) <= Cardinality(setup.ring)
      BY <1>0, <1>1, <1>4, PutEffect
    <2>2. status' \in [Frames -> Stages]
      BY <1>0, <1>1, <1>4, PutPlaces
    <2> QED
      BY <1>0, <1>1, <1>5, <2>1, <2>2 DEF InRing
  <1>8. Hands'
    BY <1>0, <1>1, <1>2, <1>5 DEF Hands, HoldsAt, DupAt
  <1>9. \A v \in Workers : \A g : Fresh(v, g)' <=> Fresh(v, g)
    BY <1>1, <1>2, <1>5 DEF Fresh
  <1>10. \A g \in Frames : g \notin Exempt' => g \notin Exempt /\ g # f
    <2>1. ASSUME NEW g \in Frames, g \in Exempt PROVE g \in Exempt'
      <3>1. CASE g \in doubled \/ g = f
        BY <1>1, <1>4, <3>1 DEF Exempt
      <3>2. CASE ~(g \in doubled \/ g = f)
        <4>1. PICK v \in Workers : g = dup[v]
          BY <2>1, <3>2 DEF Exempt
        <4>2. dup'[v] = g
          BY <1>3, <1>5, <3>2, <4>1
        <4> QED
          BY <4>2 DEF Exempt
      <3> QED
        BY <3>1, <3>2
    <2>2. f \in Exempt'
      BY <1>4 DEF Exempt
    <2> QED
      BY <2>1, <2>2
  <1>11. Unshared'
    <2>1. ASSUME NEW g \in Frames, g \notin Exempt' PROVE Single(g)'
      <3>1. Single(g) /\ g # f
        BY <1>0, <1>10, <2>1 DEF Unshared
      <3> QED
        BY <1>1, <1>6, <1>9, <3>1, StaysSingle
    <2> QED
      BY <1>4, <2>1 DEF Unshared
  <1>12. Present' /\ StatusIsPool'
    BY <1>4 DEF Present, StatusIsPool
  <1> QED
    BY <1>7, <1>8, <1>11, <1>12 DEF IInv

-----------------------------------------------------------------------------
(* The invariant holds at the start and is kept by every step.             *)

LEMMA SetToSeqLists ==
    ASSUME NEW R, IsFiniteSet(R)
    PROVE  /\ SetToSeq(R) \in Seq(R) /\ Len(SetToSeq(R)) = Cardinality(R)
           /\ \A f : Once(SetToSeq(R), f)
           /\ Range(SetToSeq(R)) = R
  <1> DEFINE n == Cardinality(R)
             q == SetToSeq(R)
  <1>1. n \in Nat /\ IsFiniteSet(1 .. n) /\ Cardinality(1 .. n) = n
    BY FS_CardinalityType, FS_Interval
  <1>2. PICK m \in Nat : ExistsBijection(1 .. m, R)
    BY FS_NatBijection
  <1>3. m = n
    BY <1>2, FS_CountingElements
  <1>4. PICK b \in Bijection(1 .. n, R) : TRUE
    BY <1>2, <1>3 DEF ExistsBijection
  <1>5. b \in [1 .. n -> R] /\ IsInjective(b)
    BY <1>4 DEF Bijection, Injection
  <1>6. q \in [1 .. n -> R] /\ IsInjective(q)
    BY <1>5 DEF SetToSeq
  <1> HIDE DEF q
  <1>7. q \in Seq(R) /\ Len(q) = n /\ DOMAIN q = 1 .. n
    BY <1>1, <1>6
  <1>8. \A f : Once(q, f)
    BY <1>6 DEF Once, IsInjective
  <1>9. q \in Injection(1 .. n, R)
    BY <1>6 DEF Injection
  <1>10. q \in Surjection(1 .. n, R)
    BY <1>1, <1>9, FS_Injection
  <1>11. Range(q) = R
    BY <1>7, <1>10 DEF Range, Surjection
  <1> QED
    BY <1>7, <1>8, <1>11 DEF q

LEMMA InitInv == Init => IInv
  <1> SUFFICES ASSUME Init PROVE IInv
    OBVIOUS
  <1> DEFINE q == SetToSeq(setup.ring)
  <1>1. /\ setup \in Setups /\ setup.ring \subseteq Frames /\ IsFiniteSet(setup.ring)
        /\ Cardinality(setup.ring) \in Nat /\ NULL \notin setup.ring
    BY RingFacts DEF Init
  <1>2. /\ q \in Seq(setup.ring) /\ Len(q) = Cardinality(setup.ring)
        /\ \A f : Once(q, f)
        /\ Range(q) = setup.ring
    BY <1>1, SetToSeqLists
  <1> HIDE DEF q
  <1>3. pool = [S \in Stages |-> IF S = "NULL" THEN q ELSE <<>>]
    BY DEF Init, q
  <1>4. /\ pool["NULL"] = q /\ "NULL" \in Stages
        /\ \A S \in Stages : S # "NULL" => pool[S] = <<>>
    BY <1>3 DEF Stages
  <1>5. /\ pc = [t \in Threads |-> pc[t]]
        /\ \A t \in Threads : pc[t] \in {"none", "loop"} /\ hold[t] = NULL
        /\ \A w \in Workers : dup[w] = NULL /\ pc[w] \in {"none", "loop"}
        /\ hold = [t \in Threads |-> NULL] /\ dup = [w \in Workers |-> NULL]
        /\ status = [f \in Frames |-> "NULL"] /\ doubled = {}
    BY DEF Init, Threads
  <1>6. InRing
    <2>1. pool \in [Stages -> Seq(setup.ring)]
      <3>1. <<>> \in Seq(setup.ring)
        OBVIOUS
      <3> QED
        BY <1>2, <1>3, <3>1
    <2>2. \A S \in Stages : Len(pool[S]) <= Cardinality(setup.ring)
      <3>1. Len(<<>>) = 0
        OBVIOUS
      <3> QED
        BY <1>1, <1>2, <1>4, <3>1
    <2> QED
      BY <1>1, <1>4, <1>5, <2>1, <2>2 DEF InRing
  <1>7. Hands
    BY <1>5 DEF Hands, HoldsAt, DupAt
  <1>8. \A S \in Stages : \A f : /\ Pooled(S, f) => S = "NULL"
                             /\ Once(pool[S], f)
    <2>1. \A f : f \notin Range(<<>>) /\ Once(<<>>, f)
      BY DEF Range, Once
    <2> QED
      BY <1>2, <1>4, <2>1 DEF Pooled
  <1>9. Unshared
    <2>1. \A w \in Workers : \A f : ~Fresh(w, f)
      BY <1>5 DEF Fresh
    <2>2. \A t \in Threads, f \in Frames : hold[t] # f
      BY <1>5, FramesAssumption
    <2> QED
      BY <1>8, <2>1, <2>2 DEF Unshared, Single
  <1>10. Present
    BY <1>2, <1>4 DEF Present, Somewhere, Pooled
  <1>11. StatusIsPool
    <2> SUFFICES ASSUME NEW S \in Stages, NEW i \in DOMAIN pool[S]
                 PROVE  status[pool[S][i]] = S
      BY DEF StatusIsPool
    <2>1. Pooled(S, pool[S][i])
      BY DEF Pooled, Range
    <2>2. S = "NULL" /\ pool[S][i] \in Frames
      BY <1>1, <1>2, <1>4, <1>8, <2>1
    <2> QED
      BY <1>5, <2>2
  <1> QED
    BY <1>6, <1>7, <1>9, <1>10, <1>11 DEF IInv

(* The clauses of Import. *)
LEMMA ImportInv == IInv /\ Import => IInv'
  <1> SUFFICES ASSUME IInv, Import PROVE IInv'
    OBVIOUS
  <1>0. /\ Importer \in Threads /\ InRing
        /\ {"NULL", "EMPTY", "WAIT", "READY"} = Stages
    BY DEF Threads, IInv, Stages
  <1>1. CASE import_loop
    <2>1. /\ pc[Importer] = "loop"
          /\ UNCHANGED <<setup, pool, hold, dup, status, doubled>>
      BY <1>1 DEF import_loop, ring, control, history
    <2>2. PICK l \in {"register", "done"} : pc' = [pc EXCEPT ![Importer] = l]
      BY <1>1 DEF import_loop, Goto
    <2> QED
      BY <1>0, <2>1, <2>2, GoesOn DEF HoldsAt, DupAt
  <1>2. CASE vframe_register
    <2>1. /\ pc[Importer] = "register" /\ pc' = [pc EXCEPT ![Importer] = "fill"]
          /\ setup' = setup /\ dup' = dup /\ doubled' = doubled
      BY <1>2 DEF vframe_register, Goto, control, history
    <2>2. PICK f \in Frames : Got(Importer, f) /\ Holds(Importer, f)
                              /\ status' = [status EXCEPT ![f] = "EMPTY"]
      BY <1>2 DEF vframe_register
    <2>3. ClaimsFrom(Importer) = "NULL"
      BY DEF ClaimsFrom, Importer, Encoder
    <2>4. "fill" \in HoldsAt /\ "fill" \notin DupAt /\ "register" \notin HoldsAt \union DupAt
      BY DEF HoldsAt, DupAt
    <2>5. "NULL" \in Stages /\ "EMPTY" \in Stages
      BY <1>0
    <2> QED
      BY <1>0, <2>1, <2>2, <2>3, <2>4, <2>5, Claims
  <1>3. CASE get_frame_wait(Importer)
    <2>1. UNCHANGED <<setup, pool, hold, dup, status, doubled>> /\ pc' = pc
      BY <1>3 DEF get_frame_wait, ring, control, history
    <2>2. pc' = [pc EXCEPT ![Importer] = pc[Importer]]
      BY <1>0, <2>1 DEF IInv, Hands
    <2> QED
      BY <1>0, <2>1, <2>2, GoesOn
  <1>4. CASE vframe_register_interrupted
    <2>1. /\ pc[Importer] = "register" /\ pc' = [pc EXCEPT ![Importer] = "done"]
          /\ UNCHANGED <<setup, pool, hold, dup, status, doubled>>
      BY <1>4 DEF vframe_register_interrupted, Interrupted, Goto, control, history
    <2> QED
      BY <1>0, <2>1, GoesOn DEF HoldsAt, DupAt
  <1>5. CASE import_frame \/ import_end_of_stream
    <2>1. /\ pc[Importer] = "fill" /\ setup' = setup /\ dup' = dup /\ doubled' = doubled
          /\ Put(NextStage, hold[Importer]) /\ Releases(Importer)
      BY <1>5 DEF import_frame, import_end_of_stream, history
    <2>2. PICK l \in {"loop", "done"} : pc' = [pc EXCEPT ![Importer] = l]
      BY <1>5 DEF import_frame, import_end_of_stream, Goto
    <2>3. NextStage \in Stages
      BY <1>0 DEF NextStage
    <2>4. "fill" \in HoldsAt /\ "fill" \notin DupAt /\ l \notin HoldsAt /\ l \notin DupAt
      BY DEF HoldsAt, DupAt
    <2> QED
      BY <1>0, <2>1, <2>2, <2>3, <2>4, PutsBack
  <1> QED
    BY <1>1, <1>2, <1>3, <1>4, <1>5 DEF Import

(* A step that changes none of it. *)
LEMMA Stutters ==
    ASSUME IInv, UNCHANGED <<setup, pool, pc, hold, dup, status, doubled>>
    PROVE  IInv'
  <1>1. Importer \in Threads /\ pc' = [pc EXCEPT ![Importer] = pc[Importer]]
    BY DEF IInv, Hands, Threads
  <1> QED
    BY <1>1, GoesOn

(* The clauses of Process. *)
LEMMA ProcessInv == ASSUME IInv, NEW w \in Workers, Process(w) PROVE IInv'
  <1>0. /\ w \in Threads /\ w \notin {Importer, Encoder} /\ InRing
        /\ {"NULL", "EMPTY", "WAIT", "READY"} = Stages
    BY WorkersAssumption DEF Threads, IInv, Stages
  <1>1. CASE process_loop(w)
    <2>1. /\ pc[w] = "loop"
          /\ UNCHANGED <<setup, pool, hold, dup, status, doubled>>
      BY <1>1 DEF process_loop, ring, control, history
    <2>2. PICK l \in {"reserve", "done"} : pc' = [pc EXCEPT ![w] = l]
      BY <1>1 DEF process_loop, Goto
    <2> QED
      BY <1>0, <2>1, <2>2, GoesOn DEF HoldsAt, DupAt
  <1>2. CASE vframe_reserve(w)
    <2>1. /\ pc[w] = "reserve"
          /\ setup' = setup /\ dup' = dup /\ doubled' = doubled /\ status' = status
      BY <1>2 DEF vframe_reserve
    <2>2. PICK f \in Frames : Got(w, f) /\ Holds(w, f) /\
               \E b \in IF "skipped" \in attributes[f] THEN {attributes[f]}
                                                 ELSE Filtered("EM", f, {attributes[f]}) :
                   Goto(w, IF "skipped" \in b THEN "drop"
                           ELSE IF "is_cloned" \in b THEN "dup" ELSE "post")
      BY <1>2 DEF vframe_reserve
    <2>3. PICK l \in {"drop", "dup", "post"} : pc' = [pc EXCEPT ![w] = l]
      BY <2>2 DEF Goto
    <2>4. ClaimsFrom(w) = "WAIT" /\ "WAIT" \in Stages
      BY <1>0, <2>1 DEF ClaimsFrom
    <2>5. /\ l \in HoldsAt /\ l \notin DupAt
          /\ "reserve" \notin HoldsAt /\ "reserve" \notin DupAt
      BY DEF HoldsAt, DupAt
    <2> QED
      BY <1>0, <2>1, <2>2, <2>3, <2>4, <2>5, Claims
  <1>3. CASE get_frame_wait(w)
    BY <1>3, Stutters DEF get_frame_wait, ring, control, history
  <1>4. CASE vframe_reserve_interrupted(w)
    <2>1. /\ pc[w] = "reserve" /\ pc' = [pc EXCEPT ![w] = "done"]
          /\ UNCHANGED <<setup, pool, hold, dup, status, doubled>>
      BY <1>4 DEF vframe_reserve_interrupted, Interrupted, Goto, history
    <2> QED
      BY <1>0, <2>1, GoesOn DEF HoldsAt, DupAt
  <1>5. CASE drop_frame(w)
    <2>1. /\ pc[w] = "drop" /\ setup' = setup /\ dup' = dup /\ doubled' = doubled
          /\ Put("NULL", hold[w]) /\ Releases(w) /\ pc' = [pc EXCEPT ![w] = "loop"]
      BY <1>5 DEF drop_frame, control, history, Goto
    <2>2. /\ "drop" \in HoldsAt /\ "drop" \notin DupAt
          /\ "loop" \notin HoldsAt /\ "loop" \notin DupAt /\ "NULL" \in Stages
      BY <1>0 DEF HoldsAt, DupAt
    <2> QED
      BY <1>0, <2>1, <2>2, PutsBack
  <1>6. CASE vframe_dup(w)
    BY <1>6, Duplicates
  <1>7. CASE vframe_dup_interrupted(w)
    <2>1. /\ pc[w] = "dup" /\ pc' = [pc EXCEPT ![w] = "crashed"]
          /\ UNCHANGED <<setup, pool, hold, dup, status, doubled>>
      BY <1>7 DEF vframe_dup_interrupted, Interrupted, Goto, control, history
    <2> QED
      BY <1>0, <2>1, GoesOn DEF HoldsAt, DupAt
  <1>8. CASE vframe_dup_put(w)
    BY <1>8, DuplicatePut
  <1>9. CASE dup_mark(w)
    <2>1. /\ pc[w] = "dup_mark" /\ pc' = [pc EXCEPT ![w] = "dup_push"]
          /\ UNCHANGED <<setup, pool, hold, dup, status, doubled>>
      BY <1>9 DEF dup_mark, Goto, control, history
    <2> QED
      BY <1>0, <2>1, GoesOn DEF HoldsAt, DupAt
  <1>10. CASE dup_push(w)
    BY <1>10, DuplicatePushed
  <1>11. CASE process_done(w)
    <2>1. /\ pc[w] = "post" /\ setup' = setup /\ dup' = dup /\ doubled' = doubled
          /\ Releases(w) /\ pc' = [pc EXCEPT ![w] = "loop"]
      BY <1>11 DEF process_done, control, Goto
    <2>2. PICK S \in {"NULL", "READY"} : Put(S, hold[w])
      BY <1>11 DEF process_done
    <2>3. /\ "post" \in HoldsAt /\ "post" \notin DupAt
          /\ "loop" \notin HoldsAt /\ "loop" \notin DupAt /\ S \in Stages
      BY <1>0 DEF HoldsAt, DupAt
    <2> QED
      BY <1>0, <2>1, <2>2, <2>3, PutsBack
  <1> QED
    BY <1>1, <1>2, <1>3, <1>4, <1>5, <1>6, <1>7, <1>8, <1>9, <1>10, <1>11 DEF Process

(* A step of the threads that only wake the sleepers up. *)
LEMMA InterruptInv ==
    ASSUME IInv, NEW t \in Threads, NEW next \in {"cancel", "done"},
           tc_framebuffer_interrupt(t, next)
    PROVE  IInv'
  <1>1. UNCHANGED <<setup, pool, hold, dup, status, doubled>>
    BY DEF tc_framebuffer_interrupt, ring, control, history
  <1>2. /\ pc[t] \in {"wake_NULL", "wake_WAIT", "wake_READY"}
        /\ \E l \in {"wake_WAIT", "wake_READY", "cancel", "done"} : pc' = [pc EXCEPT ![t] = l]
    BY DEF tc_framebuffer_interrupt, Goto
  <1>3. PICK l \in {"wake_WAIT", "wake_READY", "cancel", "done"} : pc' = [pc EXCEPT ![t] = l]
    BY <1>2
  <1> QED
    BY <1>1, <1>2, <1>3, GoesOn DEF HoldsAt, DupAt

(* The clauses of Export. *)
LEMMA ExportInv == ASSUME IInv, Export PROVE IInv'
  <1>0. /\ Encoder \in Threads /\ InRing /\ Hands
        /\ {"NULL", "EMPTY", "WAIT", "READY"} = Stages
    BY DEF Threads, IInv, Stages
  <1>1. CASE export_loop
    <2>1. /\ pc[Encoder] = "loop"
          /\ UNCHANGED <<setup, pool, hold, dup, status, doubled>>
      BY <1>1 DEF export_loop, ring, control, history
    <2>2. PICK l \in {"retrieve", "stop"} : pc' = [pc EXCEPT ![Encoder] = l]
      BY <1>1 DEF export_loop, Goto
    <2> QED
      BY <1>0, <2>1, <2>2, GoesOn DEF HoldsAt, DupAt
  <1>2. CASE vframe_retrieve
    <2>1. /\ pc[Encoder] = "retrieve"
          /\ setup' = setup /\ dup' = dup /\ doubled' = doubled /\ status' = status
      BY <1>2 DEF vframe_retrieve, control
    <2>2. PICK f \in Frames : Got(Encoder, f) /\ Holds(Encoder, f) /\
               \E l \in {"dispose_last", "dispose", "requeue"} : Goto(Encoder, l)
      BY <1>2 DEF vframe_retrieve
    <2>3. PICK l \in {"dispose_last", "dispose", "requeue"} : pc' = [pc EXCEPT ![Encoder] = l]
      BY <2>2 DEF Goto
    <2>4. ClaimsFrom(Encoder) = "READY" /\ "READY" \in Stages
      BY <1>0 DEF ClaimsFrom, Importer, Encoder
    <2>5. /\ l \in HoldsAt /\ l \notin DupAt
          /\ "retrieve" \notin HoldsAt /\ "retrieve" \notin DupAt
      BY DEF HoldsAt, DupAt
    <2> QED
      BY <1>0, <2>1, <2>2, <2>3, <2>4, <2>5, Claims
  <1>3. CASE get_frame_wait(Encoder)
    BY <1>3, Stutters DEF get_frame_wait, ring, control, history
  <1>4. CASE vframe_retrieve_interrupted
    <2>1. /\ pc[Encoder] = "retrieve" /\ pc' = [pc EXCEPT ![Encoder] = "stop"]
          /\ UNCHANGED <<setup, pool, hold, dup, status, doubled>>
      BY <1>4 DEF vframe_retrieve_interrupted, Interrupted, Goto, control, history
    <2> QED
      BY <1>0, <2>1, GoesOn DEF HoldsAt, DupAt
  <1>5. CASE requeue \/ encoder_dispose_vframe
    <2>1. /\ pc[Encoder] \in {"requeue", "dispose", "dispose_last"}
          /\ setup' = setup /\ dup' = dup /\ doubled' = doubled
          /\ give_back(hold[Encoder]) /\ Releases(Encoder)
      BY <1>5 DEF requeue, encoder_dispose_vframe, control, history
    <2>2. PICK l \in {"retrieve", "loop", "stop"} : pc' = [pc EXCEPT ![Encoder] = l]
      BY <1>5 DEF requeue, encoder_dispose_vframe, Goto
    <2>3. hold[Encoder] \in Frames
      BY <1>0, <2>1, RingFacts DEF Hands, InRing, HoldsAt
    <2>4. PICK S \in Stages : Put(S, hold[Encoder])
      BY <1>0, <2>1, <2>3 DEF give_back, InRing
    <2>5. /\ pc[Encoder] \in HoldsAt /\ pc[Encoder] \notin DupAt
          /\ l \notin HoldsAt /\ l \notin DupAt
      BY <2>1 DEF HoldsAt, DupAt
    <2> QED
      BY <1>0, <2>1, <2>2, <2>4, <2>5, PutsBack
  <1>6. CASE tc_framebuffer_interrupt(Encoder, "cancel")
    BY <1>0, <1>6, InterruptInv
  <1>7. CASE tc_stop \/ tc_import_threads_cancel \/ join_import \/ tc_frame_threads_close
             \/ join_workers
    <2>1. /\ pc[Encoder] \in {"stop", "cancel", "join_import", "close", "join_workers"}
          /\ UNCHANGED <<setup, pool, hold, dup, status, doubled>>
      BY <1>7 DEF tc_stop, tc_import_threads_cancel, join_import, tc_frame_threads_close,
                  join_workers, ring, control, history
    <2>2. PICK l \in {"wake_NULL", "join_import", "close", "join_workers", "ended"} :
               pc' = [pc EXCEPT ![Encoder] = l]
      BY <1>7 DEF tc_stop, tc_import_threads_cancel, join_import, tc_frame_threads_close,
                  join_workers, Goto
    <2> QED
      BY <1>0, <2>1, <2>2, GoesOn DEF HoldsAt, DupAt
  <1> QED
    BY <1>1, <1>2, <1>3, <1>4, <1>5, <1>6, <1>7 DEF Export

LEMMA NextInv == IInv /\ [Next]_vars => IInv'
  <1> SUFFICES ASSUME IInv, [Next]_vars PROVE IInv'
    OBVIOUS
  <1>1. CASE Import
    BY <1>1, ImportInv
  <1>2. CASE \E w \in Workers : Process(w)
    BY <1>2, ProcessInv
  <1>3. CASE Export
    BY <1>3, ExportInv
  <1>4. CASE tc_interrupt
    <2>1. /\ pc[Event] = "loop" /\ pc' = [pc EXCEPT ![Event] = "wake_NULL"]
          /\ UNCHANGED <<setup, pool, hold, dup, status, doubled>>
      BY <1>4 DEF tc_interrupt, Goto, ring, history
    <2>2. Event \in Threads
      BY DEF Threads
    <2> QED
      BY <2>1, <2>2, GoesOn DEF HoldsAt, DupAt
  <1>5. CASE event_handler
    BY <1>5, InterruptInv DEF event_handler, Threads
  <1>6. CASE Ended \/ UNCHANGED vars
    BY <1>6, Stutters DEF Ended, vars
  <1> QED
    BY <1>1, <1>2, <1>3, <1>4, <1>5, <1>6 DEF Next

(* The frames are where the invariant says, in every session.              *)
LEMMA Inductive == Spec => []IInv
  BY InitInv, NextInv, PTL DEF Spec

-----------------------------------------------------------------------------
(* What the invariant says of the number of places.                        *)

LEMMA FewElements ==
    ASSUME NEW X, IsFiniteSet(X)
    PROVE  /\ Cardinality(X) \in Nat
           /\ Cardinality(X) = 0 <=> X = {}
           /\ (\A x, y \in X : x = y) => Cardinality(X) <= 1
  <1>1. Cardinality(X) \in Nat /\ (Cardinality(X) = 0 <=> X = {})
    BY FS_CardinalityType, FS_EmptySet
  <1>2. ASSUME \A x, y \in X : x = y PROVE Cardinality(X) <= 1
    <2>1. CASE X = {}
      BY <1>1, <2>1
    <2>2. CASE X # {}
      <3>1. PICK x \in X : X = {x}
        BY <1>2, <2>2
      <3> QED
        BY <3>1, FS_Singleton
    <2> QED
      BY <2>1, <2>2
  <1> QED
    BY <1>1, <1>2

LEMMA PlacesCounted ==
    ASSUME IInv, NEW f \in setup.ring
    PROVE  /\ f \notin Exempt => ~(Places(f) > 1)
           /\ doubled = {} => Places(f) # 0
  <1> DEFINE A == {p \in Stages \X (1 .. Cardinality(setup.ring)) :
                      p[2] <= Len(pool[p[1]]) /\ pool[p[1]][p[2]] = f}
             B == {t \in Threads : hold[t] = f}
             C == {w \in Workers : dup[w] = f}
  <1>0. InRing /\ Unshared /\ Present
    BY DEF IInv
  <1>1. /\ f \in Frames /\ Cardinality(setup.ring) \in Nat
        /\ pool \in [Stages -> Seq(setup.ring)]
        /\ \A S \in Stages : Len(pool[S]) \in Nat /\ Len(pool[S]) <= Cardinality(setup.ring)
                             /\ DOMAIN pool[S] = 1 .. Len(pool[S])
    BY <1>0, RingFacts DEF InRing
  <1>2. IsFiniteSet(A) /\ IsFiniteSet(B) /\ IsFiniteSet(C)
    <2>1. IsFiniteSet(Stages) /\ IsFiniteSet({Importer, Encoder, Event})
      <3>1. Stages = ((({"NULL"} \union {"EMPTY"}) \union {"WAIT"}) \union {"READY"})
        BY DEF Stages
      <3>2. {Importer, Encoder, Event} = (({Importer} \union {Encoder}) \union {Event})
        OBVIOUS
      <3>3. \A x : IsFiniteSet({x})
        BY FS_Singleton
      <3>4. IsFiniteSet({"NULL"} \union {"EMPTY"}) /\ IsFiniteSet({Importer} \union {Encoder})
        BY <3>3, FS_Union
      <3>5. IsFiniteSet(({"NULL"} \union {"EMPTY"}) \union {"WAIT"})
        BY <3>3, <3>4, FS_Union
      <3> QED
        <4>1. IsFiniteSet((({"NULL"} \union {"EMPTY"}) \union {"WAIT"}) \union {"READY"})
          BY <3>3, <3>5, FS_Union
        <4>2. IsFiniteSet(({Importer} \union {Encoder}) \union {Event})
          BY <3>3, <3>4, FS_Union
        <4> QED
          BY <3>1, <3>2, <4>1, <4>2
    <2>2. IsFiniteSet(1 .. Cardinality(setup.ring))
      BY <1>1, FS_Interval
    <2>3. IsFiniteSet(Stages \X (1 .. Cardinality(setup.ring)))
      BY <2>1, <2>2, FS_Product
    <2>4. IsFiniteSet(Threads)
      BY <2>1, WorkersAssumption, FS_Union DEF Threads
    <2> QED
      BY <2>3, <2>4, WorkersAssumption, FS_Subset
  <1>3. Places(f) = Cardinality(A) + Cardinality(B) + Cardinality(C)
    BY DEF Places
  <1>4. \A p \in A : /\ p[1] \in Stages /\ p[2] \in DOMAIN pool[p[1]]
                     /\ p = <<p[1], p[2]>> /\ Pooled(p[1], f)
    BY <1>1 DEF Pooled, Range
  <1>5. \A S \in Stages : Pooled(S, f) => A # {}
    <2>1. ASSUME NEW S \in Stages, Pooled(S, f) PROVE A # {}
      <3>1. PICK i \in DOMAIN pool[S] : pool[S][i] = f
        BY <2>1 DEF Pooled, Range
      <3>2. <<S, i>> \in A
        BY <1>1, <3>1
      <3> QED
        BY <3>2
    <2> QED
      BY <2>1
  <1>6. ASSUME f \notin Exempt PROVE ~(Places(f) > 1)
    <2>1. Single(f) /\ C = {}
      BY <1>0, <1>1, <1>6 DEF Unshared, Exempt
    <2>2. \A p, q \in A : p = q
      BY <1>4, <2>1 DEF Single, Once
    <2>3. \A t, u \in B : t = u
      BY <2>1 DEF Single
    <2>4. A = {} \/ B = {}
      BY <1>4, <2>1 DEF Single
    <2> HIDE DEF A, B, C
    <2>5. /\ Cardinality(A) \in Nat /\ Cardinality(A) <= 1 /\ (A = {} => Cardinality(A) = 0)
          /\ Cardinality(B) \in Nat /\ Cardinality(B) <= 1 /\ (B = {} => Cardinality(B) = 0)
          /\ Cardinality(C) = 0
      BY <1>2, <2>1, <2>2, <2>3, FewElements
    <2> QED
      BY <1>3, <2>4, <2>5
  <1>7. ASSUME doubled = {} PROVE Places(f) # 0
    <2>1. A # {} \/ B # {} \/ C # {}
      <3>1. Somewhere(f)
        BY <1>0, <1>7 DEF Present
      <3> QED
        BY <1>5, <3>1 DEF Somewhere, Fresh
    <2> HIDE DEF A, B, C
    <2>2. /\ Cardinality(A) \in Nat /\ (Cardinality(A) = 0 <=> A = {})
          /\ Cardinality(B) \in Nat /\ (Cardinality(B) = 0 <=> B = {})
          /\ Cardinality(C) \in Nat /\ (Cardinality(C) = 0 <=> C = {})
      BY <1>2, FewElements
    <2>3. \/ Cardinality(A) > 0
          \/ Cardinality(B) > 0
          \/ Cardinality(C) > 0
      <3>1. CASE A # {}
        BY <2>2, <3>1
      <3>2. CASE B # {}
        BY <2>2, <3>2
      <3>3. CASE C # {}
        BY <2>2, <3>3
      <3> QED
        BY <2>1, <3>1, <3>2, <3>3
    <2>4. Cardinality(A) + Cardinality(B) + Cardinality(C) # 0
      <3>1. \A a, b, c \in Nat : a > 0 \/ b > 0 \/ c > 0 => a + b + c # 0
        OBVIOUS
      <3> QED
        BY <2>2, <2>3, <3>1
    <2> QED
      BY <1>3, <2>4
  <1> QED
    BY <1>6, <1>7

(* Only a frame that a worker has duplicated, and pushed twice, is ever in *)
(* two places, and before there is one no pool refuses a frame, so that    *)
(* every frame of the ring is in one: for any ring, any number of frame    *)
(* threads, any filters, and an interruption at any time.                  *)
THEOREM DamageIsContained == Spec => []DamageContained
  <1>1. IInv => DamageContained
    <2> SUFFICES ASSUME IInv, NEW f \in setup.ring
                 PROVE  /\ Places(f) > 1 => f \in doubled \union {dup[w] : w \in Workers}
                        /\ Places(f) = 0 => doubled # {}
      BY DEF DamageContained
    <2> QED
      BY PlacesCounted DEF Exempt
  <1> QED
    BY <1>1, Inductive, PTL

(* Without a frame pushed twice every pooled frame has the status of its   *)
(* pool: the status by which encoder_dispose_vframe reinjects a frame, and *)
(* a flush frees it, tells its pool.                                       *)
THEOREM StatusTellsPool == Spec => []StatusIsPool
  <1>1. IInv => StatusIsPool
    BY DEF IInv
  <1> QED
    BY <1>1, Inductive, PTL

-----------------------------------------------------------------------------
(* The inductive invariant of the order, with at most one frame thread and *)
(* until a frame is pushed twice.                                          *)

InTeam ==
    /\ \A w \in Workers : pc[w] # "none" => w \in Team
    /\ Team = {} => \A w \in Workers : pc[w] = "none"

(* What the encoder gives back to be seen again goes to the READY pool.    *)
Reinjectable ==
    doubled = {} /\ hold[Encoder] # NULL => status[hold[Encoder]] = "READY"

(* The frames pass the WAIT pool, and the one worker goes on to claim them *)
(* (it does not while it pushes a duplicate behind younger frames).        *)
Passing == Team # {} /\ \A w \in Workers : pc[w] \notin {"dup_mark", "dup_push"}

(* How far a frame is on its way: the smaller the rank, the further.       *)
At(r, f) ==
    \/ r = 1 /\ hold[Encoder] = f
    \/ r = 2 /\ Pooled("READY", f)
    \/ r = 3 /\ \E w \in Workers : hold[w] = f
    \/ r = 4 /\ Passing /\ Pooled("WAIT", f)
    \/ r = 5 /\ hold[Importer] = f
Ranks == 1 .. 5

SortedBy(v, s) == \A j, k \in DOMAIN s : j <= k => v[s[j]] <= v[s[k]]
Queues == SortedBy(id, pool["READY"]) /\ (Passing => SortedBy(id, pool["WAIT"]))

InRank ==
    \A r, s \in Ranks, f, g \in Frames : r < s /\ At(r, f) /\ At(s, g) => id[f] <= id[g]

(* What was encoded came before what is on its way, in order, ...          *)
Behind ==
    /\ \A k, l \in DOMAIN encoded : k <= l => encoded[k] <= encoded[l]
    /\ \A k \in DOMAIN encoded, r \in Ranks, f \in Frames : At(r, f) => encoded[k] <= id[f]

(* ... and all of it before what is still to be imported.                  *)
Counted ==
    /\ \A k \in DOMAIN encoded : encoded[k] <= framecount
    /\ \A r \in Ranks, f \in Frames : At(r, f) => id[f] <= framecount

Numbers == id \in [Frames -> Int] /\ framecount \in Int /\ encoded \in Seq(Int)

OrderInv ==
    /\ Numbers /\ InTeam /\ Reinjectable
    /\ OneWay => Queues /\ InRank /\ Behind /\ Counted

-----------------------------------------------------------------------------
(* Ordered queues.                                                         *)

LEMMA SortedTail ==
    ASSUME NEW R, NEW s \in Seq(R), s # <<>>, NEW v \in [R -> Int], SortedBy(v, s)
    PROVE  /\ SortedBy(v, Tail(s))
           /\ \A g \in Range(Tail(s)) : v[Head(s)] <= v[g]
  <1>1. /\ Len(s) \in Nat /\ Len(s) > 0 /\ DOMAIN s = 1 .. Len(s)
        /\ DOMAIN Tail(s) = 1 .. Len(s) - 1 /\ Head(s) = s[1]
    OBVIOUS
  <1>2. \A k \in 1 .. Len(s) - 1 : Tail(s)[k] = s[k + 1] /\ k + 1 \in DOMAIN s /\ 1 <= k + 1
    BY <1>1
  <1>3. SortedBy(v, Tail(s))
    <2>1. ASSUME NEW j \in DOMAIN Tail(s), NEW k \in DOMAIN Tail(s), j <= k
          PROVE  v[Tail(s)[j]] <= v[Tail(s)[k]]
      <3>1. j + 1 \in DOMAIN s /\ k + 1 \in DOMAIN s /\ j + 1 <= k + 1
        BY <1>1, <2>1
      <3>2. v[s[j + 1]] <= v[s[k + 1]]
        BY <3>1 DEF SortedBy
      <3> QED
        BY <1>1, <1>2, <3>2
    <2> QED
      BY <2>1 DEF SortedBy
  <1>4. \A g \in Range(Tail(s)) : v[Head(s)] <= v[g]
    <2>1. ASSUME NEW g \in Range(Tail(s)) PROVE v[s[1]] <= v[g]
      <3>1. PICK k \in DOMAIN Tail(s) : g = Tail(s)[k]
        BY DEF Range
      <3>2. 1 \in DOMAIN s /\ k + 1 \in DOMAIN s /\ 1 <= k + 1 /\ g = s[k + 1]
        BY <1>1, <1>2, <3>1
      <3> QED
        BY <3>2 DEF SortedBy
    <2> QED
      BY <1>1, <2>1
  <1> QED
    BY <1>3, <1>4

LEMMA NumbersInsert ==
    ASSUME NEW n \in Nat, NEW i \in 1 .. n + 1, NEW x \in Int, NEW a \in [1 .. n -> Int], NEW b,
           b[i] = x, \A k \in 1 .. i - 1 : b[k] = a[k], \A k \in i + 1 .. n + 1 : b[k] = a[k - 1],
           \A j, k \in 1 .. n : j <= k => a[j] <= a[k],
           \A k \in 1 .. i - 1 : a[k] <= x,
           \A k \in i .. n : x <= a[k]
    PROVE  \A j, k \in 1 .. n + 1 : j <= k => b[j] <= b[k]
  <1> SUFFICES ASSUME NEW j \in 1 .. n + 1, NEW k \in 1 .. n + 1, j <= k
               PROVE  b[j] <= b[k]
    OBVIOUS
  <1>1. CASE k < i
    <2>1. j \in 1 .. i - 1 /\ k \in 1 .. i - 1 /\ j \in 1 .. n /\ k \in 1 .. n
      BY <1>1
    <2> QED
      BY <2>1
  <1>2. CASE k = i
    <2>1. j = i \/ j \in 1 .. i - 1
      BY <1>2
    <2> QED
      BY <1>2, <2>1
  <1>3. CASE k > i
    <2>1. k \in i + 1 .. n + 1 /\ k - 1 \in i .. n /\ k - 1 \in 1 .. n
      BY <1>3
    <2>2. CASE j < i
      <3>1. j \in 1 .. i - 1 /\ j \in 1 .. n /\ j <= k - 1
        BY <1>3, <2>2
      <3> QED
        BY <2>1, <3>1
    <2>3. CASE j = i
      BY <2>1, <2>3
    <2>4. CASE j > i
      <3>1. j \in i + 1 .. n + 1 /\ j - 1 \in 1 .. n /\ j - 1 <= k - 1
        BY <2>4
      <3> QED
        BY <2>1, <3>1
    <2> QED
      BY <2>2, <2>3, <2>4
  <1> QED
    BY <1>1, <1>2, <1>3

LEMMA SortedInsert ==
    ASSUME NEW R, NEW s \in Seq(R), NEW q \in Seq(R), NEW f \in R, NEW v \in [R -> Int],
           NEW i \in 1 .. Len(s) + 1, Inserted(s, i, f, q), SortedBy(v, s),
           \A k \in 1 .. i - 1 : v[s[k]] <= v[f],
           \A k \in i .. Len(s) : v[f] <= v[s[k]]
    PROVE  SortedBy(v, q)
  <1> DEFINE n == Len(s)
             a == [k \in 1 .. n |-> v[s[k]]]
             b == [k \in 1 .. n + 1 |-> v[q[k]]]
  <1>1. /\ n \in Nat /\ i \in 1 .. n + 1 /\ v[f] \in Int
        /\ DOMAIN s = 1 .. n /\ DOMAIN q = 1 .. n + 1
    BY DEF Inserted
  <1>2. a \in [1 .. n -> Int]
    <2>1. \A k \in 1 .. n : s[k] \in R
      BY <1>1
    <2> QED
      BY <2>1
  <1>3. /\ 1 .. i - 1 \subseteq 1 .. n /\ i .. n \subseteq 1 .. n
        /\ 1 .. i - 1 \subseteq 1 .. n + 1 /\ i + 1 .. n + 1 \subseteq 1 .. n + 1
        /\ \A k \in i + 1 .. n + 1 : k - 1 \in 1 .. n
    BY <1>1
  <1>4. /\ b[i] = v[f]
        /\ \A k \in 1 .. i - 1 : b[k] = a[k]
        /\ \A k \in i + 1 .. n + 1 : b[k] = a[k - 1]
    BY <1>1, <1>3 DEF Inserted
  <1>5. \A j, k \in 1 .. n : j <= k => a[j] <= a[k]
    BY <1>1 DEF SortedBy
  <1>6. /\ \A k \in 1 .. i - 1 : a[k] <= v[f]
        /\ \A k \in i .. n : v[f] <= a[k]
    BY <1>3
  <1>7. \A j, k \in 1 .. n + 1 : j <= k => b[j] <= b[k]
    <2> HIDE DEF a, b, n
    <2> QED
      BY ZenonT(40), <1>1, <1>2, <1>4, <1>5, <1>6, NumbersInsert
  <1> QED
    BY <1>1, <1>7 DEF SortedBy

(* A put keeps its queue ordered, if the frame belongs at one of its ends  *)
(* and, but for the READY queue, at the back.                              *)
LEMMA PutSorted ==
    ASSUME InRing, Numbers, NEW S \in Stages, NEW f \in setup.ring, Put(S, f),
           SortedBy(id, pool[S]),
           \/ \A g \in Range(pool[S]) : id[g] <= id[f]
           \/ S = "READY" /\ \A g \in Range(pool[S]) : id[f] <= id[g]
    PROVE  SortedBy(id, pool'[S])
  <1>1. PICK q \in Queued(S, f) : pool' = [pool EXCEPT ![S] = q]
    BY DEF Put
  <1>2. /\ pool \in [Stages -> Seq(setup.ring)] /\ pool[S] \in Seq(setup.ring)
        /\ Len(pool[S]) \in Nat /\ setup.ring \subseteq Frames
    BY RingFacts DEF InRing
  <1> DEFINE s == pool[S]
             n == Len(pool[S])
  <1>3. /\ pool'[S] = q /\ s \in Seq(Frames) /\ f \in Frames /\ id \in [Frames -> Int]
        /\ DOMAIN s = 1 .. n
    BY <1>1, <1>2 DEF Numbers
  <1>4. CASE Len(pool[S]) = Cardinality(setup.ring)
    BY <1>1, <1>3, <1>4 DEF Queued
  <1>5. CASE Len(pool[S]) # Cardinality(setup.ring)
    <2>1. PICK i \in 1 .. n + 1 : /\ q \in Seq(Frames) /\ Inserted(s, i, f, q)
                                  /\ \A k \in 1 .. i - 1 : id[s[k]] <= id[f]
                                  /\ \A k \in i .. n : id[f] <= id[s[k]]
      <3>0. /\ \A k \in 1 .. n : s[k] \in Range(s)
            /\ 1 \in 1 .. n + 1 /\ n + 1 \in 1 .. n + 1
            /\ 1 .. (n + 1) - 1 = 1 .. n /\ 1 .. 1 - 1 = {} /\ n + 1 .. n = {}
        <4>1. \A m \in Nat : /\ 1 \in 1 .. m + 1 /\ m + 1 \in 1 .. m + 1
                             /\ 1 .. (m + 1) - 1 = 1 .. m /\ 1 .. 1 - 1 = {} /\ m + 1 .. m = {}
          OBVIOUS
        <4>2. \A k \in 1 .. n : s[k] \in Range(s)
          BY <1>3 DEF Range
        <4> QED
          BY <1>2, <4>1, <4>2
      <3>1. CASE S # "READY"
        <4>1. q = Append(s, f)
          BY <1>1, <1>5, <3>1 DEF Queued
        <4>2. q \in Seq(Frames) /\ Inserted(s, n + 1, f, q)
          BY <1>3, <4>1, AppendInserts
        <4> QED
          BY <3>0, <3>1, <4>2
      <3>2. CASE S = "READY"
        <4> DEFINE O(i) == /\ \A k \in 1 .. i - 1 : id[s[k]] <= id[f]
                           /\ \A k \in i .. n : id[f] <= id[s[k]]
                   Ordered == {i \in 1 .. n + 1 : O(i)}
        <4>1. Ordered # {}
          <5>1. CASE \A g \in Range(s) : id[g] <= id[f]
            <6>1. O(n + 1)
              BY <3>0, <5>1
            <6> QED
              BY <3>0, <6>1
          <5>2. CASE \A g \in Range(s) : id[f] <= id[g]
            <6>1. O(1)
              BY <3>0, <5>2
            <6> QED
              BY <3>0, <6>1
          <5> QED
            BY <5>1, <5>2
        <4>2. PICK i \in Ordered : q = InsertAt(s, i, f)
          BY <1>1, <1>5, <3>2, <4>1 DEF Queued
        <4>3. i \in 1 .. n + 1 /\ O(i)
          OBVIOUS
        <4>4. q \in Seq(Frames) /\ Inserted(s, i, f, q)
          BY <1>3, <4>2, <4>3, InsertAtInserts
        <4> QED
          BY <4>3, <4>4
      <3> QED
        BY <3>1, <3>2
    <2>2. SortedBy(id, q)
      <3>1. i \in 1 .. Len(s) + 1 /\ (\A k \in i .. Len(s) : id[f] <= id[s[k]])
        BY <2>1
      <3>2. SortedBy(id, s)
        OBVIOUS
      <3>3. s \in Seq(Frames) /\ q \in Seq(Frames) /\ f \in Frames /\ id \in [Frames -> Int]
        BY <1>3, <2>1
      <3>4. Inserted(s, i, f, q) /\ \A k \in 1 .. i - 1 : id[s[k]] <= id[f]
        BY <2>1
      <3> HIDE DEF s, n
      <3> QED
        BY <3>1, <3>2, <3>3, <3>4, SortedInsert
    <2> QED
      BY <1>3, <2>2
  <1> QED
    BY <1>4, <1>5

-----------------------------------------------------------------------------
(* What a step has to do to keep the order.                                *)

(* There is one frame thread at most. *)
LEMMA OneWorker ==
    ASSUME setup \in Setups, Cardinality(Team) <= 1, InTeam,
           NEW v \in Workers, NEW w \in Workers, pc[v] # "none", pc[w] # "none"
    PROVE  v = w
  <1>1. Team \subseteq Workers /\ IsFiniteSet(Team) /\ v \in Team /\ w \in Team
    BY WorkersAssumption, FS_Subset DEF Setup, Team, InTeam
  <1> SUFFICES ASSUME v # w PROVE FALSE
    OBVIOUS
  <1>2. IsFiniteSet({v}) /\ Cardinality({v}) = 1
    BY FS_Singleton
  <1>3. Cardinality({v} \union {w}) = 2
    <2>1. w \notin {v}
      OBVIOUS
    <2>2. Cardinality({v} \union {w}) = Cardinality({v}) + 1
      BY <1>2, <2>1, FS_AddElement
    <2> QED
      BY <1>2, <2>2
  <1>4. {v} \union {w} \in SUBSET Team
    BY <1>1
  <1>5. Cardinality({v} \union {w}) <= Cardinality(Team)
    BY <1>1, <1>4, FS_Subset
  <1>6. Cardinality(Team) \in Nat
    BY <1>1, FS_CardinalityType
  <1> QED
    BY <1>3, <1>5, <1>6

(* The frames on their way are nowhere else than before, but for f, which  *)
(* now is at b, if anywhere, and belongs there.                            *)
LEMMA OrderMoved ==
    ASSUME Numbers, Numbers', InRank, Behind, Counted,
           NEW f, NEW b \in Ranks,
           \A r \in Ranks, g \in Frames : g # f /\ At(r, g)' => At(r, g) /\ id'[g] = id[g],
           f \in Frames => \A r \in Ranks : At(r, f)' =>
                /\ r = b
                /\ \A s \in Ranks, g \in Frames : g # f /\ At(s, g)' =>
                       /\ s < b => id[g] <= id'[f]
                       /\ b < s => id'[f] <= id[g]
                /\ id'[f] <= framecount'
                /\ \A k \in DOMAIN encoded : encoded[k] <= id'[f],
           framecount <= framecount'
    PROVE  /\ InRank'
           /\ \A r \in Ranks, g \in Frames : At(r, g)' =>
                  /\ id'[g] <= framecount'
                  /\ \A k \in DOMAIN encoded : encoded[k] <= id'[g]
           /\ encoded' = encoded => Behind' /\ Counted'
  <1>1. ASSUME NEW r \in Ranks, NEW s \in Ranks, NEW g \in Frames, NEW h \in Frames,
               r < s, At(r, g)', At(s, h)'
        PROVE  id'[g] <= id'[h]
    <2>1. CASE g = f /\ h = f
      BY <1>1, <2>1 DEF Numbers
    <2>2. CASE g = f /\ h # f
      BY <1>1, <2>2
    <2>3. CASE g # f /\ h = f
      BY <1>1, <2>3
    <2>4. CASE g # f /\ h # f
      BY <1>1, <2>4 DEF InRank
    <2> QED
      BY <2>1, <2>2, <2>3, <2>4
  <1>2. ASSUME NEW r \in Ranks, NEW g \in Frames, At(r, g)'
        PROVE  /\ id'[g] <= framecount'
               /\ \A k \in DOMAIN encoded : encoded[k] <= id'[g]
    <2>1. CASE g = f
      BY <1>2, <2>1
    <2>2. CASE g # f
      <3>1. At(r, g) /\ id'[g] = id[g]
        BY <1>2, <2>2
      <3>2. id[g] <= framecount /\ \A k \in DOMAIN encoded : encoded[k] <= id[g]
        BY <3>1 DEF Counted, Behind
      <3> QED
        BY <3>1, <3>2 DEF Numbers
    <2> QED
      BY <2>1, <2>2
  <1>3. InRank'
    BY <1>1 DEF InRank
  <1>4. encoded' = encoded => Behind'
    BY <1>2 DEF Behind
  <1>5. \A k \in DOMAIN encoded : encoded[k] <= framecount'
    BY DEF Counted, Numbers
  <1>6. encoded' = encoded => Counted'
    BY <1>2, <1>5 DEF Counted
  <1> QED
    BY <1>2, <1>3, <1>4, <1>6

(* A frame is not further on its way than it was. *)
LEMMA AtKept ==
    ASSUME NEW g \in Frames,
           Pooled("READY", g)' => Pooled("READY", g),
           Pooled("WAIT", g)' => Pooled("WAIT", g),
           Passing' => Passing,
           \A t \in Threads : hold'[t] = g => hold[t] = g
    PROVE  \A r \in Ranks : At(r, g)' => At(r, g)
  BY DEF At, Threads

LEMMA TeamKept ==
    ASSUME Hands, InTeam, setup' = setup,
           NEW t \in Threads, NEW l, pc' = [pc EXCEPT ![t] = l], pc[t] # "none", l # "none"
    PROVE  InTeam' /\ pc'[t] = l /\ \A u \in Threads : u # t => pc'[u] = pc[u]
  <1>1. pc'[t] = l /\ \A u \in Threads : u # t => pc'[u] = pc[u]
    BY DEF Hands
  <1>2. Workers \subseteq Threads
    BY DEF Threads
  <1> QED
    BY <1>1, <1>2 DEF InTeam, Team

(* The frames stop passing when a duplicate is in the pool, and for good.  *)
LEMMA PassingKept ==
    ASSUME Hands, setup' = setup,
           NEW t \in Threads, NEW l, pc' = [pc EXCEPT ![t] = l],
           pc[t] \notin {"dup_mark", "dup_push"}
             \/ (t \in Workers /\ l \in {"dup_mark", "dup_push"})
    PROVE  Passing' => Passing
  <1>1. pc'[t] = l /\ \A u \in Threads : u # t => pc'[u] = pc[u]
    BY DEF Hands
  <1>2. Workers \subseteq Threads
    BY DEF Threads
  <1> QED
    BY <1>1, <1>2 DEF Passing, Team

(* The encoder's frame keeps its status, unless a put or a claim moves it. *)
LEMMA ReinjectableKept ==
    ASSUME Reinjectable, doubled \subseteq doubled', hold'[Encoder] \in {hold[Encoder], NULL},
           doubled' = {} /\ hold'[Encoder] # NULL =>
               status'[hold'[Encoder]] = status[hold'[Encoder]]
    PROVE  Reinjectable'
  BY DEF Reinjectable

(* The ids of queued frames do not change. *)
LEMMA SortedKept ==
    ASSUME NEW s, NEW v, NEW u, SortedBy(v, s), \A g \in Range(s) : u[g] = v[g]
    PROVE  SortedBy(u, s)
  <1>1. \A k \in DOMAIN s : u[s[k]] = v[s[k]]
    BY DEF Range
  <1> QED
    BY <1>1 DEF SortedBy

-----------------------------------------------------------------------------
(* The kinds of steps again, and what they do to the order.                *)

LEMMA GoesOnInOrder ==
    ASSUME IInv, OrderInv,
           UNCHANGED <<setup, pool, hold, id, status, framecount, encoded, doubled>>,
           NEW t \in Threads, NEW l, pc' = [pc EXCEPT ![t] = l],
           pc[t] # "none", l # "none",
           pc[t] \notin {"dup_mark", "dup_push"}
             \/ (t \in Workers /\ l \in {"dup_mark", "dup_push"})
    PROVE  OrderInv'
  <1>0. Hands /\ Numbers /\ InTeam /\ Reinjectable
    BY DEF IInv, OrderInv
  <1>1. InTeam' /\ (Passing' => Passing)
    BY <1>0, TeamKept, PassingKept
  <1>2. Numbers' /\ Reinjectable'
    BY <1>0 DEF Numbers, Reinjectable
  <1>3. ASSUME OneWay' PROVE Queues' /\ InRank' /\ Behind' /\ Counted'
    <2>1. Queues /\ InRank /\ Behind /\ Counted
      BY <1>3 DEF OrderInv, OneWay, Team
    <2>2. Queues'
      BY <1>1, <2>1 DEF Queues, SortedBy
    <2>3. \A r \in Ranks, g \in Frames : At(r, g)' => At(r, g)
      BY <1>1, AtKept DEF Pooled
    <2>4. NULL \notin Frames /\ 1 \in Ranks /\ framecount <= framecount'
      BY <1>0 DEF Ranks, Numbers
    <2>5. InRank' /\ Behind' /\ Counted'
      BY <1>0, <1>2, <2>1, <2>3, <2>4, OrderMoved
    <2> QED
      BY <2>2, <2>5
  <1> QED
    BY <1>1, <1>2, <1>3 DEF OrderInv

LEMMA GotPlaces ==
    ASSUME IInv, doubled' = doubled, NEW t, NEW f, NEW S \in Stages, ClaimsFrom(t) = S, Got(t, f)
    PROVE  /\ f \in Frames /\ f # NULL /\ Pooled(S, f)
           /\ \A T \in Stages, g \in Frames : Pooled(T, g)' => Pooled(T, g)
           /\ \A T \in Stages : T # S => pool'[T] = pool[T]
           /\ doubled = {} => /\ \A T \in Stages : ~Pooled(T, f)'
                              /\ \A u \in Threads : hold[u] # f
  <1>0. InRing /\ Unshared
    BY DEF IInv
  <1>1. f \in setup.ring /\ Pooled(S, f)
    BY <1>0, GotEffect
  <1>2. \A T \in Stages : T # S => pool'[T] = pool[T]
    BY <1>0, GotEffect
  <1>3. Range(pool[S]) = Range(pool'[S]) \union {f}
    BY <1>0, GotEffect
  <1>4. Once(pool[S], f) => f \notin Range(pool'[S])
    BY <1>0, GotEffect
  <1>5. f \in Frames /\ f # NULL
    BY <1>0, <1>1, RingFacts DEF InRing
  <1>6. \A T \in Stages, g \in Frames : Pooled(T, g)' => Pooled(T, g)
    BY <1>2, <1>3 DEF Pooled
  <1>7. ASSUME doubled = {}
        PROVE  /\ \A T \in Stages : ~Pooled(T, f)'
               /\ \A u \in Threads : hold[u] # f
    <2>1. Single(f)
      BY <1>0, <1>5, <1>7 DEF Unshared
    <2> QED
      BY <1>1, <1>2, <1>4, <2>1 DEF Single, Pooled
  <1> QED
    BY <1>1, <1>2, <1>5, <1>6, <1>7

(* What is claimed from an ordered queue precedes what stays in it. *)
LEMMA GotFirst ==
    ASSUME InRing, Numbers, NEW t, NEW f, NEW S \in Stages, ClaimsFrom(t) = S, Got(t, f),
           SortedBy(id, pool[S])
    PROVE  /\ SortedBy(id, pool'[S])
           /\ \A g \in Frames : Pooled(S, g)' => id[f] <= id[g]
  <1>1. /\ pool \in [Stages -> Seq(setup.ring)] /\ setup.ring \subseteq Frames
        /\ id \in [Frames -> Int]
        /\ pool[S] # <<>> /\ f = Head(pool[S]) /\ pool' = [pool EXCEPT ![S] = Tail(pool[S])]
    BY RingFacts DEF InRing, Numbers, Got
  <1>2. pool[S] \in Seq(Frames) /\ pool'[S] = Tail(pool[S])
    BY <1>1
  <1>3. SortedBy(id, Tail(pool[S])) /\ \A g \in Range(Tail(pool[S])) : id[Head(pool[S])] <= id[g]
    BY <1>1, <1>2, SortedTail
  <1> QED
    BY <1>1, <1>2, <1>3 DEF Pooled

(* A registered frame is the youngest. *)
LEMMA RegisterInOrder ==
    ASSUME IInv, OrderInv, vframe_register
    PROVE  OrderInv'
  <1>0. InRing /\ Hands /\ Numbers /\ InTeam /\ Reinjectable
    BY DEF IInv, OrderInv
  <1>1. PICK f \in Frames : /\ Got(Importer, f) /\ Holds(Importer, f)
                            /\ id' = [id EXCEPT ![f] = framecount]
                            /\ status' = [status EXCEPT ![f] = "EMPTY"]
    BY DEF vframe_register
  <1>2. /\ pc[Importer] = "register" /\ pc' = [pc EXCEPT ![Importer] = "fill"]
        /\ setup' = setup /\ doubled' = doubled /\ framecount' = framecount /\ encoded' = encoded
    BY DEF vframe_register, Goto, control, history
  <1>3. ClaimsFrom(Importer) = "NULL" /\ "NULL" \in Stages /\ "READY" \in Stages /\ "WAIT" \in Stages
    BY DEF ClaimsFrom, Importer, Encoder, Stages
  <1>4. /\ \A T \in Stages, g \in Frames : Pooled(T, g)' => Pooled(T, g)
        /\ \A T \in Stages : T # "NULL" => pool'[T] = pool[T]
        /\ doubled = {} => /\ \A T \in Stages : ~Pooled(T, f)'
                           /\ \A u \in Threads : hold[u] # f
    BY <1>1, <1>2, <1>3, GotPlaces
  <1>5. Importer \in Threads /\ Encoder \in Threads /\ Encoder # Importer /\ Workers \subseteq Threads
        /\ Importer \notin Workers
    BY WorkersAssumption DEF Threads, Encoder, Importer
  <1>6. /\ hold'[Importer] = f /\ \A u \in Threads : u # Importer => hold'[u] = hold[u]
        /\ id'[f] = framecount /\ \A g \in Frames : g # f => id'[g] = id[g]
        /\ \A g \in Frames : g # f => status'[g] = status[g]
    BY <1>0, <1>1, <1>5 DEF InRing, Numbers, Holds
  <1>7. Numbers'
    BY <1>0, <1>1, <1>2 DEF Numbers
  <1>8. InTeam' /\ (Passing' => Passing)
    BY <1>0, <1>2, <1>5, TeamKept, PassingKept
  <1>9. Reinjectable'
    <2>1. hold'[Encoder] = hold[Encoder] /\ doubled \subseteq doubled'
      BY <1>2, <1>5, <1>6
    <2>2. doubled' = {} /\ hold'[Encoder] # NULL => status'[hold'[Encoder]] = status[hold'[Encoder]]
      <3>1. hold[Encoder] \in setup.ring \union {NULL} /\ setup.ring \subseteq Frames
        BY <1>0, <1>5, RingFacts DEF InRing
      <3> QED
        BY <1>2, <1>4, <1>5, <1>6, <2>1, <3>1
    <2> QED
      BY <1>0, <2>1, <2>2, ReinjectableKept
  <1>10. ASSUME OneWay' PROVE Queues' /\ InRank' /\ Behind' /\ Counted'
    <2>1. doubled = {} /\ Queues /\ InRank /\ Behind /\ Counted
      BY <1>2, <1>10 DEF OrderInv, OneWay, Team
    <2>2. Queues'
      <3>1. \A T \in {"READY", "WAIT"} : pool'[T] = pool[T] /\ \A g \in Range(pool[T]) : id'[g] = id[g]
        <4>1. \A T \in {"READY", "WAIT"} : pool'[T] = pool[T] /\ f \notin Range(pool[T])
          BY <1>3, <1>4, <2>1 DEF Pooled
        <4>2. \A T \in {"READY", "WAIT"} : Range(pool[T]) \subseteq Frames
          BY <1>0, <1>3, RingFacts DEF InRing, Range
        <4> QED
          BY <1>6, <4>1, <4>2
      <3> QED
        BY <1>8, <2>1, <3>1, SortedKept DEF Queues
    <2>3. \A r \in Ranks, g \in Frames : g # f /\ At(r, g)' => At(r, g) /\ id'[g] = id[g]
      BY <1>3, <1>4, <1>5, <1>6, <1>8, AtKept
    <2>4. \A r \in Ranks : At(r, f)' => r = 5
      BY <1>3, <1>4, <1>5, <1>6, <2>1 DEF At
    <2>5. \A s \in Ranks, g \in Frames : g # f /\ At(s, g)' => id[g] <= framecount
      BY <2>1, <2>3 DEF Counted
    <2>6. framecount <= framecount' /\ framecount <= framecount /\ 5 \in Ranks
          /\ \A s \in Ranks : ~(5 < s)
      BY <1>0, <1>2 DEF Numbers, Ranks
    <2>7. \A k \in DOMAIN encoded : encoded[k] <= framecount
      BY <2>1 DEF Counted
    <2>8. InRank' /\ Behind' /\ Counted'
      BY <1>0, <1>2, <1>6, <1>7, <2>1, <2>3, <2>4, <2>5, <2>6, <2>7, OrderMoved
    <2> QED
      BY <2>2, <2>8
  <1> QED
    BY <1>7, <1>8, <1>9, <1>10 DEF OrderInv

(* A worker claims the next frame of the WAIT pool. *)
LEMMA ReserveInOrder ==
    ASSUME IInv, OrderInv, NEW w \in Workers, vframe_reserve(w)
    PROVE  OrderInv'
  <1>0. InRing /\ Hands /\ Numbers /\ InTeam /\ Reinjectable
    BY DEF IInv, OrderInv
  <1>1. PICK f \in Frames : Got(w, f) /\ Holds(w, f) /\
            \E l \in {"drop", "dup", "post"} : Goto(w, l)
    BY DEF vframe_reserve
  <1>2. PICK l \in {"drop", "dup", "post"} : pc' = [pc EXCEPT ![w] = l]
    BY <1>1 DEF Goto
  <1>3. /\ pc[w] = "reserve"
        /\ setup' = setup /\ doubled' = doubled /\ framecount' = framecount /\ encoded' = encoded
        /\ id' = id /\ status' = status
    BY DEF vframe_reserve
  <1>4. /\ w \in Threads /\ Importer \in Threads /\ Encoder \in Threads /\ Workers \subseteq Threads
        /\ w # Importer /\ w # Encoder /\ Encoder \notin Workers /\ Importer \notin Workers
    BY WorkersAssumption DEF Threads
  <1>5. ClaimsFrom(w) = "WAIT" /\ "WAIT" \in Stages /\ "READY" \in Stages
    BY <1>3, <1>4 DEF ClaimsFrom, Stages
  <1>6. /\ Pooled("WAIT", f) /\ f # NULL
        /\ \A T \in Stages, g \in Frames : Pooled(T, g)' => Pooled(T, g)
        /\ \A T \in Stages : T # "WAIT" => pool'[T] = pool[T]
        /\ doubled = {} => /\ \A T \in Stages : ~Pooled(T, f)'
                           /\ \A u \in Threads : hold[u] # f
    BY <1>1, <1>3, <1>5, GotPlaces
  <1>7. hold'[w] = f /\ \A u \in Threads : u # w => hold'[u] = hold[u]
    BY <1>0, <1>1, <1>4 DEF InRing, Holds
  <1>8. Numbers' /\ Reinjectable'
    BY <1>0, <1>3, <1>4, <1>7 DEF Numbers, Reinjectable
  <1>9. InTeam' /\ (Passing' => Passing)
    BY <1>0, <1>2, <1>3, <1>4, TeamKept, PassingKept
  <1>10. ASSUME OneWay' PROVE Queues' /\ InRank' /\ Behind' /\ Counted'
    <2>1. doubled = {} /\ Cardinality(Team) <= 1 /\ Queues /\ InRank /\ Behind /\ Counted
      BY <1>3, <1>10 DEF OrderInv, OneWay, Team
    <2>2. Passing
      <3>1. \A v \in Workers : pc[v] # "none" => v = w
        BY <1>0, <1>3, <2>1, OneWorker DEF InRing
      <3> QED
        BY <1>0, <1>3, <3>1 DEF Passing, InTeam
    <2>3. /\ SortedBy(id, pool'["WAIT"])
          /\ \A g \in Frames : Pooled("WAIT", g)' => id[f] <= id[g]
      BY <1>0, <1>1, <1>5, <2>1, <2>2, GotFirst DEF Queues
    <2>4. Queues'
      BY <1>3, <1>5, <1>6, <2>1, <2>3 DEF Queues
    <2>5. \A r \in Ranks, g \in Frames : g # f /\ At(r, g)' => At(r, g) /\ id'[g] = id[g]
      BY <1>3, <1>4, <1>5, <1>6, <1>7, <1>9, AtKept
    <2>6. \A r \in Ranks : At(r, f)' => r = 3
      BY <1>4, <1>5, <1>6, <1>7, <2>1 DEF At
    <2>7. At(4, f) /\ 3 \in Ranks /\ 4 \in Ranks
      BY <1>6, <2>2 DEF At, Ranks
    <2>8. \A s \in Ranks, g \in Frames : g # f /\ At(s, g)' =>
              /\ s < 3 => id[g] <= id[f]
              /\ 3 < s => id[f] <= id[g]
      <3>1. ASSUME NEW s \in Ranks, NEW g \in Frames, g # f, At(s, g)'
            PROVE  (s < 3 => id[g] <= id[f]) /\ (3 < s => id[f] <= id[g])
        <4>1. At(s, g)
          BY <2>5, <3>1
        <4>2. CASE s < 3
          <5>1. s < 4
            BY <4>2 DEF Ranks
          <5> QED
            BY <2>1, <2>7, <4>1, <4>2, <5>1 DEF InRank, Ranks
        <4>3. CASE s = 4
          <5>1. Pooled("WAIT", g)'
            BY <3>1, <4>3 DEF At
          <5> QED
            BY <2>3, <4>3, <5>1
        <4>4. CASE s = 5
          BY <2>1, <2>7, <4>1, <4>4 DEF InRank, Ranks
        <4> QED
          BY <4>2, <4>3, <4>4 DEF Ranks
      <3> QED
        BY <3>1
    <2>9. framecount <= framecount' /\ id[f] <= framecount
          /\ \A k \in DOMAIN encoded : encoded[k] <= id[f]
      BY <1>0, <1>3, <2>1, <2>7 DEF Numbers, Counted, Behind
    <2>10. InRank' /\ Behind' /\ Counted'
      BY <1>0, <1>3, <1>8, <2>1, <2>5, <2>6, <2>7, <2>8, <2>9, OrderMoved
    <2> QED
      BY <2>4, <2>10
  <1> QED
    BY <1>8, <1>9, <1>10 DEF OrderInv

LEMMA Encoded ==
    ASSUME NEW e \in Seq(Int), NEW x \in Int,
           \A k, l \in DOMAIN e : k <= l => e[k] <= e[l],
           \A k \in DOMAIN e : e[k] <= x
    PROVE  /\ Append(e, x) \in Seq(Int)
           /\ \A k \in DOMAIN Append(e, x) :
                  Append(e, x)[k] = x \/ (k \in DOMAIN e /\ Append(e, x)[k] = e[k])
           /\ \A k, l \in DOMAIN Append(e, x) : k <= l => Append(e, x)[k] <= Append(e, x)[l]
  <1> DEFINE q == Append(e, x)
             n == Len(e)
  <1>1. /\ q \in Seq(Int) /\ n \in Nat /\ DOMAIN e = 1 .. n /\ DOMAIN q = 1 .. n + 1
        /\ q[n + 1] = x
    OBVIOUS
  <1>2. \A k \in 1 .. n : q[k] = e[k]
    OBVIOUS
  <1>3. \A k \in 1 .. n + 1 : k \in 1 .. n \/ k = n + 1
    BY <1>1
  <1>4. ASSUME NEW k \in DOMAIN q, NEW l \in DOMAIN q, k <= l PROVE q[k] <= q[l]
    <2>1. CASE l = n + 1
      BY <1>1, <1>2, <1>3, <2>1
    <2>2. CASE l # n + 1
      <3>1. l \in 1 .. n /\ k \in 1 .. n
        BY <1>1, <1>3, <1>4, <2>2
      <3> QED
        BY <1>1, <1>2, <1>4, <3>1
    <2> QED
      BY <2>1, <2>2
  <1> QED
    BY <1>1, <1>2, <1>3, <1>4

(* The encoder claims, and may encode, the next frame of the READY pool. *)
LEMMA RetrieveInOrder ==
    ASSUME IInv, OrderInv, vframe_retrieve
    PROVE  OrderInv'
  <1>0. InRing /\ Hands /\ Numbers /\ InTeam /\ Reinjectable /\ StatusIsPool
    BY DEF IInv, OrderInv
  <1>1. PICK f \in Frames : Got(Encoder, f) /\ Holds(Encoder, f)
            /\ encoded' \in {encoded, Append(encoded, id[f])}
            /\ \E l \in {"dispose_last", "dispose", "requeue"} : Goto(Encoder, l)
    BY DEF vframe_retrieve
  <1>2. PICK l \in {"dispose_last", "dispose", "requeue"} : pc' = [pc EXCEPT ![Encoder] = l]
    BY <1>1 DEF Goto
  <1>3. /\ pc[Encoder] = "retrieve"
        /\ setup' = setup /\ doubled' = doubled /\ framecount' = framecount
        /\ id' = id /\ status' = status
    BY DEF vframe_retrieve, control
  <1>4. /\ Importer \in Threads /\ Encoder \in Threads /\ Workers \subseteq Threads
        /\ Encoder # Importer /\ Encoder \notin Workers
    BY WorkersAssumption DEF Threads, Encoder, Importer
  <1>5. ClaimsFrom(Encoder) = "READY" /\ "WAIT" \in Stages /\ "READY" \in Stages
    BY <1>4 DEF ClaimsFrom, Stages
  <1>6. /\ Pooled("READY", f) /\ f # NULL
        /\ \A T \in Stages, g \in Frames : Pooled(T, g)' => Pooled(T, g)
        /\ \A T \in Stages : T # "READY" => pool'[T] = pool[T]
        /\ doubled = {} => /\ \A T \in Stages : ~Pooled(T, f)'
                           /\ \A u \in Threads : hold[u] # f
    BY <1>1, <1>3, <1>5, GotPlaces
  <1>7. hold'[Encoder] = f /\ \A u \in Threads : u # Encoder => hold'[u] = hold[u]
    BY <1>0, <1>1, <1>4 DEF InRing, Holds
  <1>8. id[f] \in Int /\ Append(encoded, id[f]) \in Seq(Int)
    BY <1>0 DEF Numbers
  <1>9. Numbers'
    BY <1>0, <1>1, <1>3, <1>8 DEF Numbers
  <1>10. InTeam' /\ (Passing' => Passing)
    BY <1>0, <1>2, <1>3, <1>4, TeamKept, PassingKept
  <1>11. Reinjectable'
    <2>1. doubled = {} => status[f] = "READY"
      BY <1>0, <1>5, <1>6 DEF StatusIsPool, Pooled, Range
    <2> QED
      BY <1>3, <1>7, <2>1 DEF Reinjectable
  <1>12. ASSUME OneWay' PROVE Queues' /\ InRank' /\ Behind' /\ Counted'
    <2>1. doubled = {} /\ Queues /\ InRank /\ Behind /\ Counted
      BY <1>3, <1>12 DEF OrderInv, OneWay, Team
    <2>2. /\ SortedBy(id, pool'["READY"])
          /\ \A g \in Frames : Pooled("READY", g)' => id[f] <= id[g]
      BY <1>0, <1>1, <1>5, <2>1, GotFirst DEF Queues
    <2>3. Queues'
      BY <1>3, <1>5, <1>6, <1>10, <2>1, <2>2 DEF Queues
    <2>4. \A r \in Ranks, g \in Frames : g # f /\ At(r, g)' => At(r, g) /\ id'[g] = id[g]
      BY <1>3, <1>4, <1>5, <1>6, <1>7, <1>10, AtKept
    <2>5. \A r \in Ranks : At(r, f)' => r = 1
      BY <1>4, <1>5, <1>6, <1>7, <2>1 DEF At
    <2>6. At(2, f) /\ 1 \in Ranks /\ 2 \in Ranks
      BY <1>6 DEF At, Ranks
    <2>7. \A s \in Ranks, g \in Frames : g # f /\ At(s, g)' =>
              /\ s < 1 => id[g] <= id[f]
              /\ 1 < s => id[f] <= id[g]
      <3>1. ASSUME NEW s \in Ranks, NEW g \in Frames, g # f, At(s, g)', 1 < s
            PROVE  id[f] <= id[g]
        <4>1. At(s, g)
          BY <2>4, <3>1
        <4>2. CASE s = 2
          <5>1. Pooled("READY", g)'
            BY <3>1, <4>2 DEF At
          <5> QED
            BY <2>2, <5>1
        <4>3. CASE s # 2
          <5>1. 2 < s
            BY <3>1, <4>3 DEF Ranks
          <5> QED
            BY <2>1, <2>6, <4>1, <5>1 DEF InRank
        <4> QED
          BY <4>2, <4>3
      <3> QED
        BY <3>1 DEF Ranks
    <2>8. framecount <= framecount' /\ id[f] <= framecount
          /\ \A k \in DOMAIN encoded : encoded[k] <= id[f]
      BY <1>0, <1>3, <2>1, <2>6 DEF Numbers, Counted, Behind
    <2>9. /\ InRank'
          /\ \A r \in Ranks, g \in Frames : At(r, g)' =>
                 /\ id'[g] <= framecount'
                 /\ \A k \in DOMAIN encoded : encoded[k] <= id'[g]
          /\ encoded' = encoded => Behind' /\ Counted'
      BY <1>0, <1>3, <1>9, <2>1, <2>4, <2>5, <2>6, <2>7, <2>8, OrderMoved
    <2>10. CASE encoded' = encoded
      BY <2>3, <2>9, <2>10
    <2>11. CASE encoded' = Append(encoded, id[f])
      <3>1. /\ \A k \in DOMAIN encoded' :
                  encoded'[k] = id[f] \/ (k \in DOMAIN encoded /\ encoded'[k] = encoded[k])
            /\ \A k, m \in DOMAIN encoded' : k <= m => encoded'[k] <= encoded'[m]
        BY <1>0, <1>8, <2>1, <2>8, <2>11, Encoded DEF Numbers, Behind
      <3>2. \A r \in Ranks, g \in Frames : At(r, g)' => id[f] <= id'[g]
        <4>1. ASSUME NEW r \in Ranks, NEW g \in Frames, At(r, g)' PROVE id[f] <= id[g]
          <5>1. CASE g = f
            BY <1>8, <5>1
          <5>2. CASE g # f
            <6>1. r # 1
              BY <1>7, <4>1, <5>2 DEF At
            <6> QED
              BY <2>7, <4>1, <5>2, <6>1 DEF Ranks
          <5> QED
            BY <5>1, <5>2
        <4> QED
          BY <1>3, <4>1
      <3>3. Behind'
        BY <2>9, <3>1, <3>2 DEF Behind
      <3>4. Counted'
        <4>1. \A k \in DOMAIN encoded : encoded[k] <= framecount
          BY <2>1 DEF Counted
        <4>2. \A k \in DOMAIN encoded' : encoded'[k] <= framecount'
          BY <1>3, <2>8, <3>1, <4>1
        <4> QED
          BY <2>9, <4>2 DEF Counted
      <3> QED
        BY <2>3, <2>9, <3>3, <3>4
    <2> QED
      BY <1>1, <2>10, <2>11
  <1> QED
    BY <1>9, <1>10, <1>11, <1>12 DEF OrderInv

(* A frame is put back: the importer's behind all others, the encoder's    *)
(* before them, and a worker's between those that wait and those that are  *)
(* ready.                                                                  *)
LEMMA PutsBackInOrder ==
    ASSUME IInv, OrderInv, setup' = setup, dup' = dup, doubled' = doubled, id' = id,
           encoded' = encoded, framecount' \in Int, framecount <= framecount',
           NEW t \in Threads, NEW l, pc' = [pc EXCEPT ![t] = l],
           pc[t] \in HoldsAt, l \notin HoldsAt, pc[t] \notin DupAt, l # "none",
           NEW S \in Stages, Put(S, hold[t]), Releases(t),
           t \in Workers \union {Importer, Encoder},
           doubled = {} => /\ S \in {"NULL", "READY", "WAIT"}
                           /\ S = "WAIT" => t = Importer /\ Team # {}
                           /\ S = "READY" /\ t = Importer => Team = {}
    PROVE  OrderInv'
  <1>0. InRing /\ Hands /\ Unshared /\ Numbers /\ InTeam /\ Reinjectable
    BY DEF IInv, OrderInv
  <1>1. PICK f \in setup.ring : f = hold[t]
    BY <1>0 DEF InRing, Hands
  <1>2. Put(S, f) /\ f \in Frames /\ f # NULL
    BY <1>0, <1>1, RingFacts DEF InRing
  <1>3. /\ Importer \in Threads /\ Encoder \in Threads /\ Workers \subseteq Threads
        /\ Encoder # Importer /\ Encoder \notin Workers /\ Importer \notin Workers
        /\ "READY" \in Stages /\ "WAIT" \in Stages
    BY WorkersAssumption DEF Threads, Encoder, Importer, Stages
  <1>4. hold'[t] = NULL /\ \A u \in Threads : u # t => hold'[u] = hold[u]
    BY <1>0 DEF InRing, Releases
  <1>5. /\ \A T \in Stages, g \in Frames : g # f => (Pooled(T, g)' => Pooled(T, g))
        /\ \A T \in Stages : T # S => (Pooled(T, f)' => Pooled(T, f))
        /\ \A g \in Frames : g # f => status'[g] = status[g]
    BY <1>0, <1>2, PutPlaces
  <1>6. \A T \in Stages : T # S => pool'[T] = pool[T]
    BY <1>0, <1>2, PutEffect
  <1>7. doubled = {} => /\ \A T \in Stages : ~Pooled(T, f)
                        /\ \A u \in Threads : hold[u] = f => u = t
    BY <1>0, <1>1, <1>2 DEF Unshared, Single
  <1>8. InTeam' /\ (Passing' => Passing)
    <2>1. pc[t] # "none" /\ pc[t] \notin {"dup_mark", "dup_push"}
      BY DEF HoldsAt, DupAt
    <2> QED
      BY <1>0, <2>1, TeamKept, PassingKept
  <1>9. Numbers'
    BY <1>0 DEF Numbers
  <1>10. Reinjectable'
    <2>1. CASE t = Encoder
      BY <1>4, <2>1 DEF Reinjectable
    <2>2. CASE t # Encoder
      <3>1. hold'[Encoder] = hold[Encoder]
        BY <1>3, <1>4, <2>2
      <3>2. doubled' = {} /\ hold'[Encoder] # NULL =>
                status'[hold'[Encoder]] = status[hold'[Encoder]]
        <4>1. hold[Encoder] \in setup.ring \union {NULL} /\ setup.ring \subseteq Frames
          BY <1>0, <1>3, RingFacts DEF InRing
        <4> QED
          BY <1>3, <1>5, <1>7, <2>2, <3>1, <4>1
      <3> QED
        BY <1>0, <3>1, <3>2, ReinjectableKept
    <2> QED
      BY <2>1, <2>2
  <1>11. ASSUME OneWay' PROVE Queues' /\ InRank' /\ Behind' /\ Counted'
    <2>1. /\ doubled = {} /\ Cardinality(Team) <= 1 /\ Queues /\ InRank /\ Behind /\ Counted
          /\ S \in {"NULL", "READY", "WAIT"}
          /\ S = "WAIT" => t = Importer /\ Team # {}
          /\ S = "READY" /\ t = Importer => Team = {}
      BY <1>11 DEF OrderInv, OneWay, Team
    <2> DEFINE b == IF S = "WAIT" THEN 4 ELSE 2
    <2>2. /\ t = Encoder => At(1, f)
          /\ t \in Workers => At(3, f)
          /\ t = Importer => At(5, f)
      BY <1>1 DEF At
    <2>3. /\ b \in Ranks /\ 1 \in Ranks /\ 2 \in Ranks /\ 3 \in Ranks /\ 4 \in Ranks /\ 5 \in Ranks
          /\ id \in [Frames -> Int] /\ id[f] \in Int
      BY <1>0, <1>2 DEF Ranks, Numbers
    <2>4. \A r \in Ranks, g \in Frames : g # f /\ At(r, g)' => At(r, g) /\ id'[g] = id[g]
      <3>1. ASSUME NEW g \in Frames, g # f PROVE \A r \in Ranks : At(r, g)' => At(r, g)
        <4>1. \A u \in Threads : hold'[u] = g => hold[u] = g
          BY <1>4, <3>1, FramesAssumption
        <4> QED
          BY <1>3, <1>5, <1>8, <3>1, <4>1, AtKept
      <3> QED
        BY <3>1
    <2>5. \A r \in Ranks : At(r, f)' => r = b /\ S # "NULL"
      <3>1. \A u \in Threads : hold'[u] # f
        BY <1>2, <1>4, <1>7, <2>1
      <3>2. Pooled("READY", f)' => S = "READY"
        BY <1>3, <1>5, <1>7, <2>1
      <3>3. Pooled("WAIT", f)' => S = "WAIT"
        BY <1>3, <1>5, <1>7, <2>1
      <3> QED
        BY <1>3, <3>1, <3>2, <3>3 DEF At
    <2>6. \A g \in Frames : ~At(5, g)' \/ t # Importer
      BY <1>4, FramesAssumption DEF At
    <2>7. \A g \in Frames : ~At(1, g)' \/ t # Encoder
      BY <1>4, FramesAssumption DEF At
    <2>8. \A g \in Frames : ~At(3, g)' \/ t = Encoder \/ S # "READY"
      <3>1. ASSUME NEW g \in Frames, NEW v \in Workers, hold'[v] = g, t # Encoder, S = "READY"
            PROVE  FALSE
        <4>1. v # t /\ hold[v] = g /\ g # NULL
          BY <1>3, <1>4, <3>1, FramesAssumption
        <4>2. pc[v] # "none"
          BY <1>0, <1>3, <4>1 DEF Hands, HoldsAt
        <4>3. CASE t = Importer
          BY <1>0, <2>1, <3>1, <4>2, <4>3 DEF InTeam
        <4>4. CASE t \in Workers
          <5>1. pc[t] # "none"
            BY DEF HoldsAt
          <5> QED
            BY <1>0, <2>1, <4>1, <4>2, <4>4, <5>1, OneWorker DEF InRing
        <4> QED
          BY <3>1, <4>3, <4>4
      <3>2. \A g \in Frames : At(3, g)' => \E v \in Workers : hold'[v] = g
        BY DEF At
      <3> QED
        BY <3>1, <3>2
    <2>9. \A g \in Frames : ~At(4, g)' \/ S # "READY" \/ t # Importer
      BY <2>1 DEF At, Passing, Team
    <2>10. ASSUME S # "NULL", NEW s \in Ranks, NEW g \in Frames, g # f, At(s, g)'
           PROVE  (s < b => id[g] <= id[f]) /\ (b < s => id[f] <= id[g])
      <3>1. At(s, g) /\ s \in {1, 2, 3, 4, 5}
        BY <2>4, <2>10 DEF Ranks
      <3>2. CASE t = Encoder
        <4>1. b = 2 /\ s # 1 /\ 1 < s
          BY <1>3, <2>1, <2>7, <2>10, <3>1, <3>2
        <4> QED
          BY <1>2, <2>1, <2>2, <2>3, <3>1, <3>2, <4>1 DEF InRank
      <3>3. CASE t \in Workers
        <4>1. b = 2 /\ S = "READY" /\ s # 3
          BY <1>3, <2>1, <2>8, <2>10, <3>3
        <4>2. s < 2 => s < 3
          BY <3>1
        <4>3. 2 < s => 3 < s
          BY <3>1, <4>1
        <4> QED
          BY <1>2, <2>1, <2>2, <2>3, <3>1, <3>3, <4>1, <4>2, <4>3 DEF InRank
      <3>4. CASE t = Importer
        <4>1. s # 5 /\ s < 5
          BY <2>6, <2>10, <3>1, <3>4
        <4>2. id[g] <= id[f]
          BY <1>2, <2>1, <2>2, <2>3, <3>1, <3>4, <4>1 DEF InRank
        <4>3. ~(b < s)
          <5>1. CASE S = "READY"
            <6>1. s # 3 /\ s # 4
              BY <1>3, <2>8, <2>9, <2>10, <3>4, <5>1
            <6> QED
              BY <3>1, <4>1, <5>1, <6>1
          <5>2. CASE S = "WAIT"
            BY <3>1, <4>1, <5>2
          <5> QED
            BY <2>1, <2>10, <5>1, <5>2
        <4> QED
          BY <4>2, <4>3
      <3> QED
        BY <3>2, <3>3, <3>4
    <2>11. id[f] <= framecount' /\ \A k \in DOMAIN encoded : encoded[k] <= id[f]
      <3>1. \E r \in Ranks : At(r, f)
        BY <2>2, <2>3
      <3>2. id[f] <= framecount /\ \A k \in DOMAIN encoded : encoded[k] <= id[f]
        BY <1>2, <2>1, <3>1 DEF Counted, Behind
      <3> QED
        BY <1>0, <2>3, <3>2 DEF Numbers
    <2>12. InRank' /\ Behind' /\ Counted'
      <3> HIDE DEF b
      <3> QED
        BY <1>0, <1>9, <2>1, <2>3, <2>4, <2>5, <2>10, <2>11, OrderMoved
    <2>13. SortedBy(id, pool'["READY"])
      <3>1. CASE S # "READY"
        BY <1>3, <1>6, <2>1, <3>1 DEF Queues
      <3>2. CASE S = "READY"
        <4>1. \A g \in Range(pool["READY"]) : g \in Frames /\ At(2, g)
          BY <1>0, <1>3, RingFacts DEF At, Pooled, InRing, Range
        <4>2. CASE t = Encoder
          <5>1. \A g \in Range(pool["READY"]) : id[f] <= id[g]
            BY <1>2, <2>1, <2>2, <2>3, <4>1, <4>2 DEF InRank
          <5> QED
            BY <1>0, <1>2, <2>1, <3>2, <5>1, PutSorted DEF Queues
        <4>3. CASE t # Encoder
          <5>1. \A g \in Range(pool["READY"]) : id[g] <= id[f]
            BY <1>2, <2>1, <2>2, <2>3, <4>1, <4>3 DEF InRank
          <5> QED
            BY <1>0, <1>2, <2>1, <3>2, <5>1, PutSorted DEF Queues
        <4> QED
          BY <4>2, <4>3
      <3> QED
        BY <3>1, <3>2
    <2>14. Passing' => SortedBy(id, pool'["WAIT"])
      <3> SUFFICES ASSUME Passing PROVE SortedBy(id, pool'["WAIT"])
        BY <1>8
      <3>1. CASE S # "WAIT"
        BY <1>3, <1>6, <2>1, <3>1 DEF Queues
      <3>2. CASE S = "WAIT"
        <4>1. \A g \in Range(pool["WAIT"]) : g \in Frames /\ At(4, g)
          BY <1>0, <1>3, RingFacts DEF At, Pooled, InRing, Range
        <4>2. \A g \in Range(pool["WAIT"]) : id[g] <= id[f]
          BY <1>2, <2>1, <2>2, <2>3, <3>2, <4>1 DEF InRank
        <4> QED
          BY <1>0, <1>2, <2>1, <3>2, <4>2, PutSorted DEF Queues
      <3> QED
        BY <3>1, <3>2
    <2>15. Queues'
      BY <2>13, <2>14 DEF Queues
    <2> QED
      BY <2>12, <2>15
  <1> QED
    BY <1>8, <1>9, <1>10, <1>11 DEF OrderInv

(* A duplicate is not on its way until it is pushed, ... *)
LEMMA DuplicateInOrder ==
    ASSUME IInv, OrderInv, NEW w \in Workers, vframe_dup(w)
    PROVE  OrderInv'
  <1>0. InRing /\ Hands /\ Numbers /\ InTeam /\ Reinjectable
    BY DEF IInv, OrderInv
  <1>1. PICK f \in Frames : /\ Got(w, f)
                            /\ id' = [id EXCEPT ![f] = id[hold[w]]]
                            /\ status' = [status EXCEPT ![f] = "WAIT"]
    BY DEF vframe_dup
  <1>2. /\ pc[w] = "dup" /\ pc' = [pc EXCEPT ![w] = "dup_put"] /\ hold' = hold
        /\ setup' = setup /\ doubled' = doubled /\ framecount' = framecount /\ encoded' = encoded
    BY DEF vframe_dup, Goto, control, history
  <1>3. /\ w \in Threads /\ Encoder \in Threads /\ w \notin {Importer, Encoder}
    BY WorkersAssumption DEF Threads
  <1>4. ClaimsFrom(w) = "NULL" /\ "NULL" \in Stages /\ "READY" \in Stages /\ "WAIT" \in Stages
    BY <1>2, <1>3 DEF ClaimsFrom, Stages
  <1>5. /\ \A T \in Stages, g \in Frames : Pooled(T, g)' => Pooled(T, g)
        /\ \A T \in Stages : T # "NULL" => pool'[T] = pool[T]
        /\ doubled = {} => /\ \A T \in Stages : ~Pooled(T, f)'
                           /\ \A u \in Threads : hold[u] # f
    BY <1>1, <1>2, <1>4, GotPlaces
  <1>6. /\ \A g \in Frames : g # f => id'[g] = id[g]
        /\ \A g \in Frames : g # f => status'[g] = status[g]
    BY <1>0, <1>1 DEF InRing, Numbers
  <1>7. Numbers'
    <2>1. hold[w] \in Frames
      BY <1>0, <1>2, <1>3, RingFacts DEF Hands, HoldsAt, InRing
    <2> QED
      BY <1>0, <1>1, <1>2, <2>1 DEF Numbers
  <1>8. InTeam' /\ (Passing' => Passing)
    BY <1>0, <1>2, <1>3, TeamKept, PassingKept
  <1>9. Reinjectable'
    <2>1. hold'[Encoder] = hold[Encoder] /\ doubled \subseteq doubled'
      BY <1>2
    <2>2. doubled' = {} /\ hold'[Encoder] # NULL => status'[hold'[Encoder]] = status[hold'[Encoder]]
      <3>1. hold[Encoder] \in setup.ring \union {NULL} /\ setup.ring \subseteq Frames
        BY <1>0, <1>3, RingFacts DEF InRing
      <3> QED
        BY <1>2, <1>3, <1>5, <1>6, <3>1
    <2> QED
      BY <1>0, <2>1, <2>2, ReinjectableKept
  <1>10. ASSUME OneWay' PROVE Queues' /\ InRank' /\ Behind' /\ Counted'
    <2>1. doubled = {} /\ Queues /\ InRank /\ Behind /\ Counted
      BY <1>2, <1>10 DEF OrderInv, OneWay, Team
    <2>2. Queues'
      <3>1. \A T \in {"READY", "WAIT"} : pool'[T] = pool[T] /\ \A g \in Range(pool[T]) : id'[g] = id[g]
        <4>1. \A T \in {"READY", "WAIT"} : pool'[T] = pool[T] /\ f \notin Range(pool[T])
          BY <1>4, <1>5, <2>1 DEF Pooled
        <4>2. \A T \in {"READY", "WAIT"} : Range(pool[T]) \subseteq Frames
          BY <1>0, <1>4, RingFacts DEF InRing, Range
        <4> QED
          BY <1>6, <4>1, <4>2
      <3> QED
        BY <1>8, <2>1, <3>1, SortedKept DEF Queues
    <2>3. \A r \in Ranks, g \in Frames : g # f /\ At(r, g)' => At(r, g) /\ id'[g] = id[g]
      BY <1>2, <1>4, <1>5, <1>6, <1>8, AtKept
    <2>4. \A r \in Ranks : ~At(r, f)'
      BY <1>2, <1>4, <1>5, <2>1 DEF At, Threads
    <2>5. framecount <= framecount' /\ 1 \in Ranks
      BY <1>0, <1>2 DEF Numbers, Ranks
    <2>6. InRank' /\ Behind' /\ Counted'
      BY <1>0, <1>2, <1>7, <2>1, <2>3, <2>4, <2>5, OrderMoved
    <2> QED
      BY <2>2, <2>6
  <1> QED
    BY <1>7, <1>8, <1>9, <1>10 DEF OrderInv

(* ... and when it is, its worker will not claim before it pushes it again. *)
LEMMA DuplicatePutInOrder ==
    ASSUME IInv, OrderInv, NEW w \in Workers, vframe_dup_put(w)
    PROVE  OrderInv'
  <1>0. InRing /\ Hands /\ Unshared /\ Numbers /\ InTeam /\ Reinjectable
    BY DEF IInv, OrderInv
  <1>1. /\ pc[w] = "dup_put" /\ pc' = [pc EXCEPT ![w] = "dup_mark"]
        /\ Put("WAIT", dup[w]) /\ "WAIT" \in Stages /\ "READY" \in Stages
        /\ setup' = setup /\ hold' = hold /\ id' = id /\ doubled' = doubled
        /\ framecount' = framecount /\ encoded' = encoded
    BY DEF vframe_dup_put, Goto, control, history, Stages
  <1>2. w \in Threads /\ Encoder \in Threads
    BY DEF Threads
  <1>3. PICK f \in setup.ring : f = dup[w]
    BY <1>0, <1>1 DEF Hands, InRing, DupAt
  <1>4. Put("WAIT", f) /\ Fresh(w, f) /\ f \in Frames
    BY <1>0, <1>1, <1>3, RingFacts DEF Fresh, InRing
  <1>5. /\ \A T \in Stages : T # "WAIT" => pool'[T] = pool[T]
        /\ \A g \in Frames : g # f => status'[g] = status[g]
    <2>1. \A T \in Stages : T # "WAIT" => pool'[T] = pool[T]
      BY <1>0, <1>1, <1>4, PutEffect
    <2>2. \A g \in Frames : g # f => status'[g] = status[g]
      BY <1>0, <1>1, <1>4, PutPlaces
    <2> QED
      BY <2>1, <2>2
  <1>6. doubled = {} => \A u \in Threads : hold[u] # f
    BY <1>0, <1>4 DEF Unshared, Single
  <1>7. InTeam' /\ ~Passing'
    <2>1. InTeam' /\ pc'[w] = "dup_mark"
      BY <1>0, <1>1, <1>2, TeamKept
    <2> QED
      BY <2>1 DEF Passing
  <1>8. Numbers'
    BY <1>0, <1>1 DEF Numbers
  <1>9. Reinjectable'
    <2>1. hold'[Encoder] = hold[Encoder] /\ doubled \subseteq doubled'
      BY <1>1
    <2>2. doubled' = {} /\ hold'[Encoder] # NULL => status'[hold'[Encoder]] = status[hold'[Encoder]]
      <3>1. hold[Encoder] \in setup.ring \union {NULL} /\ setup.ring \subseteq Frames
        BY <1>0, <1>2, RingFacts DEF InRing
      <3> QED
        BY <1>1, <1>2, <1>5, <1>6, <3>1
    <2> QED
      BY <1>0, <2>1, <2>2, ReinjectableKept
  <1>10. ASSUME OneWay' PROVE Queues' /\ InRank' /\ Behind' /\ Counted'
    <2>1. doubled = {} /\ Queues /\ InRank /\ Behind /\ Counted
      BY <1>1, <1>10 DEF OrderInv, OneWay, Team
    <2>2. Queues'
      BY <1>1, <1>5, <1>7, <2>1 DEF Queues
    <2>3. \A r \in Ranks, g \in Frames : At(r, g)' => At(r, g) /\ id'[g] = id[g]
      <3>1. \A g \in Frames : Pooled("READY", g)' => Pooled("READY", g)
        BY <1>1, <1>5 DEF Pooled
      <3> QED
        BY <1>1, <1>7, <3>1 DEF At
    <2>4. framecount <= framecount' /\ 1 \in Ranks /\ NULL \notin Frames
      BY <1>0, <1>1 DEF Numbers, Ranks
    <2>5. InRank' /\ Behind' /\ Counted'
      BY <1>0, <1>1, <1>8, <2>1, <2>3, <2>4, OrderMoved
    <2> QED
      BY <2>2, <2>5
  <1> QED
    BY <1>7, <1>8, <1>9, <1>10 DEF OrderInv

LEMMA DuplicatePushedInOrder ==
    ASSUME IInv, OrderInv, NEW w \in Workers, dup_push(w)
    PROVE  OrderInv'
  <1>1. /\ pc[w] = "dup_push" /\ pc' = [pc EXCEPT ![w] = "post"] /\ w \in Threads
        /\ setup' = setup /\ id' = id /\ framecount' = framecount /\ encoded' = encoded
        /\ doubled' # {}
    BY DEF dup_push, Goto, control, Threads
  <1>2. Hands /\ Numbers /\ InTeam
    BY DEF IInv, OrderInv
  <1>3. InTeam' /\ Numbers'
    BY <1>1, <1>2, TeamKept DEF Numbers
  <1> QED
    BY <1>1, <1>3 DEF OrderInv, Reinjectable, OneWay

LEMMA StuttersInOrder ==
    ASSUME IInv, OrderInv,
           UNCHANGED <<setup, pool, pc, hold, id, status, framecount, encoded, doubled>>
    PROVE  OrderInv'
  <1>1. InTeam' /\ Numbers' /\ Reinjectable'
    BY DEF OrderInv, InTeam, Team, Numbers, Reinjectable
  <1>2. ASSUME OneWay' PROVE Queues' /\ InRank' /\ Behind' /\ Counted'
    <2>1. Queues /\ InRank /\ Behind /\ Counted
      BY <1>2 DEF OrderInv, OneWay, Team
    <2>2. Passing' <=> Passing
      BY DEF Passing, Team
    <2>3. Queues'
      BY <2>1, <2>2 DEF Queues, SortedBy
    <2>4. \A r \in Ranks, g \in Frames : At(r, g)' => At(r, g)
      BY <2>2 DEF At, Pooled
    <2>5. InRank'
      BY <2>1, <2>4 DEF InRank
    <2>6. Behind'
      BY <2>1, <2>4 DEF Behind
    <2>7. Counted'
      BY <2>1, <2>4 DEF Counted
    <2> QED
      BY <2>3, <2>5, <2>6, <2>7
  <1> QED
    BY <1>1, <1>2 DEF OrderInv

LEMMA InitOrder == Init => OrderInv
  <1> SUFFICES ASSUME Init PROVE OrderInv
    OBVIOUS
  <1>1. /\ pool["READY"] = <<>> /\ pool["WAIT"] = <<>> /\ encoded = <<>> /\ framecount = 0
        /\ \A t \in Threads : hold[t] = NULL
        /\ \A w \in Workers : pc[w] = IF w \in Workers \ Team THEN "none" ELSE "loop"
        /\ id = [f \in Frames |-> 0]
    BY DEF Init, Stages, Threads, Team
  <1>2. Team \subseteq Workers
    BY DEF Init, Setup, Team
  <1>3. Numbers
    BY <1>1 DEF Numbers
  <1>4. InTeam /\ Reinjectable
    BY <1>1, <1>2 DEF InTeam, Reinjectable, Threads
  <1>5. Queues
    BY <1>1 DEF Queues, SortedBy
  <1>6. \A r \in Ranks, f \in Frames : ~At(r, f)
    <2>1. \A f : f \notin Range(<<>>)
      BY DEF Range
    <2> QED
      BY <1>1, <2>1, FramesAssumption DEF At, Pooled, Threads
  <1>7. InRank /\ Behind /\ Counted
    BY <1>1, <1>6 DEF InRank, Behind, Counted
  <1> QED
    BY <1>3, <1>4, <1>5, <1>7 DEF OrderInv

LEMMA ImportInOrder == ASSUME IInv, OrderInv, Import PROVE OrderInv'
  <1>0. /\ Importer \in Threads /\ {"NULL", "EMPTY", "WAIT", "READY"} = Stages
        /\ Importer \notin Workers /\ framecount \in Int
    BY WorkersAssumption DEF Threads, Stages, OrderInv, Numbers
  <1>1. CASE import_loop
    <2>1. /\ pc[Importer] = "loop"
          /\ UNCHANGED <<setup, pool, hold, id, status, framecount, encoded, doubled>>
      BY <1>1 DEF import_loop, ring, control, history
    <2>2. PICK l \in {"register", "done"} : pc' = [pc EXCEPT ![Importer] = l]
      BY <1>1 DEF import_loop, Goto
    <2> QED
      BY <1>0, <2>1, <2>2, GoesOnInOrder
  <1>2. CASE vframe_register
    BY <1>2, RegisterInOrder
  <1>3. CASE get_frame_wait(Importer)
    BY <1>3, StuttersInOrder DEF get_frame_wait, ring, control, history
  <1>4. CASE vframe_register_interrupted
    <2>1. /\ pc[Importer] = "register" /\ pc' = [pc EXCEPT ![Importer] = "done"]
          /\ UNCHANGED <<setup, pool, hold, id, status, framecount, encoded, doubled>>
      BY <1>4 DEF vframe_register_interrupted, Interrupted, Goto, control, history
    <2> QED
      BY <1>0, <2>1, GoesOnInOrder
  <1>5. CASE import_frame \/ import_end_of_stream
    <2>1. /\ pc[Importer] = "fill" /\ setup' = setup /\ dup' = dup /\ doubled' = doubled
          /\ id' = id /\ encoded' = encoded
          /\ Put(NextStage, hold[Importer]) /\ Releases(Importer)
      BY <1>5 DEF import_frame, import_end_of_stream, history
    <2>2. framecount' \in Int /\ framecount <= framecount'
      BY <1>0, <1>5 DEF import_frame, import_end_of_stream
    <2>3. PICK l \in {"loop", "done"} : pc' = [pc EXCEPT ![Importer] = l]
      BY <1>5 DEF import_frame, import_end_of_stream, Goto
    <2>4. PICK S \in {"READY", "WAIT"} : S = NextStage
      BY DEF NextStage
    <2>5. /\ S \in Stages /\ S \in {"NULL", "READY", "WAIT"}
          /\ S = "WAIT" => Importer = Importer /\ Team # {}
          /\ S = "READY" /\ Importer = Importer => Team = {}
      BY <1>0, <2>4 DEF NextStage
    <2>6. /\ "fill" \in HoldsAt /\ "fill" \notin DupAt /\ l \notin HoldsAt /\ l # "none"
      BY DEF HoldsAt, DupAt
    <2> QED
      BY <1>0, <2>1, <2>2, <2>3, <2>4, <2>5, <2>6, PutsBackInOrder
  <1> QED
    BY <1>1, <1>2, <1>3, <1>4, <1>5 DEF Import

LEMMA ProcessInOrder == ASSUME IInv, OrderInv, NEW w \in Workers, Process(w) PROVE OrderInv'
  <1>0. /\ w \in Threads /\ w \notin {Importer, Encoder}
        /\ {"NULL", "EMPTY", "WAIT", "READY"} = Stages /\ framecount \in Int
    BY WorkersAssumption DEF Threads, Stages, OrderInv, Numbers
  <1>1. CASE process_loop(w)
    <2>1. /\ pc[w] = "loop"
          /\ UNCHANGED <<setup, pool, hold, id, status, framecount, encoded, doubled>>
      BY <1>1 DEF process_loop, ring, control, history
    <2>2. PICK l \in {"reserve", "done"} : pc' = [pc EXCEPT ![w] = l]
      BY <1>1 DEF process_loop, Goto
    <2> QED
      BY <1>0, <2>1, <2>2, GoesOnInOrder
  <1>2. CASE vframe_reserve(w)
    BY <1>2, ReserveInOrder
  <1>3. CASE get_frame_wait(w)
    BY <1>3, StuttersInOrder DEF get_frame_wait, ring, control, history
  <1>4. CASE vframe_reserve_interrupted(w)
    <2>1. /\ pc[w] = "reserve" /\ pc' = [pc EXCEPT ![w] = "done"]
          /\ UNCHANGED <<setup, pool, hold, id, status, framecount, encoded, doubled>>
      BY <1>4 DEF vframe_reserve_interrupted, Interrupted, Goto, history
    <2> QED
      BY <1>0, <2>1, GoesOnInOrder
  <1>5. CASE drop_frame(w) \/ process_done(w)
    <2>1. /\ pc[w] \in {"drop", "post"} /\ setup' = setup /\ dup' = dup /\ doubled' = doubled
          /\ id' = id /\ encoded' = encoded /\ framecount' = framecount
          /\ Releases(w) /\ pc' = [pc EXCEPT ![w] = "loop"]
      BY <1>5 DEF drop_frame, process_done, control, history, Goto
    <2>2. PICK S \in {"NULL", "READY"} : Put(S, hold[w])
      BY <1>5 DEF drop_frame, process_done
    <2>3. /\ pc[w] \in HoldsAt /\ pc[w] \notin DupAt /\ "loop" \notin HoldsAt
          /\ S \in Stages /\ S \in {"NULL", "READY", "WAIT"} /\ S # "WAIT" /\ w # Importer
      BY <1>0, <2>1 DEF HoldsAt, DupAt
    <2>4. framecount' \in Int /\ framecount <= framecount'
      BY <1>0, <2>1
    <2> QED
      BY <1>0, <2>1, <2>2, <2>3, <2>4, PutsBackInOrder
  <1>6. CASE vframe_dup(w)
    BY <1>6, DuplicateInOrder
  <1>7. CASE vframe_dup_interrupted(w)
    <2>1. /\ pc[w] = "dup" /\ pc' = [pc EXCEPT ![w] = "crashed"]
          /\ UNCHANGED <<setup, pool, hold, id, status, framecount, encoded, doubled>>
      BY <1>7 DEF vframe_dup_interrupted, Interrupted, Goto, control, history
    <2> QED
      BY <1>0, <2>1, GoesOnInOrder
  <1>8. CASE vframe_dup_put(w)
    BY <1>8, DuplicatePutInOrder
  <1>9. CASE dup_mark(w)
    <2>1. /\ pc[w] = "dup_mark" /\ pc' = [pc EXCEPT ![w] = "dup_push"]
          /\ UNCHANGED <<setup, pool, hold, id, status, framecount, encoded, doubled>>
      BY <1>9 DEF dup_mark, Goto, control, history
    <2> QED
      BY <1>0, <2>1, GoesOnInOrder
  <1>10. CASE dup_push(w)
    BY <1>10, DuplicatePushedInOrder
  <1> QED
    BY <1>1, <1>2, <1>3, <1>4, <1>5, <1>6, <1>7, <1>8, <1>9, <1>10 DEF Process

LEMMA InterruptInOrder ==
    ASSUME IInv, OrderInv, NEW t \in Threads, NEW next \in {"cancel", "done"},
           tc_framebuffer_interrupt(t, next)
    PROVE  OrderInv'
  <1>1. UNCHANGED <<setup, pool, hold, id, status, framecount, encoded, doubled>>
    BY DEF tc_framebuffer_interrupt, ring, control, history
  <1>2. /\ pc[t] \in {"wake_NULL", "wake_WAIT", "wake_READY"}
        /\ \E l \in {"wake_WAIT", "wake_READY", "cancel", "done"} : pc' = [pc EXCEPT ![t] = l]
    BY DEF tc_framebuffer_interrupt, Goto
  <1>3. PICK l \in {"wake_WAIT", "wake_READY", "cancel", "done"} : pc' = [pc EXCEPT ![t] = l]
    BY <1>2
  <1> QED
    BY <1>1, <1>2, <1>3, GoesOnInOrder

LEMMA ExportInOrder == ASSUME IInv, OrderInv, Export PROVE OrderInv'
  <1>0. /\ Encoder \in Threads /\ Encoder # Importer /\ InRing /\ Hands /\ Reinjectable
        /\ {"NULL", "EMPTY", "WAIT", "READY"} = Stages /\ framecount \in Int
    BY DEF Threads, Stages, OrderInv, Numbers, IInv, Encoder, Importer
  <1>1. CASE export_loop
    <2>1. /\ pc[Encoder] = "loop"
          /\ UNCHANGED <<setup, pool, hold, id, status, framecount, encoded, doubled>>
      BY <1>1 DEF export_loop, ring, control, history
    <2>2. PICK l \in {"retrieve", "stop"} : pc' = [pc EXCEPT ![Encoder] = l]
      BY <1>1 DEF export_loop, Goto
    <2> QED
      BY <1>0, <2>1, <2>2, GoesOnInOrder
  <1>2. CASE vframe_retrieve
    BY <1>2, RetrieveInOrder
  <1>3. CASE get_frame_wait(Encoder)
    BY <1>3, StuttersInOrder DEF get_frame_wait, ring, control, history
  <1>4. CASE vframe_retrieve_interrupted
    <2>1. /\ pc[Encoder] = "retrieve" /\ pc' = [pc EXCEPT ![Encoder] = "stop"]
          /\ UNCHANGED <<setup, pool, hold, id, status, framecount, encoded, doubled>>
      BY <1>4 DEF vframe_retrieve_interrupted, Interrupted, Goto, control, history
    <2> QED
      BY <1>0, <2>1, GoesOnInOrder
  <1>5. CASE requeue \/ encoder_dispose_vframe
    <2>1. /\ pc[Encoder] \in {"requeue", "dispose", "dispose_last"}
          /\ setup' = setup /\ dup' = dup /\ doubled' = doubled
          /\ id' = id /\ encoded' = encoded /\ framecount' = framecount
          /\ give_back(hold[Encoder]) /\ Releases(Encoder)
      BY <1>5 DEF requeue, encoder_dispose_vframe, control, history
    <2>2. PICK l \in {"retrieve", "loop", "stop"} : pc' = [pc EXCEPT ![Encoder] = l]
      BY <1>5 DEF requeue, encoder_dispose_vframe, Goto
    <2>3. hold[Encoder] \in Frames /\ hold[Encoder] # NULL
      BY <1>0, <2>1, RingFacts DEF Hands, InRing, HoldsAt
    <2>4. PICK S \in Stages : /\ Put(S, hold[Encoder])
                              /\ doubled = {} => S \in {"NULL", "READY"}
      BY <1>0, <2>1, <2>3 DEF give_back, InRing, Reinjectable
    <2>5. /\ pc[Encoder] \in HoldsAt /\ pc[Encoder] \notin DupAt
          /\ l \notin HoldsAt /\ l # "none"
      BY <2>1 DEF HoldsAt, DupAt
    <2>6. framecount' \in Int /\ framecount <= framecount'
      BY <1>0, <2>1
    <2>7. doubled = {} => S \in {"NULL", "READY", "WAIT"} /\ S # "WAIT"
      BY <2>4
    <2> QED
      BY <1>0, <2>1, <2>2, <2>4, <2>5, <2>6, <2>7, PutsBackInOrder
  <1>6. CASE tc_framebuffer_interrupt(Encoder, "cancel")
    BY <1>0, <1>6, InterruptInOrder
  <1>7. CASE tc_stop \/ tc_import_threads_cancel \/ join_import \/ tc_frame_threads_close
             \/ join_workers
    <2>1. /\ pc[Encoder] \in {"stop", "cancel", "join_import", "close", "join_workers"}
          /\ UNCHANGED <<setup, pool, hold, id, status, framecount, encoded, doubled>>
      BY <1>7 DEF tc_stop, tc_import_threads_cancel, join_import, tc_frame_threads_close,
                  join_workers, ring, control, history
    <2>2. PICK l \in {"wake_NULL", "join_import", "close", "join_workers", "ended"} :
               pc' = [pc EXCEPT ![Encoder] = l]
      BY <1>7 DEF tc_stop, tc_import_threads_cancel, join_import, tc_frame_threads_close,
                  join_workers, Goto
    <2> QED
      BY <1>0, <2>1, <2>2, GoesOnInOrder
  <1> QED
    BY <1>1, <1>2, <1>3, <1>4, <1>5, <1>6, <1>7 DEF Export

LEMMA NextInOrder == ASSUME IInv, OrderInv, [Next]_vars PROVE OrderInv'
  <1>1. CASE Import
    BY <1>1, ImportInOrder
  <1>2. CASE \E w \in Workers : Process(w)
    BY <1>2, ProcessInOrder
  <1>3. CASE Export
    BY <1>3, ExportInOrder
  <1>4. CASE tc_interrupt
    <2>1. /\ pc[Event] = "loop" /\ pc' = [pc EXCEPT ![Event] = "wake_NULL"]
          /\ UNCHANGED <<setup, pool, hold, id, status, framecount, encoded, doubled>>
      BY <1>4 DEF tc_interrupt, Goto, ring, history
    <2>2. Event \in Threads
      BY DEF Threads
    <2> QED
      BY <2>1, <2>2, GoesOnInOrder
  <1>5. CASE event_handler
    BY <1>5, InterruptInOrder DEF event_handler, Threads
  <1>6. CASE Ended \/ UNCHANGED vars
    BY <1>6, StuttersInOrder DEF Ended, vars
  <1> QED
    BY <1>1, <1>2, <1>3, <1>4, <1>5, <1>6 DEF Next

(* With at most one frame thread, and until a duplicate is pushed twice,   *)
(* the frames are encoded in the order in which they were decoded, clones  *)
(* with their frame: whatever the filters mark, whatever is reinjected, and *)
(* however the threads of the three stages are scheduled.                  *)
THEOREM EncodedInOrder == Spec => []InOrder
  <1>1. Init => IInv /\ OrderInv
    BY InitInv, InitOrder
  <1>2. (IInv /\ OrderInv) /\ [Next]_vars => (IInv /\ OrderInv)'
    BY NextInv, NextInOrder
  <1>3. OrderInv => InOrder
    <2> SUFFICES ASSUME OrderInv, OneWay, NEW k \in 1 .. Len(encoded) - 1
                 PROVE  encoded[k] <= encoded[k + 1]
      BY DEF InOrder
    <2>1. encoded \in Seq(Int) /\ \A i, j \in DOMAIN encoded : i <= j => encoded[i] <= encoded[j]
      BY DEF OrderInv, Numbers, Behind
    <2>2. k \in DOMAIN encoded /\ k + 1 \in DOMAIN encoded /\ k <= k + 1
      BY <2>1
    <2> QED
      BY <2>1, <2>2
  <1> QED
    BY <1>1, <1>2, <1>3, PTL DEF Spec

-----------------------------------------------------------------------------

(* The inductive invariant of the bookkeeping, with at most one frame      *)
(* thread, until a frame is duplicated or the encoder has stopped early.   *)

NoDuplicate == \A w \in Workers : pc[w] \notin DupAt
Encoding == pc[Encoder] \in {"loop", "retrieve", "requeue", "dispose"} \/ AtTheEnd
Counting == OneWay /\ NoDuplicate /\ Encoding

(* A frame that was imported and is still on its way.                      *)
Underway(f) ==
    \/ hold[Encoder] = f
    \/ Pooled("READY", f)
    \/ \E w \in Workers : hold[w] = f
    \/ Team # {} /\ Pooled("WAIT", f)

(* How often a frame with the marks a is encoded if the filters leave it   *)
(* as it is; what is left of that when the encoder has had it once.        *)
Times(a) == IF "skipped" \in a THEN 0 ELSE IF "is_cloned" \in a THEN 2 ELSE 1
Rest(f) ==
    IF hold[Encoder] = f /\ "skipped" \notin attributes[f]
    THEN Times(attributes[f]) - 1 ELSE Times(attributes[f])

(* The id i was encoded, and will be n times more: no more often than it   *)
(* is wanted, and less often only if it was encoded before.                *)
Account(i, n) ==
    /\ Count(i) + n <= wanted[i]
    /\ Count(i) + n < wanted[i] => Count(i) >= 1

Accounted(i) ==
    /\ i >= framecount => wanted[i] = 1 /\ Count(i) = 0
    /\ \A f, g \in Frames : Underway(f) /\ Underway(g) /\ id[f] = i /\ id[g] = i => f = g
    /\ \A f \in Frames : Underway(f) /\ id[f] = i => i < framecount /\ Account(i, Rest(f))
    /\ i < framecount => Account(i, 0) \/ \E f \in Frames : Underway(f) /\ id[f] = i

(* The frame that marks the end, and no other one, has the last id.        *)
Marked(f) ==
    /\ id[f] = setup.source => "eos" \in attributes[f] \/ hold[Encoder] = f
    /\ "eos" \in attributes[f] => attributes[f] = {"eos"} /\ id[f] = setup.source

Books ==
    /\ \A i \in 0 .. setup.source - 1 : Accounted(i)
    /\ \A f \in Frames : Underway(f) => Marked(f)

(* What the threads know of the frames in their hands.                     *)
Known(t) ==
    /\ t = Importer /\ pc[t] = "fill" =>
          id[hold[t]] = framecount /\ attributes[hold[t]] = {}
    /\ pc[t] \in {"drop", "requeue"} => "skipped" \in attributes[hold[t]]
    /\ pc[t] = "dispose" => "skipped" \notin attributes[hold[t]]
    /\ pc[t] \in {"dup", "requeue", "dispose"} => id[hold[t]] # setup.source

Kinds ==
    /\ id \in [Frames -> Ids] /\ framecount \in Ids
    /\ attributes \in [Frames -> SUBSET Attributes]
    /\ wanted \in [Ids -> Int]

(* The end of the stream is not duplicated.                                *)
EndNotDoubled ==
    OneWay /\ Encoding =>
        \A w \in Workers : pc[w] \in DupAt => id[hold[w]] # setup.source

CountInv ==
    /\ Kinds /\ EndNotDoubled
    /\ Counting => Books /\ \A t \in Threads : Known(t)

-----------------------------------------------------------------------------
(* What the filters make of the marks of a frame.                          *)

Grown(a, b) ==
    /\ a \subseteq b /\ b \subseteq a \union {"skipped", "is_cloned"}
    /\ "is_cloned" \in b \ a => "skipped" \notin a
    /\ "eos" \in a => b = a

LEMMA GrownOnce ==
    ASSUME NEW slot, NEW f, NEW as, NEW a, \A x \in as : Grown(a, x),
           NEW b \in Filtered(slot, f, as)
    PROVE  Grown(a, b)
  <1>1. PICK x \in as : b \in IF "eos" \in x THEN {x} ELSE Slot(slot, id[f], x)
    BY DEF Filtered
  <1>2. Grown(a, x)
    OBVIOUS
  <1>3. CASE b = x
    BY <1>2, <1>3
  <1>4. CASE "eos" \notin x /\ b = x \union {"skipped"}
    BY <1>2, <1>4 DEF Grown
  <1>5. CASE "eos" \notin x /\ b = x \union {"is_cloned"} /\ "skipped" \notin x
    BY <1>2, <1>5 DEF Grown
  <1> QED
    BY <1>1, <1>3, <1>4, <1>5 DEF Slot

LEMMA GrownBy ==
    ASSUME NEW slot, NEW f, NEW a, NEW b \in Filtered(slot, f, {a})
    PROVE  Grown(a, b)
  <1>1. Grown(a, a)
    BY DEF Grown
  <1> QED
    BY <1>1, GrownOnce

LEMMA GrownByAll ==
    ASSUME NEW f, NEW a, NEW b \in EncoderFiltered(f, a)
    PROVE  Grown(a, b)
  <1> DEFINE as == Filtered("EM", f, {a})
             bs == Filtered("OM", f, as)
  <1>1. CASE Team = {}
    <2>1. \A x \in as : Grown(a, x)
      BY GrownBy
    <2>2. \A x \in bs : Grown(a, x)
      <3> HIDE DEF as
      <3> QED
        BY <2>1, GrownOnce
    <2>3. b \in Filtered("OS", f, bs)
      BY <1>1 DEF EncoderFiltered
    <2> HIDE DEF bs
    <2> QED
      BY <2>2, <2>3, GrownOnce
  <1>2. CASE Team # {}
    BY <1>2, GrownBy DEF EncoderFiltered
  <1> QED
    BY <1>1, <1>2

(* Marks that stand for what is wanted of a frame.                         *)
LEMMA WantsTimes ==
    ASSUME NEW f, NEW a, NEW b, Grown(a, b), wanted[id[f]] \in Int
    PROVE  Wants(f, a, b) = wanted[id[f]] + Times(b) - Times(a)
  <1>1. CASE "skipped" \in a
    BY <1>1 DEF Grown, Wants, Times
  <1>2. CASE "skipped" \notin a /\ "is_cloned" \in a
    BY <1>2 DEF Grown, Wants, Times
  <1>3. CASE "skipped" \notin a /\ "is_cloned" \notin a
    BY <1>3 DEF Grown, Wants, Times
  <1> QED
    BY <1>1, <1>2, <1>3

LEMMA GrownType ==
    ASSUME NEW a \in SUBSET Attributes, NEW b, Grown(a, b)
    PROVE  b \in SUBSET Attributes
  BY DEF Grown, Attributes

-----------------------------------------------------------------------------
(* Counting what is encoded.                                               *)

LEMMA CountNat == ASSUME encoded \in Seq(Int), NEW i PROVE Count(i) \in Nat
  <1>1. IsFiniteSet(DOMAIN encoded)
    BY FS_Interval, LenProperties
  <1> QED
    BY <1>1, FS_Subset, FS_CardinalityType DEF Count

LEMMA CountAppended ==
    ASSUME encoded \in Seq(Int), NEW x \in Int, encoded' = Append(encoded, x), NEW i
    PROVE  Count(i)' = Count(i) + (IF i = x THEN 1 ELSE 0)
  <1> DEFINE n == Len(encoded)
             e == Append(encoded, x)
             S == {k \in DOMAIN encoded : encoded[k] = i}
             T == {k \in DOMAIN e : e[k] = i}
  <1>1. /\ n \in Nat /\ DOMAIN encoded = 1 .. n /\ DOMAIN e = 1 .. n + 1
        /\ e[n + 1] = x /\ \A k \in 1 .. n : e[k] = encoded[k]
    OBVIOUS
  <1>2. IsFiniteSet(S) /\ n + 1 \notin S
    <2>1. IsFiniteSet(1 .. n) /\ S \subseteq 1 .. n
      BY <1>1, FS_Interval
    <2> QED
      BY <1>1, <2>1, FS_Subset
  <1>3. Count(i) = Cardinality(S) /\ Count(i)' = Cardinality(T)
    BY DEF Count
  <1>4. Cardinality(S) \in Nat
    BY <1>2, FS_CardinalityType
  <1>5. CASE i = x
    <2>1. T = S \union {n + 1}
      BY <1>1, <1>5
    <2> HIDE DEF S, T
    <2>2. Cardinality(T) = Cardinality(S) + 1
      BY <1>2, <2>1, FS_AddElement
    <2> QED
      BY <1>3, <1>5, <2>2
  <1>6. CASE i # x
    <2>1. T = S
      BY <1>1, <1>6
    <2> HIDE DEF S, T
    <2> QED
      BY <1>3, <1>4, <1>6, <2>1
  <1> QED
    BY <1>5, <1>6

(* A step that gives a frame other marks, or encodes it c times.           *)
LEMMA AccountStep ==
    ASSUME NEW j, NEW m \in Int, NEW n \in Int, NEW c \in Nat, NEW d \in Int,
           Account(j, m), Count(j) \in Nat, wanted[j] \in Int,
           Count(j)' = Count(j) + c, wanted'[j] = wanted[j] + d,
           c + n <= m + d, c + n < m + d => c >= 1
    PROVE  Account(j, n)'
  BY DEF Account

-----------------------------------------------------------------------------
(* The types.                                                              *)

LEMMA WantsInt ==
    ASSUME Kinds, NEW f \in Frames, NEW a, NEW b
    PROVE  /\ wanted[id[f]] \in Int
           /\ Wants(f, a, b) \in Int
           /\ [wanted EXCEPT ![id[f]] = Wants(f, a, b)] \in [Ids -> Int]
           /\ [wanted EXCEPT ![id[f]] = Wants(f, a, b) - 1] \in [Ids -> Int]
  <1>1. id[f] \in Ids /\ wanted[id[f]] \in Int
    BY DEF Kinds
  <1>2. Wants(f, a, b) \in Int
    BY <1>1 DEF Wants
  <1> QED
    BY <1>1, <1>2 DEF Kinds

LEMMA Remarked ==
    ASSUME Kinds, NEW f \in Frames, NEW b, Grown(attributes[f], b), Remark(f, b)
    PROVE  /\ attributes' \in [Frames -> SUBSET Attributes] /\ wanted' \in [Ids -> Int]
           /\ attributes'[f] = b /\ \A g \in Frames : g # f => attributes'[g] = attributes[g]
           /\ wanted'[id[f]] = wanted[id[f]] + (Times(b) - Times(attributes[f]))
           /\ \A i \in Ids : i # id[f] => wanted'[i] = wanted[i]
  <1>1. b \in SUBSET Attributes
    BY GrownType DEF Kinds
  <1>2. /\ attributes' = [attributes EXCEPT ![f] = b]
        /\ wanted' = [wanted EXCEPT ![id[f]] = Wants(f, attributes[f], b)]
    BY DEF Remark
  <1>3. /\ wanted[id[f]] \in Int
        /\ [wanted EXCEPT ![id[f]] = Wants(f, attributes[f], b)] \in [Ids -> Int]
    BY WantsInt
  <1>4. Wants(f, attributes[f], b) = wanted[id[f]] + Times(b) - Times(attributes[f])
    BY <1>3, WantsTimes
  <1>5. Times(b) \in Int /\ Times(attributes[f]) \in Int
    BY DEF Times
  <1>6. id[f] \in Ids
    BY DEF Kinds
  <1>7. wanted'[id[f]] = wanted[id[f]] + (Times(b) - Times(attributes[f]))
    BY <1>2, <1>3, <1>4, <1>5, <1>6 DEF Kinds
  <1> QED
    BY <1>1, <1>2, <1>3, <1>6, <1>7 DEF Kinds

LEMMA HeldFrame ==
    ASSUME IInv, NEW t \in Threads, pc[t] \in HoldsAt
    PROVE  hold[t] \in setup.ring /\ hold[t] \in Frames /\ hold[t] # NULL
  BY RingFacts DEF IInv, InRing, Hands

LEMMA SourceNat == ASSUME setup \in Setups PROVE setup.source \in Nat
  BY DEF Setup

LEMMA KindsImport == ASSUME IInv, Kinds, Import PROVE Kinds'
  <1>0. Importer \in Threads /\ setup \in Setups
    BY DEF Threads, IInv, InRing
  <1>1. CASE import_loop \/ get_frame_wait(Importer)
    BY <1>1 DEF import_loop, get_frame_wait, ring, control, history, Kinds, Ids
  <1>2. CASE vframe_register_interrupted
    BY <1>2 DEF vframe_register_interrupted, control, history, Kinds, Ids
  <1>3. CASE vframe_register
    <2>1. PICK f \in Frames : /\ id' = [id EXCEPT ![f] = framecount]
                              /\ attributes' = [attributes EXCEPT ![f] = {}]
      BY <1>3 DEF vframe_register
    <2>2. UNCHANGED <<setup, framecount, wanted>>
      BY <1>3 DEF vframe_register, control, history
    <2> QED
      BY <2>1, <2>2 DEF Kinds, Ids
  <1>4. CASE import_frame
    <2>1. /\ pc[Importer] = "fill" /\ framecount < setup.source
          /\ framecount' = framecount + 1 /\ setup' = setup /\ id' = id
      BY <1>4 DEF import_frame
    <2>2. hold[Importer] \in Frames
      BY <1>0, <2>1, HeldFrame DEF HoldsAt
    <2>3. PICK b \in Filtered("ES", hold[Importer], {{}}) : Remark(hold[Importer], b)
      BY <1>4 DEF import_frame
    <2>4. b \in SUBSET Attributes
      <3>1. Grown({}, b)
        BY <2>3, GrownBy
      <3> QED
        BY <3>1, GrownType DEF Attributes
    <2>5. attributes' \in [Frames -> SUBSET Attributes] /\ wanted' \in [Ids -> Int]
      <3>1. wanted' \in [Ids -> Int]
        BY <2>2, <2>3, WantsInt DEF Remark
      <3>2. attributes' \in [Frames -> SUBSET Attributes]
        BY <2>3, <2>4 DEF Remark, Kinds
      <3> QED
        BY <3>1, <3>2
    <2>6. framecount' \in Ids
      BY <1>0, <2>1, SourceNat DEF Kinds, Ids
    <2> QED
      BY <2>1, <2>5, <2>6 DEF Kinds, Ids
  <1>5. CASE import_end_of_stream
    <2>1. /\ attributes' = [attributes EXCEPT ![hold[Importer]] = {"eos"}]
          /\ UNCHANGED <<setup, id, framecount, wanted>>
      BY <1>5 DEF import_end_of_stream, history
    <2> QED
      BY <2>1 DEF Kinds, Ids, Attributes
  <1> QED
    BY <1>1, <1>2, <1>3, <1>4, <1>5 DEF Import

LEMMA KindsProcess == ASSUME IInv, Kinds, NEW w \in Workers, Process(w) PROVE Kinds'
  <1>0. w \in Threads
    BY DEF Threads
  <1>1. CASE process_loop(w) \/ get_frame_wait(w)
    BY <1>1 DEF process_loop, get_frame_wait, ring, control, history, Kinds, Ids
  <1>2. CASE vframe_reserve_interrupted(w) \/ vframe_dup_interrupted(w)
    BY <1>2 DEF vframe_reserve_interrupted, vframe_dup_interrupted, control, history, Kinds, Ids
  <1>3. CASE drop_frame(w) \/ vframe_dup_put(w) \/ dup_push(w)
    BY <1>3 DEF drop_frame, vframe_dup_put, dup_push, control, history, Kinds, Ids
  <1>4. CASE vframe_reserve(w)
    <2>1. PICK f \in Frames :
             \E b \in IF "skipped" \in attributes[f] THEN {attributes[f]}
                                           ELSE Filtered("EM", f, {attributes[f]}) : Remark(f, b)
      BY <1>4 DEF vframe_reserve
    <2>2. PICK b \in IF "skipped" \in attributes[f] THEN {attributes[f]}
                                           ELSE Filtered("EM", f, {attributes[f]}) : Remark(f, b)
      BY <2>1
    <2>3. Grown(attributes[f], b)
      <3>1. CASE b = attributes[f]
        BY <3>1 DEF Grown
      <3>2. CASE b \in Filtered("EM", f, {attributes[f]})
        BY <3>2, GrownBy
      <3> QED
        BY <2>2, <3>1, <3>2
    <2>4. UNCHANGED <<setup, id, framecount>>
      BY <1>4 DEF vframe_reserve
    <2> QED
      BY <2>2, <2>3, <2>4, Remarked DEF Kinds, Ids
  <1>5. CASE vframe_dup(w)
    <2>1. pc[w] = "dup" /\ UNCHANGED <<setup, framecount, wanted>>
      BY <1>5 DEF vframe_dup, control, history
    <2>2. hold[w] \in Frames
      BY <1>0, <2>1, HeldFrame DEF HoldsAt
    <2>3. PICK f \in Frames : /\ id' = [id EXCEPT ![f] = id[hold[w]]]
                              /\ attributes' = [attributes EXCEPT ![f] = attributes[hold[w]]]
      BY <1>5 DEF vframe_dup
    <2> QED
      BY <2>1, <2>2, <2>3 DEF Kinds, Ids
  <1>6. CASE dup_mark(w)
    <2>1. /\ attributes' = [attributes EXCEPT
                 ![hold[w]] = @ \ {"is_cloned"},
                 ![dup[w]]  = (@ \ {"is_cloned"}) \union {"was_cloned"}]
          /\ UNCHANGED <<setup, id, framecount, wanted>>
      BY <1>6 DEF dup_mark, control, history
    <2>2. attributes' \in [Frames -> SUBSET Attributes]
      BY <2>1 DEF Kinds, Attributes
    <2> QED
      BY <2>1, <2>2 DEF Kinds, Ids
  <1>7. CASE process_done(w)
    <2>1. pc[w] = "post" /\ UNCHANGED <<setup, id, framecount>>
      BY <1>7 DEF process_done, control
    <2>2. hold[w] \in Frames
      BY <1>0, <2>1, HeldFrame DEF HoldsAt
    <2>3. PICK b \in Filtered("OM", hold[w], {attributes[hold[w]]}) : Remark(hold[w], b)
      BY <1>7 DEF process_done
    <2> QED
      BY <2>1, <2>2, <2>3, GrownBy, Remarked DEF Kinds, Ids
  <1> QED
    BY <1>1, <1>2, <1>3, <1>4, <1>5, <1>6, <1>7 DEF Process

LEMMA KindsExport == ASSUME IInv, Kinds, Export PROVE Kinds'
  <1>0. Encoder \in Threads
    BY DEF Threads
  <1>1. CASE export_loop \/ get_frame_wait(Encoder)
    BY <1>1 DEF export_loop, get_frame_wait, ring, control, history, Kinds, Ids
  <1>2. CASE vframe_retrieve_interrupted
    BY <1>2 DEF vframe_retrieve_interrupted, control, history, Kinds, Ids
  <1>3. CASE vframe_retrieve
    <2>1. UNCHANGED <<setup, id, framecount>>
      BY <1>3 DEF vframe_retrieve, control
    <2>2. PICK f \in Frames :
             IF "eos" \in attributes[f]
             THEN /\ attributes' = [attributes EXCEPT ![f] = @ \ {"eos"}]
                  /\ UNCHANGED <<encoded, wanted>>
             ELSE \E b \in EncoderFiltered(f, attributes[f]) :
                    \E c \in {b, {}} : \E m \in {Wants(f, attributes[f], b), Wants(f, attributes[f], b) - 1} :
                        /\ attributes' = [attributes EXCEPT ![f] = c]
                        /\ wanted' = [wanted EXCEPT ![id[f]] = m]
      BY <1>3 DEF vframe_retrieve
    <2>3. CASE "eos" \in attributes[f]
      BY <2>1, <2>2, <2>3 DEF Kinds, Ids
    <2>4. CASE "eos" \notin attributes[f]
      <3>1. PICK b \in EncoderFiltered(f, attributes[f]) :
                \E c \in {b, {}} : \E m \in {Wants(f, attributes[f], b), Wants(f, attributes[f], b) - 1} :
                        /\ attributes' = [attributes EXCEPT ![f] = c]
                        /\ wanted' = [wanted EXCEPT ![id[f]] = m]
        BY <2>2, <2>4
      <3>2. b \in SUBSET Attributes
        <4>1. Grown(attributes[f], b) /\ attributes[f] \in SUBSET Attributes
          BY GrownByAll DEF Kinds
        <4> QED
          BY <4>1, GrownType
      <3>3. wanted' \in [Ids -> Int]
        BY <3>1, WantsInt
      <3>4. attributes' \in [Frames -> SUBSET Attributes]
        BY <3>1, <3>2 DEF Kinds
      <3> QED
        BY <2>1, <3>3, <3>4 DEF Kinds, Ids
    <2> QED
      BY <2>3, <2>4
  <1>4. CASE requeue \/ encoder_dispose_vframe
    <2>1. give_back(hold[Encoder]) /\ UNCHANGED <<setup, id, framecount, wanted>>
      BY <1>4 DEF requeue, encoder_dispose_vframe, control, history
    <2>2. attributes' \in [Frames -> SUBSET Attributes]
      BY <2>1 DEF give_back, Kinds, Attributes
    <2> QED
      BY <2>1, <2>2 DEF Kinds, Ids
  <1>5. CASE tc_framebuffer_interrupt(Encoder, "cancel")
    BY <1>5 DEF tc_framebuffer_interrupt, ring, control, history, Kinds, Ids
  <1>6. CASE tc_stop \/ tc_import_threads_cancel \/ join_import \/ tc_frame_threads_close
             \/ join_workers
    BY <1>6 DEF tc_stop, tc_import_threads_cancel, join_import, tc_frame_threads_close,
                join_workers, ring, control, history, Kinds, Ids
  <1> QED
    BY <1>1, <1>2, <1>3, <1>4, <1>5, <1>6 DEF Export

LEMMA KindsNext == ASSUME IInv, Kinds, [Next]_vars PROVE Kinds'
  <1>1. CASE tc_interrupt
    BY <1>1 DEF tc_interrupt, ring, history, Kinds, Ids
  <1>2. CASE event_handler
    BY <1>2 DEF event_handler, tc_framebuffer_interrupt, ring, control, history, Kinds, Ids
  <1>3. CASE Ended \/ UNCHANGED vars
    BY <1>3 DEF Ended, vars, Kinds, Ids
  <1> QED
    BY <1>1, <1>2, <1>3, KindsImport, KindsProcess, KindsExport DEF Next

-----------------------------------------------------------------------------
(* One frame moves, and the accounts of the others stay as they are.       *)

LEMMA OneMoves ==
    ASSUME Books, setup' = setup, id' = id, framecount' = framecount,
           setup.source \in Nat, framecount \in Int, NEW f \in Frames, NEW j, j = id[f], NEW n,
           \A g \in Frames : g # f =>
               /\ Underway(g)' <=> Underway(g)
               /\ attributes'[g] = attributes[g]
               /\ hold'[Encoder] = g <=> hold[Encoder] = g,
           \A i \in 0 .. setup.source - 1 : i # j => wanted'[i] = wanted[i] /\ Count(i)' = Count(i),
           j \in 0 .. setup.source - 1 => Underway(f) /\ Account(j, n)',
           Underway(f)' => Rest(f)' = n /\ Marked(f)', ~Underway(f)' => n = 0
    PROVE  Books'
  <1>1. \A g \in Frames : g # f => Rest(g)' = Rest(g) /\ (Marked(g) => Marked(g)')
    BY DEF Rest, Marked
  <1>2. ASSUME NEW g \in Frames, Underway(g)' PROVE Marked(g)'
    BY <1>1, <1>2 DEF Books
  <1>3. ASSUME NEW i \in 0 .. setup.source - 1, i # j PROVE Accounted(i)'
    <2>1. Accounted(i) /\ wanted'[i] = wanted[i] /\ Count(i)' = Count(i)
      BY <1>3 DEF Books
    <2>2. \A m : Account(i, m)' <=> Account(i, m)
      BY <2>1 DEF Account
    <2>3. \A g \in Frames : id[g] = i =>
              (Underway(g)' <=> Underway(g)) /\ Rest(g)' = Rest(g)
      BY <1>1, <1>3
    <2> QED
      BY <2>1, <2>2, <2>3 DEF Accounted
  <1>4. ASSUME j \in 0 .. setup.source - 1 PROVE Accounted(j)'
    <2>1. Accounted(j) /\ Underway(f) /\ Account(j, n)'
      BY <1>4 DEF Books
    <2>2. j < framecount /\ \A g \in Frames : Underway(g) /\ id[g] = j => g = f
      BY <1>4, <2>1 DEF Accounted
    <2>3. \A g \in Frames : Underway(g)' /\ id[g] = j => g = f
      BY <2>2
    <2>4. \A g \in Frames : Underway(g)' /\ id[g] = j => j < framecount /\ Account(j, Rest(g))'
      BY <2>1, <2>2, <2>3 DEF Account
    <2>5. Account(j, 0)' \/ Underway(f)'
      BY <2>1
    <2> QED
      BY <1>4, <2>2, <2>3, <2>4, <2>5 DEF Accounted
  <1> QED
    BY <1>2, <1>3, <1>4 DEF Books

(* A claim moves a frame that is underway into the hands of the thread.    *)
LEMMA Taken ==
    ASSUME IInv, setup' = setup, doubled' = doubled, doubled = {},
           NEW t \in Workers \union {Encoder}, NEW f \in Frames, NEW S \in {"READY", "WAIT"},
           ClaimsFrom(t) = S, Got(t, f), Holds(t, f), hold[t] = NULL, S = "WAIT" => Team # {}
    PROVE  /\ Underway(f) /\ Underway(f)'
           /\ hold[Encoder] # f /\ (hold'[Encoder] = f <=> t = Encoder)
           /\ \A u \in Threads : u # t => hold'[u] = hold[u]
           /\ \A g \in Frames : g # f =>
                  /\ Underway(g)' <=> Underway(g)
                  /\ hold'[Encoder] = g <=> hold[Encoder] = g
  <1>0. InRing /\ S \in Stages /\ {"READY", "WAIT"} \subseteq Stages
        /\ t \in Threads /\ Encoder \in Threads /\ Workers \subseteq Threads /\ Encoder \notin Workers
    BY WorkersAssumption DEF IInv, Stages, Threads
  <1>1. /\ Pooled(S, f) /\ f # NULL /\ \A u \in Threads : hold[u] # f
        /\ \A T \in Stages : T # S => pool'[T] = pool[T]
    BY <1>0, GotPlaces
  <1>2. \A g \in Frames : g # f => \A T \in Stages : Pooled(T, g)' <=> Pooled(T, g)
    <2>1. Range(pool[S]) = Range(pool'[S]) \union {f}
      BY <1>0, GotEffect
    <2> QED
      BY <1>1, <2>1 DEF Pooled
  <1>3. hold'[t] = f /\ \A u \in Threads : u # t => hold'[u] = hold[u]
    BY <1>0 DEF InRing, Holds
  <1>4. Underway(f)
    BY <1>1 DEF Underway
  <1>5. Underway(f)'
    BY <1>3 DEF Underway
  <1>6. \A g \in Frames : g # f => \A u \in Threads : hold'[u] = g <=> hold[u] = g
    BY <1>3, FramesAssumption
  <1>7. \A g \in Frames : g # f => (Underway(g)' <=> Underway(g))
    BY <1>0, <1>2, <1>6 DEF Underway, Team
  <1> QED
    BY <1>0, <1>1, <1>3, <1>4, <1>5, <1>6, <1>7

(* A put makes it free, or moves it on, and the importer's set out.        *)
LEMMA Given ==
    ASSUME IInv, setup' = setup, doubled' = doubled, doubled = {},
           NEW t \in Workers \union {Importer, Encoder}, NEW f \in Frames, hold[t] = f,
           NEW S \in {"NULL", "READY", "WAIT"}, Put(S, f), Releases(t),
           S = "WAIT" => Team # {}
    PROVE  /\ Underway(f)' <=> S # "NULL"
           /\ Underway(f) <=> t # Importer
           /\ hold[Encoder] = f <=> t = Encoder
           /\ hold'[Encoder] # f
           /\ \A u \in Threads : u # t => hold'[u] = hold[u]
           /\ \A g \in Frames : g # f =>
                  /\ Underway(g)' <=> Underway(g)
                  /\ hold'[Encoder] = g <=> hold[Encoder] = g
  <1>0. /\ InRing /\ Unshared /\ S \in Stages /\ {"READY", "WAIT"} \subseteq Stages
        /\ t \in Threads /\ Encoder \in Threads /\ Workers \subseteq Threads /\ Encoder \notin Workers
        /\ Importer \notin Workers /\ Importer # Encoder
    BY WorkersAssumption DEF IInv, Stages, Threads, Importer, Encoder
  <1>1. f \in setup.ring /\ f # NULL
    BY <1>0, FramesAssumption DEF InRing
  <1>2. /\ \A T \in Stages : ~Pooled(T, f)
        /\ \A u \in Threads : hold[u] = f => u = t
    BY <1>0 DEF Unshared, Single
  <1>3. Pooled(S, f)' /\ \A T \in Stages : T # S => ~Pooled(T, f)'
    <2>1. Len(pool[S]) # Cardinality(setup.ring)
      BY <1>0, <1>1, <1>2, NotRefused
    <2> QED
      BY <1>0, <1>1, <1>2, <2>1, PutPlaces
  <1>4. \A g \in Frames : g # f => \A T \in Stages : Pooled(T, g)' <=> Pooled(T, g)
    BY <1>0, <1>1, PutPlaces
  <1>5. hold'[t] = NULL /\ \A u \in Threads : u # t => hold'[u] = hold[u]
    BY <1>0 DEF InRing, Releases
  <1>6. \A u \in Threads : hold'[u] # f
    BY <1>1, <1>2, <1>5
  <1>7. Underway(f)' <=> S # "NULL"
    <2>1. CASE S = "NULL"
      BY <1>0, <1>3, <1>6, <2>1 DEF Underway
    <2>2. CASE S # "NULL"
      BY <1>0, <1>3, <2>2 DEF Underway, Team
    <2> QED
      BY <2>1, <2>2
  <1>8. Underway(f) <=> t # Importer
    BY <1>0, <1>2 DEF Underway
  <1>9. \A g \in Frames : g # f => \A u \in Threads : hold'[u] = g <=> hold[u] = g
    BY <1>5, FramesAssumption
  <1>10. \A g \in Frames : g # f => (Underway(g)' <=> Underway(g))
    BY <1>0, <1>4, <1>9 DEF Underway, Team
  <1> QED
    BY <1>0, <1>2, <1>5, <1>6, <1>7, <1>8, <1>9, <1>10

-----------------------------------------------------------------------------
(* As long as one counts, one has counted; what the others know stays so.  *)

LEMMA CountingKept ==
    ASSUME Hands, setup' = setup, doubled \subseteq doubled', Counting',
           NEW t \in Threads, NEW l, pc' = [pc EXCEPT ![t] = l],
           pc[t] \notin DupAt,
           t = Encoder => \/ pc[Encoder] \in {"loop", "retrieve", "requeue", "dispose"}
                          \/ l \notin {"loop", "retrieve", "requeue", "dispose", "dispose_last"},
           t # Encoder => /\ hold'[Encoder] = hold[Encoder]
                          /\ pc[Encoder] \in HoldsAt => id'[hold[Encoder]] = id[hold[Encoder]]
    PROVE  /\ Counting /\ doubled = {} /\ doubled' = {}
           /\ pc'[t] = l /\ \A u \in Threads : u # t => pc'[u] = pc[u]
  <1>1. pc'[t] = l /\ \A u \in Threads : u # t => pc'[u] = pc[u]
    BY DEF Hands
  <1>2. Workers \subseteq Threads /\ Encoder \in Threads
    BY DEF Threads
  <1>3. OneWay /\ doubled = {} /\ doubled' = {}
    BY DEF Counting, OneWay, Team
  <1>4. NoDuplicate
    BY <1>1, <1>2 DEF Counting, NoDuplicate
  <1>5. Encoding
    <2>1. CASE t = Encoder
      BY <1>1, <2>1 DEF Counting, Encoding, AtTheEnd
    <2>2. CASE t # Encoder
      BY <1>1, <1>2, <2>2 DEF Counting, Encoding, AtTheEnd, HoldsAt
    <2> QED
      BY <2>1, <2>2
  <1> QED
    BY <1>1, <1>3, <1>4, <1>5 DEF Counting

LEMMA KnownKept ==
    ASSUME \A u \in Threads : Known(u), NEW t \in Threads, setup' = setup,
           t = Importer \/ framecount' = framecount,
           \A u \in Threads : u # t =>
               /\ pc'[u] = pc[u] /\ hold'[u] = hold[u]
               /\ pc[u] \in HoldsAt => /\ attributes'[hold[u]] = attributes[hold[u]]
                                       /\ id'[hold[u]] = id[hold[u]],
           Known(t)'
    PROVE  \A u \in Threads : Known(u)'
  <1> SUFFICES ASSUME NEW u \in Threads, u # t PROVE Known(u)'
    OBVIOUS
  <1>1. {"fill", "drop", "dup", "requeue", "dispose"} \subseteq HoldsAt
    BY DEF HoldsAt
  <1>2. Known(u) /\ pc'[u] = pc[u] /\ hold'[u] = hold[u]
    OBVIOUS
  <1> QED
    BY <1>1, <1>2 DEF Known

(* Nothing happens to the frames that are underway.                        *)
LEMMA BooksKept ==
    ASSUME Books, UNCHANGED <<setup, framecount, encoded, wanted>>,
           \A g \in Frames : Underway(g)' <=> Underway(g),
           \A g \in Frames : Underway(g) =>
               /\ id'[g] = id[g] /\ attributes'[g] = attributes[g]
               /\ hold'[Encoder] = g <=> hold[Encoder] = g
    PROVE  Books'
  <1>1. ASSUME NEW g \in Frames, Underway(g)' PROVE Marked(g)' /\ Rest(g)' = Rest(g)
    BY <1>1 DEF Books, Marked, Rest
  <1>2. ASSUME NEW i \in 0 .. setup.source - 1 PROVE Accounted(i)'
    <2>1. Accounted(i)
      BY DEF Books
    <2>2. \A m : Account(i, m)' <=> Account(i, m)
      BY DEF Account, Count
    <2>3. (i >= framecount => wanted[i] = 1 /\ Count(i) = 0)'
      BY <2>1 DEF Accounted, Count
    <2>4. \A f \in Frames : Underway(f)' /\ id'[f] = i => i < framecount /\ Account(i, Rest(f))'
      BY <1>1, <2>1, <2>2 DEF Accounted
    <2> QED
      BY <2>1, <2>2, <2>3, <2>4 DEF Accounted
  <1> QED
    BY <1>1, <1>2 DEF Books

LEMMA GoesOnCounted ==
    ASSUME IInv, CountInv, Counting',
           UNCHANGED <<setup, pool, hold, id, attributes, framecount, encoded, wanted, doubled>>,
           NEW t \in Threads, NEW l, pc' = [pc EXCEPT ![t] = l],
           pc[t] \notin DupAt,
           l \notin {"fill", "drop", "dup", "requeue", "dispose", "dispose_last"},
           t = Encoder => \/ pc[Encoder] \in {"loop", "retrieve", "requeue", "dispose"}
                          \/ l \notin {"loop", "retrieve"}
    PROVE  Books' /\ \A u \in Threads : Known(u)'
  <1>1. /\ Counting
        /\ pc'[t] = l /\ \A u \in Threads : u # t => pc'[u] = pc[u]
    BY CountingKept DEF IInv
  <1>2. Books /\ \A u \in Threads : Known(u)
    BY <1>1 DEF CountInv
  <1>3. \A g \in Frames : Underway(g)' <=> Underway(g)
    BY DEF Underway, Pooled, Team
  <1>4. Books'
    BY <1>2, <1>3, BooksKept
  <1>5. Known(t)'
    BY <1>1 DEF Known
  <1> QED
    BY <1>1, <1>2, <1>4, <1>5, KnownKept

LEMMA StuttersCounted ==
    ASSUME IInv, CountInv, Counting',
           UNCHANGED <<setup, pool, pc, hold, id, attributes, framecount, encoded, wanted, doubled>>
    PROVE  Books' /\ \A u \in Threads : Known(u)'
  <1>1. Counting
    BY DEF Counting, OneWay, Team, NoDuplicate, Encoding, AtTheEnd
  <1>2. Books /\ \A u \in Threads : Known(u)
    BY <1>1 DEF CountInv
  <1>3. \A g \in Frames : Underway(g)' <=> Underway(g)
    BY DEF Underway, Pooled, Team
  <1>4. Books'
    BY <1>2, <1>3, BooksKept
  <1> QED
    BY <1>2, <1>4 DEF Known

-----------------------------------------------------------------------------
(* What the steps do to the accounts.                                      *)

LEMMA RegisterCounts ==
    ASSUME IInv, CountInv, Counting', vframe_register
    PROVE  Books' /\ \A u \in Threads : Known(u)'
  <1>0. InRing /\ Hands /\ Kinds
    BY DEF IInv, CountInv
  <1>1. PICK f \in Frames : /\ Got(Importer, f) /\ Holds(Importer, f)
                            /\ id' = [id EXCEPT ![f] = framecount]
                            /\ attributes' = [attributes EXCEPT ![f] = {}]
    BY DEF vframe_register
  <1>2. /\ pc[Importer] = "register" /\ pc' = [pc EXCEPT ![Importer] = "fill"]
        /\ UNCHANGED <<setup, doubled, framecount, encoded, wanted>>
    BY DEF vframe_register, Goto, control, history
  <1>3. ClaimsFrom(Importer) = "NULL" /\ {"NULL", "READY", "WAIT"} \subseteq Stages
    BY DEF ClaimsFrom, Importer, Encoder, Stages
  <1>4. /\ Importer \in Threads /\ Encoder \in Threads /\ Encoder # Importer
        /\ Workers \subseteq Threads /\ Importer \notin Workers
    BY WorkersAssumption DEF Threads, Encoder, Importer
  <1>5. doubled = {}
    BY <1>2 DEF Counting, OneWay
  <1>6. /\ pool'["READY"] = pool["READY"] /\ pool'["WAIT"] = pool["WAIT"]
        /\ ~Pooled("READY", f) /\ ~Pooled("WAIT", f) /\ \A u \in Threads : hold[u] # f
    <2>1. /\ \A T \in Stages : T # "NULL" => pool'[T] = pool[T]
          /\ \A T \in Stages : ~Pooled(T, f)' /\ \A u \in Threads : hold[u] # f
      BY <1>1, <1>2, <1>3, <1>5, GotPlaces
    <2> QED
      BY <1>3, <2>1 DEF Pooled
  <1>7. /\ hold'[Importer] = f /\ \A u \in Threads : u # Importer => hold'[u] = hold[u]
        /\ id'[f] = framecount /\ attributes'[f] = {}
        /\ \A g \in Frames : g # f => id'[g] = id[g] /\ attributes'[g] = attributes[g]
    BY <1>0, <1>1, <1>4 DEF InRing, Kinds, Holds
  <1>8. \A u \in Threads : u # Importer /\ pc[u] \in HoldsAt =>
            id'[hold[u]] = id[hold[u]] /\ attributes'[hold[u]] = attributes[hold[u]]
    BY <1>6, <1>7, HeldFrame
  <1>9. /\ Counting
        /\ pc'[Importer] = "fill" /\ \A u \in Threads : u # Importer => pc'[u] = pc[u]
    BY <1>0, <1>2, <1>4, <1>7, <1>8, CountingKept DEF DupAt
  <1>10. Books /\ \A u \in Threads : Known(u)
    BY <1>9 DEF CountInv
  <1>11. Books'
    <2>1. \A g \in Frames : Underway(g)' <=> Underway(g)
      BY <1>2, <1>4, <1>6, <1>7 DEF Underway, Pooled, Team
    <2>2. \A g \in Frames : Underway(g) => g # f
      BY <1>4, <1>6 DEF Underway
    <2> QED
      BY <1>2, <1>4, <1>7, <1>10, <2>1, <2>2, BooksKept
  <1>12. Known(Importer)'
    BY <1>2, <1>7, <1>9 DEF Known
  <1> QED
    BY <1>2, <1>4, <1>7, <1>8, <1>9, <1>10, <1>11, <1>12, KnownKept

(* The importer gives its frame away, marked by its filters. *)
LEMMA ImportCounts ==
    ASSUME IInv, CountInv, Counting', import_frame
    PROVE  Books' /\ \A u \in Threads : Known(u)'
  <1>0. InRing /\ Hands /\ Kinds /\ setup.source \in Nat /\ framecount \in Int
    BY SourceNat DEF IInv, InRing, CountInv, Kinds, Ids
  <1>1. /\ pc[Importer] = "fill" /\ framecount < setup.source
        /\ Put(NextStage, hold[Importer]) /\ Releases(Importer)
        /\ framecount' = framecount + 1 /\ pc' = [pc EXCEPT ![Importer] = "loop"]
        /\ UNCHANGED <<setup, id, encoded, doubled>>
        /\ \E b \in Filtered("ES", hold[Importer], {{}}) : Remark(hold[Importer], b)
    BY DEF import_frame, Goto
  <1>2. Importer \in Threads /\ Encoder \in Threads /\ Encoder # Importer
    BY DEF Threads, Encoder, Importer
  <1>3. PICK f \in Frames : f = hold[Importer]
    BY <1>1, <1>2, HeldFrame DEF HoldsAt
  <1>4. PICK S \in {"READY", "WAIT"} : S = NextStage
    BY DEF NextStage
  <1>5. doubled = {}
    BY <1>1 DEF Counting, OneWay
  <1>6. /\ Underway(f)' /\ ~Underway(f) /\ hold'[Encoder] # f
        /\ \A u \in Threads : u # Importer => hold'[u] = hold[u]
        /\ \A g \in Frames : g # f =>
               (Underway(g)' <=> Underway(g)) /\ (hold'[Encoder] = g <=> hold[Encoder] = g)
    <2>1. S = "WAIT" => Team # {}
      BY <1>4 DEF NextStage
    <2> QED
      BY <1>1, <1>3, <1>4, <1>5, <2>1, Given
  <1>7. /\ Counting
        /\ pc'[Importer] = "loop" /\ \A u \in Threads : u # Importer => pc'[u] = pc[u]
    BY <1>0, <1>1, <1>2, <1>6, CountingKept DEF DupAt
  <1>8. Books /\ (\A u \in Threads : Known(u)) /\ id[f] = framecount /\ attributes[f] = {}
    BY <1>1, <1>2, <1>3, <1>7 DEF CountInv, Known
  <1>9. PICK b \in Filtered("ES", f, {{}}) : Remark(f, b)
    BY <1>1, <1>3
  <1>10. Grown(attributes[f], b) /\ "eos" \notin b
    <2>1. Grown({}, b)
      BY <1>9, GrownBy
    <2> QED
      BY <1>8, <2>1 DEF Grown
  <1>11. /\ attributes'[f] = b /\ \A g \in Frames : g # f => attributes'[g] = attributes[g]
         /\ wanted'[framecount] = wanted[framecount] + (Times(b) - Times({}))
         /\ \A i \in Ids : i # framecount => wanted'[i] = wanted[i]
    <2>1. /\ attributes'[f] = b /\ \A g \in Frames : g # f => attributes'[g] = attributes[g]
          /\ wanted'[id[f]] = wanted[id[f]] + (Times(b) - Times(attributes[f]))
          /\ \A i \in Ids : i # id[f] => wanted'[i] = wanted[i]
      BY <1>0, <1>9, <1>10, Remarked
    <2> QED
      BY <1>8, <2>1
  <1>12. Times({}) = 1 /\ Times(b) \in Int
    BY DEF Times
  <1>13. \A i : Count(i)' = Count(i)
    BY <1>1 DEF Count
  <1>14. /\ \A g \in Frames : g # f => Rest(g)' = Rest(g) /\ (Marked(g) => Marked(g)')
         /\ Rest(f)' = Times(b) /\ Marked(f)'
    <2>1. Rest(f)' = Times(b)
      BY <1>6, <1>11 DEF Rest
    <2>2. Marked(f)'
      <3>1. id'[f] = framecount /\ framecount # setup'.source /\ "eos" \notin attributes'[f]
        BY <1>0, <1>1, <1>8, <1>10, <1>11
      <3> QED
        BY <3>1 DEF Marked
    <2>3. \A g \in Frames : g # f => Rest(g)' = Rest(g)
      BY <1>6, <1>11 DEF Rest
    <2>4. \A g \in Frames : g # f => (Marked(g) => Marked(g)')
      BY <1>1, <1>6, <1>11 DEF Marked
    <2> QED
      BY <2>1, <2>2, <2>3, <2>4
  <1>15. PICK c \in Int : c = framecount
    BY <1>0
  <1>16. ASSUME NEW i \in 0 .. setup.source - 1, i # c PROVE Accounted(i)'
    <2>1. Accounted(i) /\ i \in Ids /\ i \in Int
      BY <1>0, <1>8 DEF Books, Ids
    <2>2. wanted'[i] = wanted[i] /\ Count(i)' = Count(i)
      BY <1>11, <1>13, <1>15, <1>16, <2>1
    <2>3. \A m : Account(i, m)' <=> Account(i, m)
      BY <2>2 DEF Account
    <2>4. \A g \in Frames : Underway(g)' /\ id'[g] = i => g # f /\ Underway(g) /\ id[g] = i
      BY <1>1, <1>6, <1>8, <1>15, <1>16
    <2>5. \A g \in Frames : Underway(g) => Underway(g)' /\ g # f
      BY <1>6
    <2>6. i >= framecount' => i >= framecount
      BY <1>0, <1>1, <2>1
    <2>7. i < framecount' <=> i < framecount
      BY <1>0, <1>1, <1>15, <1>16, <2>1
    <2>8. \A g \in Frames : Underway(g)' /\ id'[g] = i => i < framecount' /\ Account(i, Rest(g))'
      BY <1>14, <2>1, <2>3, <2>4, <2>7 DEF Accounted
    <2>9. i < framecount' => Account(i, 0)' \/ \E g \in Frames : Underway(g)' /\ id'[g] = i
      BY <1>1, <2>1, <2>3, <2>5, <2>7 DEF Accounted
    <2> QED
      BY <2>1, <2>2, <2>4, <2>6, <2>8, <2>9 DEF Accounted
  <1>17. ASSUME c \in 0 .. setup.source - 1 PROVE Accounted(c)'
    <2>1. Accounted(c) /\ c \in Ids
      BY <1>0, <1>8, <1>17 DEF Books, Ids
    <2>2. wanted[c] = 1 /\ Count(c) = 0
      BY <1>0, <1>15, <2>1 DEF Accounted
    <2>3. wanted'[c] = Times(b) /\ Count(c)' = 0
      BY <1>11, <1>12, <1>13, <1>15, <2>2
    <2>4. Account(c, Times(b))'
      BY <1>12, <2>3 DEF Account
    <2>5. \A g \in Frames : Underway(g)' /\ id'[g] = c => g = f
      BY <1>1, <1>6, <1>15, <2>1 DEF Accounted
    <2>6. c < framecount' /\ ~(c >= framecount')
      BY <1>0, <1>1, <1>15
    <2>7. \E g \in Frames : Underway(g)' /\ id'[g] = c
      BY <1>1, <1>6, <1>8, <1>15
    <2>8. \A g \in Frames : Underway(g)' /\ id'[g] = c => c < framecount' /\ Account(c, Rest(g))'
      <3>1. Account(c, Rest(f))'
        BY <1>14, <2>4 DEF Account
      <3> QED
        BY <2>5, <2>6, <3>1
    <2> QED
      BY <2>5, <2>6, <2>7, <2>8 DEF Accounted
  <1>18. \A g \in Frames : Underway(g)' => Marked(g)'
    BY <1>6, <1>8, <1>14 DEF Books
  <1>19. Books'
    <2>1. \A i \in 0 .. setup.source - 1 : Accounted(i)'
      BY <1>16, <1>17
    <2> QED
      BY <1>1, <1>18, <2>1 DEF Books
  <1>20. Known(Importer)'
    BY <1>7 DEF Known
  <1>21. \A u \in Threads : u # Importer =>
             /\ hold'[u] = hold[u]
             /\ pc[u] \in HoldsAt => /\ attributes'[hold[u]] = attributes[hold[u]]
                                     /\ id'[hold[u]] = id[hold[u]]
    <2>1. \A u \in Threads : u # Importer => hold[u] # f
      BY <1>0, <1>1, <1>2, <1>3, <1>5 DEF IInv, Unshared, Single
    <2> QED
      BY <1>1, <1>6, <1>11, <2>1, HeldFrame
  <1> QED
    BY <1>1, <1>2, <1>7, <1>8, <1>19, <1>20, <1>21, KnownKept

(* A thread gives its frame f away, to be encoded n times more; one counts *)
(* before, ...                                                             *)
LEMMA CountedPut ==
    ASSUME IInv, CountInv, Counting',
           NEW t \in Workers \union {Importer, Encoder}, NEW l, pc' = [pc EXCEPT ![t] = l],
           pc[t] \in HoldsAt \ DupAt,
           t = Encoder => pc[Encoder] \in {"requeue", "dispose"},
           Releases(t), UNCHANGED <<setup, id, doubled>>
    PROVE  /\ Counting /\ Books /\ \A u \in Threads : Known(u)
           /\ doubled = {} /\ pc'[t] = l /\ \A u \in Threads : u # t => pc'[u] = pc[u]
           /\ hold[t] \in Frames
           /\ \A u \in Threads : u # t => hold'[u] = hold[u] /\ hold[u] # hold[t]
  <1>0. InRing /\ Hands /\ Unshared /\ t \in Threads /\ Encoder \in Threads
    BY DEF IInv, Threads
  <1>1. \A u \in Threads : u # t => hold'[u] = hold[u]
    BY <1>0 DEF InRing, Releases
  <1>2. /\ Counting /\ doubled = {}
        /\ pc'[t] = l /\ \A u \in Threads : u # t => pc'[u] = pc[u]
    BY <1>0, <1>1, CountingKept
  <1>3. hold[t] \in Frames
    BY <1>0, HeldFrame
  <1>4. \A u \in Threads : u # t => hold[u] # hold[t]
    BY <1>0, <1>2, <1>3 DEF Unshared, Single
  <1> QED
    BY <1>1, <1>2, <1>3, <1>4 DEF CountInv

(* ... and if its marks b agree with what becomes of it, after it.         *)
GivesAway(t, l, f, S) ==
    /\ pc[t] \in HoldsAt \ DupAt /\ (t = Encoder => pc[Encoder] \in {"requeue", "dispose"})
    /\ pc' = [pc EXCEPT ![t] = l] /\ l \in {"loop", "retrieve", "done"}
    /\ f = hold[t] /\ Releases(t)
    /\ S \in {"NULL", "READY", "WAIT"} /\ Put(S, f) /\ (S = "WAIT" => Team # {})
    /\ UNCHANGED <<setup, id, framecount, encoded, doubled>>

Settled(t, f, S, b, j) ==
    /\ attributes'[f] = b /\ \A g \in Frames : g # f => attributes'[g] = attributes[g]
    /\ j = id[f] /\ \A i \in Ids : i # j => wanted'[i] = wanted[i]
    /\ j \in 0 .. setup.source - 1 =>
           /\ t # Importer
           /\ S = "NULL" => Account(j, 0)'
           /\ S # "NULL" => Account(j, Times(b))'
    /\ S # "NULL" /\ (j = setup.source \/ "eos" \in b) => j = setup.source /\ b = {"eos"}

LEMMA PutCounts ==
    ASSUME IInv, CountInv, Counting', NEW t \in Workers \union {Importer, Encoder},
           NEW l, NEW f \in Frames, NEW S, GivesAway(t, l, f, S),
           NEW b, NEW j, Settled(t, f, S, b, j)
    PROVE  Books' /\ \A u \in Threads : Known(u)'
  <1> USE DEF GivesAway, Settled
  <1>0. Hands /\ setup.source \in Nat /\ framecount \in Int /\ t \in Threads /\ Encoder \in Threads
    BY SourceNat DEF IInv, InRing, CountInv, Kinds, Ids, Threads
  <1>1. /\ Books /\ (\A u \in Threads : Known(u)) /\ doubled = {}
        /\ pc'[t] = l /\ \A u \in Threads : u # t => pc'[u] = pc[u]
        /\ \A u \in Threads : u # t => hold'[u] = hold[u] /\ hold[u] # f
    BY CountedPut
  <1>2. /\ Underway(f)' <=> S # "NULL"
        /\ Underway(f) <=> t # Importer
        /\ hold'[Encoder] # f
        /\ \A g \in Frames : g # f =>
               (Underway(g)' <=> Underway(g)) /\ (hold'[Encoder] = g <=> hold[Encoder] = g)
    BY <1>1, Given
  <1>3. \A i \in 0 .. setup.source - 1 : i # j => wanted'[i] = wanted[i] /\ Count(i)' = Count(i)
    <2>1. \A i : Count(i)' = Count(i)
      BY DEF Count
    <2>2. \A i \in 0 .. setup.source - 1 : i \in Ids
      BY <1>0 DEF Ids
    <2> QED
      BY <2>1, <2>2
  <1>4. PICK n : n = IF S = "NULL" THEN 0 ELSE Times(b)
    OBVIOUS
  <1>5. Books'
    <2>1. /\ Underway(f)' => Rest(f)' = n /\ Marked(f)'
          /\ ~Underway(f)' => n = 0
      BY <1>2, <1>4 DEF Rest, Marked
    <2>2. j \in 0 .. setup.source - 1 => Underway(f) /\ Account(j, n)'
      BY <1>2, <1>4 DEF Account
    <2> QED
      BY <1>0, <1>1, <1>2, <1>3, <2>1, <2>2, OneMoves
  <1>6. Known(t)'
    BY <1>1 DEF Known
  <1>7. \A u \in Threads : u # t =>
            /\ pc'[u] = pc[u] /\ hold'[u] = hold[u]
            /\ pc[u] \in HoldsAt => /\ attributes'[hold[u]] = attributes[hold[u]]
                                    /\ id'[hold[u]] = id[hold[u]]
    BY <1>1, HeldFrame
  <1> QED
    BY <1>0, <1>1, <1>5, <1>6, <1>7, KnownKept

(* The mark of the end sets out. *)
LEMMA EndCounts ==
    ASSUME IInv, CountInv, Counting', import_end_of_stream
    PROVE  Books' /\ \A u \in Threads : Known(u)'
  <1>1. /\ pc[Importer] = "fill" /\ framecount = setup.source
        /\ attributes' = [attributes EXCEPT ![hold[Importer]] = {"eos"}]
        /\ Put(NextStage, hold[Importer]) /\ Releases(Importer)
        /\ pc' = [pc EXCEPT ![Importer] = "done"]
        /\ UNCHANGED <<setup, id, framecount, encoded, wanted, doubled>>
    BY DEF import_end_of_stream, Goto, history
  <1>2. "fill" \in HoldsAt \ DupAt /\ Importer \in Threads /\ Importer # Encoder
    BY DEF HoldsAt, DupAt, Threads, Importer, Encoder
  <1>3. hold[Importer] \in Frames /\ \A u \in Threads : Known(u)
    BY <1>1, <1>2, CountedPut
  <1>4. PICK f \in Frames : f = hold[Importer]
    BY <1>3
  <1>5. PICK S \in {"READY", "WAIT"} : S = NextStage
    BY DEF NextStage
  <1>6. S = "WAIT" => Team # {}
    BY <1>5 DEF NextStage
  <1>7. /\ attributes'[f] = {"eos"}
        /\ \A g \in Frames : g # f => attributes'[g] = attributes[g]
    BY <1>1, <1>4 DEF CountInv, Kinds
  <1>8. PICK j : j = id[f]
    OBVIOUS
  <1>9. j = setup.source /\ j \notin 0 .. setup.source - 1
    <2>1. setup.source \in Nat
      BY SourceNat DEF IInv, InRing
    <2>2. id[f] = framecount
      BY <1>1, <1>2, <1>3, <1>4 DEF Known
    <2> QED
      BY <1>1, <1>8, <2>1, <2>2
  <1>10. GivesAway(Importer, "done", f, S)
    BY <1>1, <1>2, <1>4, <1>5, <1>6 DEF GivesAway
  <1>11. Settled(Importer, f, S, {"eos"}, j)
    BY <1>1, <1>7, <1>8, <1>9 DEF Settled
  <1> QED
    BY <1>10, <1>11, PutCounts

(* A worker drops the frame it has, which is skipped; ...                  *)
LEMMA DropCounts ==
    ASSUME IInv, CountInv, Counting', NEW w \in Workers, drop_frame(w)
    PROVE  Books' /\ \A u \in Threads : Known(u)'
  <1>1. /\ pc[w] = "drop" /\ Put("NULL", hold[w]) /\ Releases(w)
        /\ pc' = [pc EXCEPT ![w] = "loop"]
        /\ UNCHANGED <<setup, id, attributes, framecount, encoded, wanted, doubled>>
    BY DEF drop_frame, Goto, control, history
  <1>2. "drop" \in HoldsAt \ DupAt /\ w \in Threads /\ w # Importer /\ w # Encoder
    BY WorkersAssumption DEF HoldsAt, DupAt, Threads
  <1>3. hold[w] \in Frames /\ Books /\ \A u \in Threads : Known(u)
    BY <1>1, <1>2, CountedPut
  <1>4. PICK f \in Frames : f = hold[w]
    BY <1>3
  <1>5. PICK j : j = id[f]
    OBVIOUS
  <1>6. j \in 0 .. setup.source - 1 => Account(j, 0)'
    <2>1. Rest(f) = 0
      BY <1>1, <1>2, <1>3, <1>4 DEF Known, Rest, Times
    <2>2. Underway(f)
      BY <1>4 DEF Underway
    <2>3. j \in 0 .. setup.source - 1 => Account(j, 0)
      BY <1>3, <1>5, <2>1, <2>2 DEF Books, Accounted
    <2> QED
      BY <1>1, <2>3 DEF Account, Count
  <1>7. GivesAway(w, "loop", f, "NULL")
    BY <1>1, <1>2, <1>4 DEF GivesAway
  <1>8. Settled(w, f, "NULL", attributes[f], j)
    BY <1>1, <1>2, <1>5, <1>6 DEF Settled
  <1> QED
    BY <1>7, <1>8, PutCounts

(* The marks of a frame that is underway, and its account, once a worker   *)
(* has let its filters loose on it.                                        *)
LEMMA FilteredAccount ==
    ASSUME Kinds, Books, encoded \in Seq(Int), encoded' = encoded,
           NEW f \in Frames, Underway(f), hold[Encoder] # f,
           NEW b, Grown(attributes[f], b), Remark(f, b), NEW j, j = id[f]
    PROVE  /\ attributes'[f] = b /\ \A g \in Frames : g # f => attributes'[g] = attributes[g]
           /\ \A i \in Ids : i # j => wanted'[i] = wanted[i]
           /\ j \in 0 .. setup.source - 1 => Account(j, Times(b))'
           /\ j = setup.source => b = {"eos"}
           /\ "eos" \in b => j = setup.source /\ b = {"eos"}
  <1>1. /\ attributes'[f] = b /\ \A g \in Frames : g # f => attributes'[g] = attributes[g]
        /\ wanted'[j] = wanted[j] + (Times(b) - Times(attributes[f]))
        /\ \A i \in Ids : i # j => wanted'[i] = wanted[i]
    BY Remarked
  <1>2. ASSUME j \in 0 .. setup.source - 1 PROVE Account(j, Times(b))'
    <2>1. Account(j, Times(attributes[f]))
      BY <1>2 DEF Books, Accounted, Rest
    <2>2. Count(j) \in Nat
      BY CountNat
    <2>3. Count(j)' = Count(j)
      BY DEF Count
    <2>4. wanted[j] \in Int /\ Times(b) \in Int /\ Times(attributes[f]) \in Int
      BY WantsInt DEF Times
    <2> QED
      BY <1>1, <2>1, <2>2, <2>3, <2>4 DEF Account
  <1>3. Marked(f)
    BY DEF Books
  <1>4. j = setup.source => b = {"eos"}
    BY <1>3 DEF Marked, Grown
  <1>5. "eos" \in b => j = setup.source /\ b = {"eos"}
    <2>1. "eos" \in b => "eos" \in attributes[f]
      BY DEF Grown
    <2> QED
      BY <1>3, <2>1 DEF Marked, Grown
  <1> QED
    BY <1>1, <1>2, <1>4, <1>5

(* ... or makes it ready. *)
LEMMA DoneCounts ==
    ASSUME IInv, OrderInv, CountInv, Counting', NEW w \in Workers, process_done(w)
    PROVE  Books' /\ \A u \in Threads : Known(u)'
  <1>1. /\ pc[w] = "post" /\ Releases(w) /\ pc' = [pc EXCEPT ![w] = "loop"]
        /\ UNCHANGED <<setup, id, framecount, encoded, doubled>>
    BY DEF process_done, Goto, control
  <1>2. "post" \in HoldsAt \ DupAt /\ w \in Threads /\ Encoder \in Threads /\ w # Importer /\ w # Encoder
    BY WorkersAssumption DEF HoldsAt, DupAt, Threads
  <1>3. /\ hold[w] \in Frames /\ Books
        /\ hold[Encoder] # hold[w]
    BY <1>1, <1>2, CountedPut
  <1>4. PICK f \in Frames : f = hold[w]
    BY <1>3
  <1>5. PICK b \in Filtered("OM", f, {attributes[f]}) :
            Remark(f, b) /\ Put(IF "skipped" \in b THEN "NULL" ELSE "READY", f)
    BY <1>4 DEF process_done
  <1>6. PICK S \in {"NULL", "READY"} : Put(S, f) /\ (S = "NULL" <=> "skipped" \in b)
    BY <1>5
  <1>7. Grown(attributes[f], b) /\ Underway(f)
    BY <1>4, GrownBy DEF Underway
  <1>8. PICK j : j = id[f]
    OBVIOUS
  <1>9. Kinds /\ encoded \in Seq(Int)
    BY DEF CountInv, OrderInv, Numbers
  <1>10. /\ attributes'[f] = b /\ \A g \in Frames : g # f => attributes'[g] = attributes[g]
         /\ \A i \in Ids : i # j => wanted'[i] = wanted[i]
         /\ j \in 0 .. setup.source - 1 => Account(j, Times(b))'
         /\ j = setup.source => b = {"eos"}
         /\ "eos" \in b => j = setup.source /\ b = {"eos"}
    BY <1>1, <1>3, <1>4, <1>5, <1>7, <1>8, <1>9, FilteredAccount
  <1>11. j \in 0 .. setup.source - 1 =>
             /\ w # Importer
             /\ S = "NULL" => Account(j, 0)'
             /\ S # "NULL" => Account(j, Times(b))'
    <2>1. S = "NULL" => Times(b) = 0
      BY <1>6 DEF Times
    <2> QED
      BY <1>2, <1>10, <2>1 DEF Account
  <1>12. GivesAway(w, "loop", f, S)
    BY <1>1, <1>2, <1>4, <1>6 DEF GivesAway
  <1>13. Settled(w, f, S, b, j)
    BY <1>8, <1>10, <1>11 DEF Settled
  <1> QED
    BY <1>12, <1>13, PutCounts

(* A worker claims a frame. *)
LEMMA ReserveCounts ==
    ASSUME IInv, OrderInv, CountInv, Counting', NEW w \in Workers, vframe_reserve(w)
    PROVE  Books' /\ \A u \in Threads : Known(u)'
  <1>0. /\ Hands /\ InRing /\ Kinds /\ encoded \in Seq(Int)
        /\ setup.source \in Nat /\ framecount \in Int
    BY SourceNat DEF IInv, InRing, CountInv, Kinds, Ids, OrderInv, Numbers
  <1>1. PICK f \in Frames :
          /\ Got(w, f) /\ Holds(w, f)
          /\ \E b \in IF "skipped" \in attributes[f] THEN {attributes[f]}
                                           ELSE Filtered("EM", f, {attributes[f]}) :
                /\ Remark(f, b)
                /\ Goto(w, IF "skipped" \in b THEN "drop"
                           ELSE IF "is_cloned" \in b THEN "dup" ELSE "post")
    BY DEF vframe_reserve
  <1>2. PICK b \in IF "skipped" \in attributes[f] THEN {attributes[f]}
                                           ELSE Filtered("EM", f, {attributes[f]}) :
                /\ Remark(f, b)
                /\ Goto(w, IF "skipped" \in b THEN "drop"
                           ELSE IF "is_cloned" \in b THEN "dup" ELSE "post")
    BY <1>1
  <1>3. Grown(attributes[f], b)
    <2>1. CASE b = attributes[f]
      BY <2>1 DEF Grown
    <2>2. CASE b \in Filtered("EM", f, {attributes[f]})
      BY <2>2, GrownBy
    <2> QED
      BY <1>2, <2>1, <2>2
  <1>4. PICK l \in {"drop", "dup", "post"} :
            /\ pc' = [pc EXCEPT ![w] = l]
            /\ l = "drop" => "skipped" \in b
            /\ l = "dup" => "is_cloned" \in b
    BY <1>2 DEF Goto
  <1>5. pc[w] = "reserve" /\ UNCHANGED <<setup, id, framecount, encoded, doubled>>
    BY DEF vframe_reserve
  <1>6. /\ w \in Threads /\ Encoder \in Threads /\ w # Importer /\ w # Encoder
        /\ "reserve" \notin HoldsAt /\ ClaimsFrom(w) = "WAIT"
    BY <1>5, WorkersAssumption DEF Threads, HoldsAt, ClaimsFrom
  <1>7. hold[w] = NULL /\ doubled = {} /\ Team # {}
    BY <1>0, <1>5, <1>6 DEF Hands, Counting, OneWay, OrderInv, InTeam
  <1>8. /\ Underway(f) /\ Underway(f)'
        /\ hold[Encoder] # f /\ hold'[Encoder] # f
        /\ \A u \in Threads : u # w => hold'[u] = hold[u]
        /\ \A g \in Frames : g # f =>
               (Underway(g)' <=> Underway(g)) /\ (hold'[Encoder] = g <=> hold[Encoder] = g)
    BY <1>1, <1>5, <1>6, <1>7, Taken
  <1>9. /\ Counting /\ pc'[w] = l /\ \A u \in Threads : u # w => pc'[u] = pc[u]
    BY <1>0, <1>4, <1>5, <1>6, <1>8, CountingKept DEF DupAt
  <1>10. Books /\ \A u \in Threads : Known(u)
    BY <1>9 DEF CountInv
  <1>11. PICK j : j = id[f]
    OBVIOUS
  <1>12. PICK n : n = Times(b)
    OBVIOUS
  <1>13. /\ attributes'[f] = b /\ \A g \in Frames : g # f => attributes'[g] = attributes[g]
         /\ \A i \in Ids : i # j => wanted'[i] = wanted[i]
         /\ j \in 0 .. setup.source - 1 => Account(j, Times(b))'
         /\ j = setup.source => b = {"eos"}
         /\ "eos" \in b => j = setup.source /\ b = {"eos"}
    BY <1>0, <1>2, <1>3, <1>5, <1>8, <1>10, <1>11, FilteredAccount
  <1>14. Books'
    <2>1. j \in 0 .. setup.source - 1 => Underway(f) /\ Account(j, n)'
      BY <1>8, <1>12, <1>13 DEF Account
    <2>2. Rest(f)' = n /\ Marked(f)'
      BY <1>5, <1>8, <1>11, <1>12, <1>13 DEF Rest, Marked
    <2>3. \A i \in 0 .. setup.source - 1 : i # j => wanted'[i] = wanted[i] /\ Count(i)' = Count(i)
      BY <1>0, <1>5, <1>13 DEF Ids, Count
    <2> QED
      BY <1>0, <1>5, <1>8, <1>10, <1>11, <1>13, <2>1, <2>2, <2>3, OneMoves
  <1>15. hold'[w] = f
    BY <1>0, <1>1, <1>6 DEF InRing, Holds
  <1>16. Known(w)'
    <2>1. l = "dup" => id[f] # setup.source
      BY <1>4, <1>11, <1>13
    <2> QED
      BY <1>4, <1>5, <1>6, <1>9, <1>13, <1>15, <2>1 DEF Known
  <1>17. \A u \in Threads : u # w =>
             /\ pc'[u] = pc[u] /\ hold'[u] = hold[u]
             /\ pc[u] \in HoldsAt => /\ attributes'[hold[u]] = attributes[hold[u]]
                                     /\ id'[hold[u]] = id[hold[u]]
    <2>1. \A u \in Threads : hold[u] # f
      <3>1. "WAIT" \in Stages
        BY DEF Stages
      <3> QED
        BY <1>1, <1>5, <1>6, <1>7, <3>1, GotPlaces
    <2> QED
      BY <1>5, <1>8, <1>9, <1>13, <2>1, HeldFrame
  <1> QED
    BY <1>5, <1>6, <1>10, <1>14, <1>16, <1>17, KnownKept

(* The encoder gives its frame back: to be seen again as a clone, or free. *)
LEMMA GiveBackCounts ==
    ASSUME IInv, OrderInv, CountInv, Counting', requeue \/ encoder_dispose_vframe
    PROVE  Books' /\ \A u \in Threads : Known(u)'
  <1>0. Hands /\ InRing /\ Reinjectable /\ Encoder \in Threads /\ Encoder # Importer
        /\ {"requeue", "dispose"} \subseteq HoldsAt \ DupAt
    BY DEF IInv, OrderInv, Threads, Encoder, Importer, HoldsAt, DupAt
  <1>1. /\ pc[Encoder] \in {"requeue", "dispose", "dispose_last"}
        /\ give_back(hold[Encoder]) /\ Releases(Encoder)
        /\ UNCHANGED <<setup, id, framecount, encoded, wanted, doubled>>
    BY DEF requeue, encoder_dispose_vframe, control, history
  <1>2. PICK l \in {"loop", "retrieve"} :
            pc[Encoder] \in {"requeue", "dispose"} /\ pc' = [pc EXCEPT ![Encoder] = l]
    <2>1. pc[Encoder] # "dispose_last"
      <3>1. SUFFICES ASSUME pc[Encoder] = "dispose_last" PROVE FALSE
        OBVIOUS
      <3>2. pc'[Encoder] = "stop"
        BY <1>0, <3>1 DEF requeue, encoder_dispose_vframe, Goto, Hands
      <3> QED
        BY <3>2 DEF Counting, Encoding, AtTheEnd
    <2> QED
      BY <1>1, <2>1 DEF requeue, encoder_dispose_vframe, Goto
  <1>3. /\ hold[Encoder] \in Frames /\ Books /\ (\A u \in Threads : Known(u)) /\ doubled = {}
    BY <1>0, <1>1, <1>2, CountedPut
  <1>4. PICK f \in Frames : f = hold[Encoder]
    BY <1>3
  <1>5. PICK j : j = id[f]
    OBVIOUS
  <1>6. j # setup.source /\ "eos" \notin attributes[f] /\ Underway(f)
    <2>1. Underway(f)
      BY <1>4 DEF Underway
    <2>2. Marked(f)
      BY <1>3, <2>1 DEF Books
    <2> QED
      BY <1>0, <1>2, <1>3, <1>4, <1>5, <2>1, <2>2 DEF Known, Marked
  <1>7. j \in 0 .. setup.source - 1 => Account(j, Rest(f))
    BY <1>3, <1>5, <1>6 DEF Books, Accounted
  <1>8. status[f] = "READY"
    BY <1>3, <1>4, FramesAssumption, <1>0 DEF Reinjectable
  <1>9. CASE "is_cloned" \in attributes[f]
    <2> DEFINE b == (attributes[f] \ {"is_cloned"}) \union {"was_cloned"}
    <2>1. Put("READY", f) /\ attributes' = [attributes EXCEPT ![f] = b]
      BY <1>1, <1>4, <1>8, <1>9 DEF give_back
    <2>2. Rest(f) = Times(b)
      BY <1>0, <1>2, <1>3, <1>4, <1>9 DEF Known, Rest, Times
    <2>3. "eos" \notin b
      BY <1>6
    <2>4. attributes'[f] = b /\ \A g \in Frames : g # f => attributes'[g] = attributes[g]
      BY <2>1 DEF CountInv, Kinds
    <2> HIDE DEF b
    <2>5. PICK c : c = b
      OBVIOUS
    <2>6. j \in 0 .. setup.source - 1 => Account(j, Times(c))'
      BY <1>1, <1>7, <2>2, <2>5 DEF Account, Count
    <2>7. GivesAway(Encoder, l, f, "READY")
      BY <1>0, <1>1, <1>2, <1>4, <2>1 DEF GivesAway
    <2>8. Settled(Encoder, f, "READY", c, j)
      BY <1>0, <1>1, <1>5, <1>6, <2>3, <2>4, <2>5, <2>6 DEF Settled
    <2> QED
      BY <2>7, <2>8, PutCounts
  <1>10. CASE "is_cloned" \notin attributes[f]
    <2>1. Put("NULL", f) /\ attributes' = attributes
      BY <1>1, <1>4, <1>10 DEF give_back
    <2>2. Rest(f) = 0
      BY <1>0, <1>2, <1>3, <1>4, <1>10 DEF Known, Rest, Times
    <2>3. j \in 0 .. setup.source - 1 => Account(j, 0)'
      BY <1>1, <1>7, <2>2 DEF Account, Count
    <2>4. GivesAway(Encoder, l, f, "NULL")
      BY <1>0, <1>1, <1>2, <1>4, <2>1 DEF GivesAway
    <2>5. Settled(Encoder, f, "NULL", attributes[f], j)
      BY <1>0, <1>1, <1>5, <2>1, <2>3 DEF Settled
    <2> QED
      BY <2>4, <2>5, PutCounts
  <1> QED
    BY <1>9, <1>10

(* What the encoder makes of a frame with the filtered marks b: it leaves  *)
(* the marks c, is to encode it n times more, and goes on at l.            *)
Outcome(f, b, c, n, l) ==
    \/ /\ l = "requeue" /\ "skipped" \in b /\ c = b /\ n = 0 /\ encoded' = encoded
       /\ wanted' = [wanted EXCEPT ![id[f]] = Wants(f, attributes[f], b)]
    \/ /\ l = "dispose" /\ "skipped" \notin b /\ c = {} /\ n = 0
       /\ encoded' = Append(encoded, id[f])
       /\ wanted' = [wanted EXCEPT ![id[f]] = Wants(f, attributes[f], b)]
    \/ /\ l = "dispose" /\ "skipped" \notin b /\ c = b /\ n = Times(b) - 1 /\ encoded' = encoded
       /\ wanted' = [wanted EXCEPT ![id[f]] = Wants(f, attributes[f], b) - 1]

LEMMA OutcomeCounts ==
    ASSUME Kinds, encoded \in Seq(Int), NEW f \in Frames,
           NEW b, Grown(attributes[f], b), NEW c, NEW n, NEW l, Outcome(f, b, c, n, l)
    PROVE  /\ \A i \in Ids : i # id[f] => wanted'[i] = wanted[i] /\ Count(i)' = Count(i)
           /\ \A j \in Ids : j = id[f] /\ Account(j, Times(attributes[f])) => Account(j, n)'
           /\ n = IF "skipped" \in c THEN Times(c) ELSE Times(c) - 1
  <1>0. /\ wanted \in [Ids -> Int] /\ id[f] \in Ids /\ id[f] \in Int
        /\ Wants(f, attributes[f], b) = wanted[id[f]] + Times(b) - Times(attributes[f])
        /\ wanted[id[f]] \in Int /\ Wants(f, attributes[f], b) \in Int
        /\ Times(b) \in {0, 1, 2} /\ Times(attributes[f]) \in {0, 1, 2} /\ Times({}) = 1
        /\ ("skipped" \in b <=> Times(b) = 0)
    <2>1. wanted[id[f]] \in Int /\ Wants(f, attributes[f], b) \in Int
      BY WantsInt
    <2>2. Wants(f, attributes[f], b) = wanted[id[f]] + Times(b) - Times(attributes[f])
      BY <2>1, WantsTimes
    <2>3. id[f] \in Ids /\ id[f] \in Int
      BY DEF Kinds, Ids
    <2> QED
      BY <2>1, <2>2, <2>3 DEF Kinds, Times
  <1>1. \A i \in Ids : i # id[f] => wanted'[i] = wanted[i]
    BY <1>0 DEF Outcome
  <1>2. \A i : Count(i) \in Nat
    BY CountNat
  <1>3. \A i : encoded' = encoded => Count(i)' = Count(i)
    BY DEF Count
  <1>4. \A i : encoded' = Append(encoded, id[f]) =>
            Count(i)' = Count(i) + (IF i = id[f] THEN 1 ELSE 0)
    BY <1>0, CountAppended
  <1>5. \A i \in Ids : i # id[f] => Count(i)' = Count(i)
    BY <1>2, <1>3, <1>4 DEF Outcome
  <1>6. ASSUME NEW j \in Ids, j = id[f], Account(j, Times(attributes[f])) PROVE Account(j, n)'
    <2>1. CASE encoded' = encoded /\ l = "requeue"
      <3>1. n = 0 /\ Times(b) = 0 /\ wanted'[j] = wanted[j] + Times(b) - Times(attributes[f])
        BY <1>0, <1>6, <2>1 DEF Outcome
      <3> QED
        BY <1>0, <1>2, <1>3, <1>6, <2>1, <3>1 DEF Account
    <2>2. CASE encoded' = Append(encoded, id[f]) /\ l = "dispose" /\ n = 0 /\ Times(b) >= 1
               /\ wanted' = [wanted EXCEPT ![id[f]] = Wants(f, attributes[f], b)]
      <3>1. wanted'[j] = wanted[j] + Times(b) - Times(attributes[f])
        BY <1>0, <1>6, <2>2
      <3>2. Count(j)' = Count(j) + 1
        BY <1>4, <1>6, <2>2
      <3> QED
        BY <1>0, <1>2, <1>6, <2>2, <3>1, <3>2 DEF Account
    <2>3. CASE encoded' = encoded /\ l = "dispose" /\ n = Times(b) - 1
               /\ wanted' = [wanted EXCEPT ![id[f]] = Wants(f, attributes[f], b) - 1]
      <3>1. wanted'[j] = wanted[j] + Times(b) - Times(attributes[f]) - 1
        BY <1>0, <1>6, <2>3
      <3>2. Count(j)' = Count(j) /\ Count(j) \in Nat
        BY <1>2, <1>3, <2>3
      <3>3. Times(b) \in Int /\ Times(attributes[f]) \in Int /\ wanted[j] \in Int
        BY <1>0, <1>6
      <3> QED
        BY <1>6, <2>3, <3>1, <3>2, <3>3 DEF Account
    <2> QED
      BY <1>0, <2>1, <2>2, <2>3 DEF Outcome
  <1>7. n = IF "skipped" \in c THEN Times(c) ELSE Times(c) - 1
    <2>1. CASE c = {} /\ n = 0
      BY <1>0, <2>1
    <2>2. CASE c = b /\ "skipped" \in b /\ n = 0
      BY <1>0, <2>2
    <2>3. CASE c = b /\ "skipped" \notin b /\ n = Times(b) - 1
      BY <2>3
    <2> QED
      BY <2>1, <2>2, <2>3 DEF Outcome
  <1> QED
    BY <1>1, <1>5, <1>6, <1>7

(* The encoder claims a frame, and encodes it or not. *)
LEMMA RetrieveCounts ==
    ASSUME IInv, OrderInv, CountInv, Counting', vframe_retrieve
    PROVE  Books' /\ \A u \in Threads : Known(u)'
  <1>0. /\ Hands /\ InRing /\ Kinds /\ encoded \in Seq(Int)
        /\ setup.source \in Nat /\ framecount \in Int
    BY SourceNat DEF IInv, InRing, CountInv, Kinds, Ids, OrderInv, Numbers
  <1>1. PICK f \in Frames :
          /\ Got(Encoder, f) /\ Holds(Encoder, f)
          /\ IF "eos" \in attributes[f]
             THEN /\ attributes' = [attributes EXCEPT ![f] = @ \ {"eos"}]
                  /\ Goto(Encoder, "dispose_last")
                  /\ UNCHANGED <<encoded, wanted>>
             ELSE \E b \in EncoderFiltered(f, attributes[f]) :
                    \/ Goto(Encoder, "dispose_last")
                    \/ \E c \in {b, {}}, n \in {0, Times(b) - 1}, l \in {"requeue", "dispose"} :
                        /\ Outcome(f, b, c, n, l)
                        /\ attributes' = [attributes EXCEPT ![f] = c] /\ Goto(Encoder, l)
    BY DEF vframe_retrieve, Outcome
  <1>2. PICK l \in {"dispose_last", "dispose", "requeue"} : pc' = [pc EXCEPT ![Encoder] = l]
    BY <1>1 DEF Goto
  <1>3. pc[Encoder] = "retrieve" /\ UNCHANGED <<setup, id, framecount, doubled>>
    BY DEF vframe_retrieve, control
  <1>4. /\ Encoder \in Threads /\ Encoder # Importer
        /\ "retrieve" \notin HoldsAt \union DupAt /\ ClaimsFrom(Encoder) = "READY"
    BY DEF Threads, HoldsAt, DupAt, ClaimsFrom, Importer, Encoder
  <1>5. hold[Encoder] = NULL /\ doubled = {}
    BY <1>0, <1>3, <1>4 DEF Hands, Counting, OneWay
  <1>6. /\ Underway(f) /\ Underway(f)' /\ hold[Encoder] # f /\ hold'[Encoder] = f
        /\ \A u \in Threads : u # Encoder => hold'[u] = hold[u]
        /\ \A g \in Frames : g # f =>
               (Underway(g)' <=> Underway(g)) /\ (hold'[Encoder] = g <=> hold[Encoder] = g)
    BY <1>1, <1>3, <1>4, <1>5, Taken
  <1>7. /\ Counting /\ pc'[Encoder] = l /\ \A u \in Threads : u # Encoder => pc'[u] = pc[u]
    BY <1>0, <1>2, <1>3, <1>4, CountingKept
  <1>8. Books /\ \A u \in Threads : Known(u)
    BY <1>7 DEF CountInv
  <1>9. PICK j \in Ids : j = id[f]
    BY <1>0 DEF Kinds
  <1>10. /\ Marked(f)
         /\ j \in 0 .. setup.source - 1 => Account(j, Times(attributes[f]))
    BY <1>6, <1>8, <1>9 DEF Books, Accounted, Rest
  <1>11. \A u \in Threads : hold[u] # f
    <2>1. "READY" \in Stages
      BY DEF Stages
    <2> QED
      BY <1>1, <1>3, <1>4, <1>5, <2>1, GotPlaces
  <1>12. ASSUME NEW c, attributes' = [attributes EXCEPT ![f] = c], "eos" \notin c,
                NEW n, n = IF "skipped" \in c THEN Times(c) ELSE Times(c) - 1,
                \A i \in Ids : i # j => wanted'[i] = wanted[i] /\ Count(i)' = Count(i),
                j \in 0 .. setup.source - 1 => Account(j, n)',
                l = "requeue" => "skipped" \in c /\ j # setup.source,
                l = "dispose" => "skipped" \notin c /\ j # setup.source
         PROVE  Books' /\ \A u \in Threads : Known(u)'
    <2>1. attributes'[f] = c /\ \A g \in Frames : g # f => attributes'[g] = attributes[g]
      BY <1>0, <1>12 DEF Kinds
    <2>2. Rest(f)' = n /\ Marked(f)'
      BY <1>6, <1>12, <2>1 DEF Rest, Marked
    <2>3. \A i \in 0 .. setup.source - 1 : i # j => wanted'[i] = wanted[i] /\ Count(i)' = Count(i)
      BY <1>0, <1>12 DEF Ids
    <2>4. Books'
      <3>1. setup.source \in Nat /\ framecount \in Int /\ j = id[f] /\ Books
        BY <1>0, <1>8, <1>9
      <3>2. \A g \in Frames : g # f =>
                /\ Underway(g)' <=> Underway(g)
                /\ attributes'[g] = attributes[g]
                /\ hold'[Encoder] = g <=> hold[Encoder] = g
        BY <1>6, <2>1
      <3>3. j \in 0 .. setup.source - 1 => Underway(f) /\ Account(j, n)'
        BY <1>6, <1>12
      <3>4. (Underway(f)' => Rest(f)' = n /\ Marked(f)') /\ (~Underway(f)' => n = 0)
        BY <1>6, <2>2
      <3> QED
        BY <1>3, <2>3, <3>1, <3>2, <3>3, <3>4, OneMoves
    <2>5. Known(Encoder)'
      BY <1>2, <1>3, <1>4, <1>6, <1>7, <1>9, <1>12, <2>1 DEF Known
    <2>6. \A u \in Threads : u # Encoder =>
              /\ pc'[u] = pc[u] /\ hold'[u] = hold[u]
              /\ pc[u] \in HoldsAt => /\ attributes'[hold[u]] = attributes[hold[u]]
                                      /\ id'[hold[u]] = id[hold[u]]
      BY <1>3, <1>6, <1>7, <1>11, <2>1, HeldFrame
    <2> QED
      BY <1>3, <1>4, <1>8, <2>4, <2>5, <2>6, KnownKept
  <1>13. CASE "eos" \in attributes[f]
    <2>1. /\ attributes' = [attributes EXCEPT ![f] = {}] /\ Goto(Encoder, "dispose_last")
          /\ UNCHANGED <<encoded, wanted>> /\ j = setup.source
      BY <1>1, <1>9, <1>10, <1>13 DEF Marked
    <2>2. l = "dispose_last"
      BY <1>0, <1>2, <1>4, <2>1 DEF Goto, Hands
    <2>3. Times({}) - 1 = 0 /\ j \notin 0 .. setup.source - 1
      BY <1>0, <2>1 DEF Times
    <2>4. \A i \in Ids : i # j => wanted'[i] = wanted[i] /\ Count(i)' = Count(i)
      BY <2>1 DEF Count
    <2> QED
      BY <1>12, <2>1, <2>2, <2>3, <2>4
  <1>14. CASE "eos" \notin attributes[f]
    <2>1. j # setup.source
      BY <1>6, <1>9, <1>10, <1>14 DEF Marked
    <2>2. l # "dispose_last"
      BY <1>3, <1>4, <1>6, <1>7, <1>9, <2>1 DEF Counting, Encoding, AtTheEnd
    <2>3. PICK b \in EncoderFiltered(f, attributes[f]) :
             \/ Goto(Encoder, "dispose_last")
             \/ \E c \in {b, {}}, n \in {0, Times(b) - 1}, k \in {"requeue", "dispose"} :
                 /\ Outcome(f, b, c, n, k)
                 /\ attributes' = [attributes EXCEPT ![f] = c] /\ Goto(Encoder, k)
      BY <1>1, <1>14
    <2>4. ~Goto(Encoder, "dispose_last")
      BY <1>0, <1>4, <1>7, <2>2 DEF Goto, Hands
    <2>5. PICK c \in {b, {}}, n \in {0, Times(b) - 1}, k \in {"requeue", "dispose"} :
                 /\ Outcome(f, b, c, n, k)
                 /\ attributes' = [attributes EXCEPT ![f] = c] /\ Goto(Encoder, k)
      BY <2>3, <2>4
    <2>6. k = l
      BY <1>0, <1>4, <1>7, <2>5 DEF Goto, Hands
    <2>7. Grown(attributes[f], b)
      BY GrownByAll
    <2>8. "eos" \notin c
      BY <1>14, <2>5, <2>7 DEF Grown
    <2>9. /\ \A i \in Ids : i # j => wanted'[i] = wanted[i] /\ Count(i)' = Count(i)
          /\ Account(j, Times(attributes[f])) => Account(j, n)'
          /\ n = IF "skipped" \in c THEN Times(c) ELSE Times(c) - 1
      BY <1>0, <1>9, <2>5, <2>7, OutcomeCounts
    <2>10. /\ l = "requeue" => "skipped" \in c
           /\ l = "dispose" => "skipped" \notin c
      BY <2>5, <2>6 DEF Outcome
    <2> QED
      BY <1>10, <1>12, <2>1, <2>2, <2>5, <2>8, <2>9, <2>10
  <1> QED
    BY <1>13, <1>14

-----------------------------------------------------------------------------
(* A worker that has a duplicate did not make it of the mark of the end.   *)

LEMMA EndStays ==
    ASSUME IInv, CountInv, setup' = setup, doubled \subseteq doubled',
           NEW t \in Threads, NEW l, pc' = [pc EXCEPT ![t] = l],
           t = Encoder => \/ pc[Encoder] \in {"loop", "retrieve", "requeue", "dispose"}
                          \/ l \notin {"loop", "retrieve", "requeue", "dispose", "dispose_last"},
           l \in DupAt => pc[t] \in DupAt /\ hold' = hold,
           \A u \in Threads : u # t => hold'[u] = hold[u],
           doubled = {} => \A u \in Threads : pc[u] \in HoldsAt => id'[hold[u]] = id[hold[u]]
    PROVE  EndNotDoubled'
  <1> SUFFICES ASSUME OneWay', Encoding', NEW w \in Workers, pc'[w] \in DupAt
               PROVE  id'[hold'[w]] # setup.source
    BY DEF EndNotDoubled
  <1>1. /\ pc'[t] = l /\ \A u \in Threads : u # t => pc'[u] = pc[u]
        /\ w \in Threads /\ Encoder \in Threads /\ DupAt \subseteq HoldsAt
    BY DEF IInv, Hands, Threads, DupAt, HoldsAt
  <1>2. OneWay /\ doubled = {}
    BY DEF OneWay, Team
  <1>3. Encoding
    <2>1. CASE t = Encoder
      BY <1>1, <2>1 DEF Encoding, AtTheEnd
    <2>2. CASE t # Encoder
      BY <1>1, <1>2, <2>2 DEF Encoding, AtTheEnd, HoldsAt
    <2> QED
      BY <2>1, <2>2
  <1>4. pc[w] \in DupAt /\ hold'[w] = hold[w]
    BY <1>1
  <1>5. id[hold[w]] # setup.source
    BY <1>2, <1>3, <1>4 DEF CountInv, EndNotDoubled
  <1> QED
    BY <1>1, <1>2, <1>4, <1>5

LEMMA EndStutters ==
    ASSUME CountInv, UNCHANGED <<setup, pc, hold, id, doubled>>
    PROVE  EndNotDoubled'
  BY DEF CountInv, EndNotDoubled, OneWay, Team, Encoding, AtTheEnd

LEMMA EndImport ==
    ASSUME IInv, CountInv, Import
    PROVE  EndNotDoubled'
  <1>0. InRing /\ Hands /\ Importer \in Threads /\ Importer # Encoder
    BY DEF IInv, Threads, Importer, Encoder
  <1>1. CASE vframe_register
    <2>1. PICK f \in Frames : /\ Got(Importer, f) /\ Holds(Importer, f)
                              /\ id' = [id EXCEPT ![f] = framecount]
      BY <1>1 DEF vframe_register
    <2>2. pc' = [pc EXCEPT ![Importer] = "fill"] /\ UNCHANGED <<setup, doubled>>
      BY <1>1 DEF vframe_register, Goto, control, history
    <2>3. ClaimsFrom(Importer) = "NULL" /\ "NULL" \in Stages
      BY DEF ClaimsFrom, Importer, Encoder, Stages
    <2>4. doubled = {} => \A u \in Threads : hold[u] # f
      BY <2>1, <2>2, <2>3, GotPlaces
    <2>5. doubled = {} => \A u \in Threads : pc[u] \in HoldsAt => id'[hold[u]] = id[hold[u]]
      BY <2>1, <2>4, HeldFrame DEF CountInv, Kinds
    <2>6. \A u \in Threads : u # Importer => hold'[u] = hold[u]
      BY <1>0, <2>1 DEF InRing, Holds
    <2> QED
      BY <1>0, <2>2, <2>5, <2>6, EndStays DEF DupAt
  <1>2. CASE get_frame_wait(Importer)
    BY <1>2, EndStutters DEF get_frame_wait, ring, control, history
  <1>3. CASE import_loop \/ vframe_register_interrupted \/ import_frame \/ import_end_of_stream
    <2>1. UNCHANGED <<setup, id, doubled>> /\ (hold' = hold \/ Releases(Importer))
      BY <1>3 DEF import_loop, vframe_register_interrupted, import_frame, import_end_of_stream,
                  ring, control, history
    <2>2. PICK l \in {"register", "done", "loop"} : pc' = [pc EXCEPT ![Importer] = l]
      BY <1>3 DEF import_loop, vframe_register_interrupted, import_frame, import_end_of_stream, Goto
    <2>3. \A u \in Threads : u # Importer => hold'[u] = hold[u]
      BY <1>0, <2>1 DEF InRing, Releases
    <2> QED
      BY <1>0, <2>1, <2>2, <2>3, EndStays DEF DupAt
  <1> QED
    BY <1>1, <1>2, <1>3 DEF Import

LEMMA EndProcess ==
    ASSUME IInv, OrderInv, CountInv, NEW w \in Workers, Process(w)
    PROVE  EndNotDoubled'
  <1>0. InRing /\ Hands /\ w \in Threads /\ w # Encoder /\ w # Importer
    BY WorkersAssumption DEF IInv, Threads
  <1>1. CASE vframe_dup(w)
    <2>1. pc[w] = "dup" /\ pc' = [pc EXCEPT ![w] = "dup_put"] /\ UNCHANGED <<setup, hold, doubled>>
      BY <1>1 DEF vframe_dup, Goto, control, history
    <2>2. PICK f \in Frames : Got(w, f) /\ id' = [id EXCEPT ![f] = id[hold[w]]]
      BY <1>1 DEF vframe_dup
    <2>3. ClaimsFrom(w) = "NULL" /\ "NULL" \in Stages
      BY <1>0, <2>1 DEF ClaimsFrom, Stages
    <2>4. doubled = {} => \A u \in Threads : hold[u] # f
      BY <2>1, <2>2, <2>3, GotPlaces
    <2>5. doubled = {} => \A u \in Threads : pc[u] \in HoldsAt => id'[hold[u]] = id[hold[u]]
      BY <2>2, <2>4, HeldFrame DEF CountInv, Kinds
    <2> SUFFICES ASSUME OneWay', Encoding', NEW v \in Workers, pc'[v] \in DupAt
                 PROVE  id'[hold'[v]] # setup.source
      BY <2>1 DEF EndNotDoubled
    <2>6. /\ pc'[w] = "dup_put" /\ \A u \in Threads : u # w => pc'[u] = pc[u]
          /\ Encoder \in Threads /\ Workers \subseteq Threads
      BY <1>0, <2>1 DEF Hands, Threads
    <2>7. OneWay /\ doubled = {} /\ Encoding
      BY <1>0, <2>1, <2>5, <2>6 DEF OneWay, Team, Encoding, AtTheEnd, HoldsAt
    <2>8. \A u \in Workers : pc[u] # "none" => u = w
      BY <1>0, <2>1, <2>7, OneWorker DEF OneWay, OrderInv, InRing
    <2>9. NoDuplicate
      BY <2>1, <2>8 DEF NoDuplicate, DupAt
    <2>10. id[hold[w]] # setup.source
      BY <1>0, <2>1, <2>7, <2>9 DEF CountInv, Counting, Known
    <2>11. v = w
      BY <2>6, <2>8 DEF DupAt
    <2> QED
      BY <1>0, <2>1, <2>5, <2>7, <2>10, <2>11 DEF HoldsAt
  <1>2. CASE get_frame_wait(w)
    BY <1>2, EndStutters DEF get_frame_wait, ring, control, history
  <1>3. CASE vframe_reserve(w)
    <2>1. UNCHANGED <<setup, id, doubled>> /\ \E f : Holds(w, f)
      BY <1>3 DEF vframe_reserve
    <2>2. PICK l \in {"drop", "dup", "post"} : pc' = [pc EXCEPT ![w] = l]
      BY <1>3 DEF vframe_reserve, Goto
    <2>3. \A u \in Threads : u # w => hold'[u] = hold[u]
      BY <1>0, <2>1 DEF InRing, Holds
    <2> QED
      BY <1>0, <2>1, <2>2, <2>3, EndStays DEF DupAt
  <1>4. CASE vframe_dup_put(w) \/ dup_mark(w)
    <2>1. UNCHANGED <<setup, hold, id, doubled>> /\ pc[w] \in DupAt
      BY <1>4 DEF vframe_dup_put, dup_mark, control, history, DupAt
    <2>2. PICK l \in {"dup_mark", "dup_push"} : pc' = [pc EXCEPT ![w] = l]
      BY <1>4 DEF vframe_dup_put, dup_mark, Goto
    <2> QED
      BY <1>0, <2>1, <2>2, EndStays
  <1>5. CASE process_loop(w) \/ vframe_reserve_interrupted(w) \/ drop_frame(w)
             \/ vframe_dup_interrupted(w) \/ dup_push(w) \/ process_done(w)
    <2>1. UNCHANGED <<setup, id>> /\ doubled \subseteq doubled' /\ (hold' = hold \/ Releases(w))
      BY <1>5 DEF process_loop, vframe_reserve_interrupted, drop_frame, vframe_dup_interrupted,
                  dup_push, process_done, ring, control, history
    <2>2. PICK l \in {"reserve", "done", "loop", "crashed", "post"} : pc' = [pc EXCEPT ![w] = l]
      BY <1>5 DEF process_loop, vframe_reserve_interrupted, drop_frame, vframe_dup_interrupted,
                  dup_push, process_done, Goto
    <2>3. \A u \in Threads : u # w => hold'[u] = hold[u]
      BY <1>0, <2>1 DEF InRing, Releases
    <2> QED
      BY <1>0, <2>1, <2>2, <2>3, EndStays DEF DupAt
  <1> QED
    BY <1>1, <1>2, <1>3, <1>4, <1>5 DEF Process

LEMMA EndExport ==
    ASSUME IInv, CountInv, Export
    PROVE  EndNotDoubled'
  <1>0. InRing /\ Hands /\ Encoder \in Threads
    BY DEF IInv, Threads
  <1>1. CASE export_loop \/ vframe_retrieve \/ vframe_retrieve_interrupted
             \/ requeue \/ encoder_dispose_vframe
    <2>1. /\ UNCHANGED <<setup, id, doubled>>
          /\ \/ hold' = hold \/ Releases(Encoder) \/ \E f : Holds(Encoder, f)
      BY <1>1 DEF export_loop, vframe_retrieve, vframe_retrieve_interrupted, requeue,
                  encoder_dispose_vframe, ring, control, history
    <2>2. PICK l \in {"retrieve", "stop", "dispose_last", "dispose", "requeue", "loop"} :
               /\ pc' = [pc EXCEPT ![Encoder] = l]
               /\ pc[Encoder] \in {"loop", "retrieve", "requeue", "dispose"} \/ l = "stop"
      BY <1>1 DEF export_loop, vframe_retrieve, vframe_retrieve_interrupted, requeue,
                  encoder_dispose_vframe, Goto
    <2>3. \A u \in Threads : u # Encoder => hold'[u] = hold[u]
      BY <1>0, <2>1 DEF InRing, Releases, Holds
    <2> QED
      BY <1>0, <2>1, <2>2, <2>3, EndStays DEF DupAt
  <1>2. CASE get_frame_wait(Encoder)
    BY <1>2, EndStutters DEF get_frame_wait, ring, control, history
  <1>3. CASE tc_stop \/ tc_framebuffer_interrupt(Encoder, "cancel") \/ tc_import_threads_cancel
             \/ join_import \/ tc_frame_threads_close \/ join_workers
    <2>1. UNCHANGED <<setup, hold, id, doubled>>
      BY <1>3 DEF tc_stop, tc_framebuffer_interrupt, tc_import_threads_cancel, join_import,
                  tc_frame_threads_close, join_workers, ring, control, history
    <2>2. PICK l \in {"wake_NULL", "wake_WAIT", "wake_READY", "cancel", "join_import", "close",
                      "join_workers", "ended"} : pc' = [pc EXCEPT ![Encoder] = l]
      BY <1>3 DEF tc_stop, tc_framebuffer_interrupt, tc_import_threads_cancel, join_import,
                  tc_frame_threads_close, join_workers, Goto
    <2> QED
      BY <1>0, <2>1, <2>2, EndStays DEF DupAt
  <1> QED
    BY <1>1, <1>2, <1>3 DEF Export

-----------------------------------------------------------------------------
(* The induction.                                                          *)

LEMMA CountsImport ==
    ASSUME IInv, CountInv, Counting', Import
    PROVE  Books' /\ \A u \in Threads : Known(u)'
  <1>0. Importer \in Threads /\ Importer # Encoder
    BY DEF Threads, Importer, Encoder
  <1>1. CASE import_loop \/ vframe_register_interrupted
    <2>1. /\ pc[Importer] \notin DupAt
          /\ UNCHANGED <<setup, pool, hold, id, attributes, framecount, encoded, wanted, doubled>>
      BY <1>1 DEF import_loop, vframe_register_interrupted, Interrupted, ring, control, history, DupAt
    <2>2. PICK l \in {"register", "done"} : pc' = [pc EXCEPT ![Importer] = l]
      BY <1>1 DEF import_loop, vframe_register_interrupted, Goto
    <2> QED
      BY <1>0, <2>1, <2>2, GoesOnCounted
  <1>2. CASE get_frame_wait(Importer)
    BY <1>2, StuttersCounted DEF get_frame_wait, ring, control, history
  <1> QED
    BY <1>1, <1>2, RegisterCounts, ImportCounts, EndCounts DEF Import

LEMMA CountsProcess ==
    ASSUME IInv, OrderInv, CountInv, Counting', NEW w \in Workers, Process(w)
    PROVE  Books' /\ \A u \in Threads : Known(u)'
  <1>0. Hands /\ w \in Threads /\ w # Encoder
    BY WorkersAssumption DEF IInv, Threads
  <1>1. CASE process_loop(w) \/ vframe_reserve_interrupted(w) \/ vframe_dup_interrupted(w)
    <2>1. /\ pc[w] \notin DupAt
          /\ UNCHANGED <<setup, pool, hold, id, attributes, framecount, encoded, wanted, doubled>>
      BY <1>1 DEF process_loop, vframe_reserve_interrupted, vframe_dup_interrupted, Interrupted,
                  ring, control, history, DupAt
    <2>2. PICK l \in {"reserve", "done", "crashed"} : pc' = [pc EXCEPT ![w] = l]
      BY <1>1 DEF process_loop, vframe_reserve_interrupted, vframe_dup_interrupted, Goto
    <2> QED
      BY <1>0, <2>1, <2>2, GoesOnCounted
  <1>2. CASE get_frame_wait(w)
    BY <1>2, StuttersCounted DEF get_frame_wait, ring, control, history
  <1>3. CASE vframe_dup(w) \/ vframe_dup_put(w) \/ dup_mark(w)
    <2>1. PICK l \in DupAt : pc' = [pc EXCEPT ![w] = l]
      BY <1>3 DEF vframe_dup, vframe_dup_put, dup_mark, Goto, DupAt
    <2>2. pc'[w] \in DupAt
      BY <1>0, <2>1 DEF Hands
    <2> QED
      BY <2>2 DEF Counting, NoDuplicate
  <1>4. CASE dup_push(w)
    <2>1. doubled' # {}
      BY <1>4 DEF dup_push
    <2> QED
      BY <2>1 DEF Counting, OneWay
  <1> QED
    BY <1>1, <1>2, <1>3, <1>4, ReserveCounts, DropCounts, DoneCounts DEF Process

LEMMA CountsExport ==
    ASSUME IInv, OrderInv, CountInv, Counting', Export
    PROVE  Books' /\ \A u \in Threads : Known(u)'
  <1>0. Hands /\ Encoder \in Threads
    BY DEF IInv, Threads
  <1>1. CASE export_loop \/ vframe_retrieve_interrupted
    <2>1. /\ pc[Encoder] \in {"loop", "retrieve"}
          /\ UNCHANGED <<setup, pool, hold, id, attributes, framecount, encoded, wanted, doubled>>
      BY <1>1 DEF export_loop, vframe_retrieve_interrupted, Interrupted, ring, control, history
    <2>2. PICK l \in {"retrieve", "stop"} : pc' = [pc EXCEPT ![Encoder] = l]
      BY <1>1 DEF export_loop, vframe_retrieve_interrupted, Goto
    <2> QED
      BY <1>0, <2>1, <2>2, GoesOnCounted DEF DupAt
  <1>2. CASE get_frame_wait(Encoder)
    BY <1>2, StuttersCounted DEF get_frame_wait, ring, control, history
  <1>3. CASE tc_stop \/ tc_framebuffer_interrupt(Encoder, "cancel") \/ tc_import_threads_cancel
             \/ join_import \/ tc_frame_threads_close \/ join_workers
    <2>1. PICK l \in {"wake_NULL", "wake_WAIT", "wake_READY", "cancel", "join_import", "close",
                      "join_workers", "ended"} : pc' = [pc EXCEPT ![Encoder] = l]
      BY <1>3 DEF tc_stop, tc_framebuffer_interrupt, tc_import_threads_cancel, join_import,
                  tc_frame_threads_close, join_workers, Goto
    <2>2. pc'[Encoder] = l
      BY <1>0, <2>1 DEF Hands
    <2> QED
      BY <2>2 DEF Counting, Encoding, AtTheEnd
  <1> QED
    BY <1>1, <1>2, <1>3, RetrieveCounts, GiveBackCounts DEF Export

LEMMA NextCount == ASSUME IInv, OrderInv, CountInv, [Next]_vars PROVE CountInv'
  <1>0. Hands /\ Event \in Threads /\ Event # Encoder
    BY DEF IInv, Threads, Event, Encoder
  <1>1. Kinds'
    BY KindsNext DEF CountInv
  <1>2. CASE Import
    BY <1>1, <1>2, EndImport, CountsImport DEF CountInv
  <1>3. CASE \E w \in Workers : Process(w)
    <2>1. PICK w \in Workers : Process(w)
      BY <1>3
    <2> QED
      BY <1>1, <2>1, EndProcess, CountsProcess DEF CountInv
  <1>4. CASE Export
    BY <1>1, <1>4, EndExport, CountsExport DEF CountInv
  <1>5. CASE tc_interrupt \/ event_handler
    <2>1. /\ pc[Event] \notin DupAt
          /\ UNCHANGED <<setup, pool, hold, id, attributes, framecount, encoded, wanted, doubled>>
      BY <1>5 DEF tc_interrupt, event_handler, tc_framebuffer_interrupt, ring, control, history, DupAt
    <2>2. PICK l \in {"wake_NULL", "wake_WAIT", "wake_READY", "done"} : pc' = [pc EXCEPT ![Event] = l]
      BY <1>5 DEF tc_interrupt, event_handler, tc_framebuffer_interrupt, Goto
    <2>3. EndNotDoubled'
      BY <1>0, <2>1, <2>2, EndStays DEF DupAt
    <2>4. Counting' => Books' /\ \A u \in Threads : Known(u)'
      BY <1>0, <2>1, <2>2, GoesOnCounted
    <2> QED
      BY <1>1, <2>3, <2>4 DEF CountInv
  <1>6. CASE Ended \/ UNCHANGED vars
    BY <1>1, <1>6, EndStutters, StuttersCounted DEF Ended, vars, CountInv
  <1> QED
    BY <1>2, <1>3, <1>4, <1>5, <1>6 DEF Next

LEMMA InitCount == Init => CountInv
  <1> SUFFICES ASSUME Init PROVE CountInv
    OBVIOUS
  <1>1. /\ setup \in Setups /\ pool["READY"] = <<>> /\ pool["WAIT"] = <<>>
        /\ encoded = <<>> /\ framecount = 0 /\ wanted = [i \in Ids |-> 1]
        /\ \A t \in Threads : hold[t] = NULL /\ pc[t] \in {"none", "loop"}
        /\ id = [f \in Frames |-> 0] /\ attributes = [f \in Frames |-> {}]
    BY DEF Init, Stages, Threads
  <1>2. setup.source \in Nat /\ Encoder \in Threads /\ Workers \subseteq Threads
    BY <1>1, SourceNat DEF Threads
  <1>3. Kinds
    BY <1>1, <1>2 DEF Kinds, Ids
  <1>4. EndNotDoubled
    BY <1>1, <1>2 DEF EndNotDoubled, DupAt
  <1>5. \A f \in Frames : ~Underway(f)
    <2>1. \A f : f \notin Range(<<>>)
      BY DEF Range
    <2> QED
      BY <1>1, <1>2, <2>1, FramesAssumption DEF Underway, Pooled
  <1>6. Books
    <2>1. ASSUME NEW i \in 0 .. setup.source - 1 PROVE Accounted(i)
      <3>1. Count(i) = 0
        <4>1. {k \in DOMAIN encoded : encoded[k] = i} = {}
          BY <1>1
        <4> QED
          BY <4>1, FS_EmptySet DEF Count
      <3>2. wanted[i] = 1 /\ ~(i < framecount)
        BY <1>1, <1>2 DEF Ids
      <3> QED
        BY <1>5, <3>1, <3>2 DEF Accounted
    <2> QED
      BY <1>5, <2>1 DEF Books
  <1>7. \A t \in Threads : Known(t)
    BY <1>1 DEF Known
  <1> QED
    BY <1>3, <1>4, <1>6, <1>7 DEF CountInv

(* With at most one frame thread, and until a duplicate is pushed twice:   *)
(* when the encoder takes the mark of the end, every frame of the source   *)
(* was encoded, except those that the filters or the loop left out, and no *)
(* frame more often than it is wanted.                                     *)
THEOREM NoneIsLost == Spec => []NoneLost
  <1>1. Init => IInv /\ OrderInv /\ CountInv
    BY InitInv, InitOrder, InitCount
  <1>2. (IInv /\ OrderInv /\ CountInv) /\ [Next]_vars => (IInv /\ OrderInv /\ CountInv)'
    BY NextInv, NextInOrder, NextCount
  <1>3. IInv /\ OrderInv /\ CountInv => NoneLost
    <2> SUFFICES ASSUME IInv, OrderInv, CountInv, OneWay, AtTheEnd,
                        NEW i \in 0 .. setup.source - 1
                 PROVE  Count(i) \in IF wanted[i] = 0 THEN {0} ELSE 1 .. wanted[i]
      BY DEF NoneLost, AllDone
    <2>0. /\ InRank /\ Counted /\ setup.source \in Nat /\ Kinds /\ i \in Ids
          /\ Encoder \in Threads /\ encoded \in Seq(Int) /\ Workers \subseteq Threads
          /\ \A r \in 1 .. 5 : r \in Ranks
      BY SourceNat DEF OrderInv, IInv, InRing, CountInv, Ids, Threads, Numbers, Ranks
    <2>1. PICK f \in Frames : f = hold[Encoder] /\ id[f] = setup.source
      BY <2>0, HeldFrame DEF AtTheEnd, HoldsAt
    <2>2. At(1, f)
      BY <2>1 DEF At
    <2>3. NoDuplicate
      <3> SUFFICES ASSUME NEW w \in Workers, pc[w] \in DupAt PROVE FALSE
        BY DEF NoDuplicate
      <3>1. PICK g \in Frames : g = hold[w]
        BY <2>0, HeldFrame DEF DupAt, HoldsAt
      <3>2. At(3, g) /\ id[g] # setup.source
        BY <3>1 DEF At, CountInv, EndNotDoubled, Encoding
      <3>3. id[f] <= id[g]
        BY <2>0, <2>2, <3>2 DEF InRank
      <3> QED
        BY <2>0, <2>1, <3>2, <3>3 DEF Kinds, Ids
    <2>4. Accounted(i)
      BY <2>3 DEF CountInv, Counting, Encoding, Books
    <2>5. i < framecount
      BY <2>0, <2>1, <2>2 DEF Counted, Kinds, Ids
    <2>6. ASSUME NEW g \in Frames, Underway(g), id[g] = i PROVE FALSE
      <3>1. g # f
        BY <2>0, <2>1, <2>6
      <3>2. Passing \/ Team = {}
        BY <2>3 DEF Passing, NoDuplicate, DupAt
      <3>3. At(2, g) \/ At(3, g) \/ At(4, g)
        BY <2>1, <2>6, <3>1, <3>2 DEF Underway, At
      <3>4. id[f] <= id[g]
        BY <2>0, <2>2, <3>3 DEF InRank
      <3> QED
        BY <2>0, <2>1, <2>6, <3>4
    <2>7. Account(i, 0)
      BY <2>4, <2>5, <2>6 DEF Accounted
    <2>8. Count(i) \in Nat /\ wanted[i] \in Int
      BY <2>0, CountNat DEF Kinds
    <2> QED
      BY <2>7, <2>8 DEF Account
  <1> QED
    BY <1>1, <1>2, <1>3, PTL DEF Spec

=============================================================================
