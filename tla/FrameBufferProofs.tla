------------------------- MODULE FrameBufferProofs -------------------------
(***************************************************************************)
(* The containers of framebuffer.c, for every capacity, every set of       *)
(* frames and any number of threads: a pool loses no frame and no wake-up; *)
(* the circular array of a FIFO pool implements the bounded FIFO; and the  *)
(* binary heap of a READY pool implements the bounded priority bag, with a *)
(* sift-down loop that is immune to the slot it reads past the end.        *)
(***************************************************************************)
EXTENDS FramePool, FrameFifo, FrameHeap,
        SequenceTheorems, FunctionTheorems, FiniteSetTheorems, WellFoundedInduction,
        TLAPS

-----------------------------------------------------------------------------
(* The pool around a queue.                                                *)

USE FramesAssumption, ThreadsAssumption, BroadcastAssumption

(* The four properties are inductive together: who may claim is decided by *)
(* `waiting', which is exact only because no thread is counted twice.      *)
PoolInv == TypeOK /\ WaitingExact /\ NoFrameLeftBehind /\ OneOwner

(* The sets counted below are finite.                                      *)
LEMMA Counts ==
    ASSUME TypeOK
    PROVE  /\ IsFiniteSet(Blocked) /\ Cardinality(Blocked) \in Nat
           /\ IsFiniteSet(Woken) /\ Cardinality(Woken) \in Nat
           /\ IsFiniteSet(queue) /\ Cardinality(queue) \in Nat
           /\ Cardinality(Blocked) = 0 <=> Blocked = {}
  <1>1. Blocked \in SUBSET Threads /\ Woken \in SUBSET Threads /\ queue \in SUBSET Frames
    BY DEF Blocked, Woken, TypeOK
  <1>2. IsFiniteSet(Blocked) /\ IsFiniteSet(Woken) /\ IsFiniteSet(queue)
    BY <1>1, FS_Subset
  <1> QED
    BY <1>2, FS_CardinalityType, FS_EmptySet

(* A thread that moves changes the wait set and the set of woken threads   *)
(* only by itself.                                                         *)
LEMMA Moves ==
    ASSUME TypeOK, NEW t \in Threads,
           NEW v \in {"loop", "claim", "blocked", "woken", "has", "out"},
           pc' = [pc EXCEPT ![t] = v]
    PROVE  /\ pc' \in [Threads -> {"loop", "claim", "blocked", "woken", "has", "out"}]
           /\ Blocked' = IF v = "blocked" THEN Blocked \union {t} ELSE Blocked \ {t}
           /\ Woken' = IF v = "woken" THEN Woken \union {t} ELSE Woken \ {t}
  BY DEF TypeOK, Blocked, Woken

(* The cardinalities after a thread has fallen asleep, or has been woken,  *)
(* or has left the wait loop.                                              *)
LEMMA Sleeps ==
    ASSUME TypeOK, NEW t \in Threads, pc[t] \in {"claim", "woken"},
           pc' = [pc EXCEPT ![t] = "blocked"]
    PROVE  /\ Cardinality(Blocked)' = Cardinality(Blocked) + 1
           /\ Cardinality(Woken)' = IF pc[t] = "woken" THEN Cardinality(Woken) - 1
                                                       ELSE Cardinality(Woken)
  <1>1. Blocked' = Blocked \union {t} /\ Woken' = Woken \ {t}
    BY Moves
  <1>2. t \notin Blocked /\ (t \in Woken <=> pc[t] = "woken")
    BY DEF Blocked, Woken
  <1> QED
    BY <1>1, <1>2, Counts, FS_AddElement, FS_RemoveElement

LEMMA WakesUp ==
    ASSUME TypeOK, NEW t \in Threads, pc[t] = "blocked",
           pc' = [pc EXCEPT ![t] = "woken"]
    PROVE  /\ Cardinality(Blocked)' = Cardinality(Blocked) - 1
           /\ Cardinality(Woken)' = Cardinality(Woken) + 1
           /\ Blocked' \subseteq Blocked
  <1>1. Blocked' = Blocked \ {t} /\ Woken' = Woken \union {t}
    BY Moves
  <1>2. t \in Blocked /\ t \notin Woken
    BY DEF Blocked, Woken
  <1> QED
    BY <1>1, <1>2, Counts, FS_AddElement, FS_RemoveElement

LEMMA Leaves ==
    ASSUME TypeOK, NEW t \in Threads, pc[t] = "woken",
           NEW v \in {"has", "out"}, pc' = [pc EXCEPT ![t] = v]
    PROVE  /\ Blocked' = Blocked
           /\ Cardinality(Woken)' = Cardinality(Woken) - 1
           /\ Cardinality(Woken) >= 1
  <1>1. Blocked' = Blocked \ {t} /\ Woken' = Woken \ {t}
    BY Moves
  <1>2. t \notin Blocked /\ t \in Woken
    BY DEF Blocked, Woken
  <1>3. Cardinality(Woken) # 0
    BY <1>2, Counts, FS_EmptySet
  <1>4. Cardinality(Woken) >= 1
    BY <1>3, Counts
  <1>5. Cardinality(Woken \ {t}) = Cardinality(Woken) - 1
    BY <1>2, Counts, FS_RemoveElement
  <1>6. Blocked \ {t} = Blocked
    BY <1>2
  <1> QED
    BY <1>1, <1>4, <1>5, <1>6

(* A frame put or taken changes the population of the queue by one.        *)
LEMMA QueueCounts ==
    ASSUME TypeOK, NEW f \in Frames
    PROVE  /\ f \notin queue => Cardinality(queue \union {f}) = Cardinality(queue) + 1
           /\ f \in queue => Cardinality(queue \ {f}) = Cardinality(queue) - 1
  BY Counts, FS_AddElement, FS_RemoveElement

(* Owners depend on `pc' only through the threads that have a frame.       *)
LEMMA OwnersKept ==
    ASSUME OneOwner, UNCHANGED <<queue, outside, hold>>,
           \A t \in Threads : pc'[t] = "has" <=> pc[t] = "has"
    PROVE  OneOwner'
  BY DEF OneOwner

LEMMA PoolInitInv == Init => PoolInv
  <1> SUFFICES ASSUME Init PROVE PoolInv
    OBVIOUS
  <1>1. TypeOK
    BY DEF Init, TypeOK
  <1>2. Blocked = {} /\ Woken = {}
    BY DEF Init, Blocked, Woken
  <1>3. WaitingExact /\ NoFrameLeftBehind
    BY <1>2, FS_EmptySet DEF Init, WaitingExact, NoFrameLeftBehind
  <1>4. OneOwner
    BY DEF Init, OneOwner
  <1> QED
    BY <1>1, <1>3, <1>4 DEF PoolInv

(* Putting a frame wakes a sleeper up for it.                              *)
LEMMA PutStep ==
    ASSUME PoolInv, NEW f \in Frames, put_frame(f)
    PROVE  PoolInv'
  <1>1. TypeOK /\ f \notin queue /\ queue' = queue \union {f} /\ waiting' = waiting
    BY DEF PoolInv, OneOwner, put_frame
  <1>2. ASSUME \A t \in Threads : pc'[t] = "has" <=> pc[t] = "has" PROVE OneOwner'
    BY <1>2 DEF PoolInv, OneOwner, put_frame
  <1>3. Cardinality(queue)' = Cardinality(queue) + 1
    BY <1>1, QueueCounts
  <1>4. CASE pc' = pc /\ Blocked = {}
    <2>1. Blocked' = Blocked /\ Woken' = Woken
      BY <1>4 DEF Blocked, Woken
    <2>2. TypeOK'
      BY <1>1, <1>4 DEF TypeOK, put_frame
    <2> QED
      BY <1>1, <1>2, <1>4, <2>1, <2>2 DEF PoolInv, WaitingExact, NoFrameLeftBehind
  <1>5. ASSUME NEW t \in Blocked, pc' = [pc EXCEPT ![t] = "woken"] PROVE PoolInv'
    <2>1. t \in Threads /\ pc[t] = "blocked"
      BY DEF Blocked
    <2>2. TypeOK'
      BY <1>1, <1>5, <2>1, Moves DEF TypeOK, put_frame
    <2>3. /\ Cardinality(Blocked)' = Cardinality(Blocked) - 1
          /\ Cardinality(Woken)' = Cardinality(Woken) + 1
      BY <1>1, <1>5, <2>1, WakesUp
    <2>4. WaitingExact'
      BY <1>1, <2>3, Counts DEF PoolInv, WaitingExact
    <2>5. NoFrameLeftBehind'
      BY <1>1, <1>3, <1>5, <2>3, Counts DEF PoolInv, NoFrameLeftBehind, tc_running, put_frame
    <2>6. OneOwner'
      BY <1>1, <1>2, <1>5, <2>1 DEF TypeOK
    <2> QED
      BY <2>2, <2>4, <2>5, <2>6 DEF PoolInv
  <1>6. waiting = 0 => Blocked = {}
    BY <1>1, Counts DEF PoolInv, WaitingExact
  <1>7. CASE waiting > 0
    BY <1>4, <1>5, <1>7 DEF put_frame, Signalled
  <1>8. CASE ~(waiting > 0)
    BY <1>1, <1>4, <1>6, <1>8 DEF put_frame, TypeOK
  <1> QED
    BY <1>7, <1>8

(* Claiming a frame without sleeping, or falling asleep.                   *)
LEMMA ClaimStep ==
    ASSUME PoolInv, NEW t \in Threads,
           check_running(t) \/ get_frame(t) \/ get_frame_wait(t) \/ pass_on(t)
    PROVE  PoolInv'
  <1>0. TypeOK /\ OneOwner
    BY DEF PoolInv
  <1>1. CASE check_running(t)
    <2>1. PICK v \in {"claim", "out"} : pc' = [pc EXCEPT ![t] = v]
      BY <1>1 DEF check_running
    <2>2. pc[t] = "loop" /\ t \notin Blocked /\ t \notin Woken
      BY <1>1 DEF check_running, Blocked, Woken
    <2>3. Blocked' = Blocked /\ Woken' = Woken
      <3>1. Blocked' = Blocked \ {t} /\ Woken' = Woken \ {t}
        BY <1>0, <2>1, Moves
      <3> QED
        BY <2>2, <3>1
    <2>4. TypeOK'
      BY <1>0, <1>1, <2>1, Moves DEF TypeOK, check_running
    <2>5. OneOwner'
      BY <1>0, <1>1, <2>1, <2>2, OwnersKept DEF TypeOK, check_running
    <2> QED
      BY <1>1, <2>3, <2>4, <2>5 DEF PoolInv, WaitingExact, NoFrameLeftBehind, tc_running, check_running
  <1>2. CASE get_frame(t)
    <2>1. PICK f \in queue : queue' = queue \ {f} /\ hold' = [hold EXCEPT ![t] = f]
      BY <1>2 DEF get_frame, take
    <2>2. pc[t] = "claim" /\ pc' = [pc EXCEPT ![t] = "has"] /\ t \notin Blocked /\ t \notin Woken
      BY <1>2 DEF get_frame, Blocked, Woken
    <2>3. Blocked' = Blocked /\ Woken' = Woken
      <3>1. Blocked' = Blocked \ {t} /\ Woken' = Woken \ {t}
        BY <1>0, <2>2, Moves
      <3> QED
        BY <2>2, <3>1
    <2>4. TypeOK'
      BY <1>0, <1>2, <2>1, <2>2, Moves DEF TypeOK, get_frame
    <2>5. OneOwner'
      BY <1>0, <1>2, <2>1, <2>2 DEF OneOwner, TypeOK, get_frame
    <2>6. Cardinality(queue)' = Cardinality(queue) - 1
      BY <1>0, <2>1, QueueCounts DEF TypeOK
    <2>7. WaitingExact'
      BY <1>2, <2>3 DEF PoolInv, WaitingExact, get_frame
    <2>8. NoFrameLeftBehind'
      BY <1>0, <1>2, <2>3, <2>6, Counts DEF PoolInv, NoFrameLeftBehind, tc_running, get_frame
    <2> QED
      BY <2>4, <2>5, <2>7, <2>8 DEF PoolInv
  <1>3. CASE get_frame_wait(t)
    <2>1. pc[t] = "claim" /\ pc' = [pc EXCEPT ![t] = "blocked"] /\ queue = {} /\ queue' = {}
      BY <1>3 DEF get_frame_wait
    <2>2. /\ Cardinality(Blocked)' = Cardinality(Blocked) + 1
          /\ Cardinality(Woken)' = Cardinality(Woken)
      BY <1>0, <2>1, Sleeps
    <2>3. TypeOK'
      BY <1>0, <1>3, <2>1, Moves DEF TypeOK, get_frame_wait
    <2>4. OneOwner'
      BY <1>0, <1>3, <2>1, OwnersKept DEF TypeOK, get_frame_wait
    <2>5. WaitingExact'
      BY <1>0, <1>3, <2>2, Counts DEF PoolInv, WaitingExact, get_frame_wait
    <2>6. NoFrameLeftBehind'
      BY <1>0, <2>1, <2>2, Counts, FS_EmptySet DEF NoFrameLeftBehind
    <2> QED
      BY <2>3, <2>4, <2>5, <2>6 DEF PoolInv
  <1>4. CASE pass_on(t)
    <2>1. pc[t] = "has" /\ pc' = [pc EXCEPT ![t] = "loop"] /\ t \notin Blocked /\ t \notin Woken
      BY <1>4 DEF pass_on, Blocked, Woken
    <2>2. Blocked' = Blocked /\ Woken' = Woken
      <3>1. Blocked' = Blocked \ {t} /\ Woken' = Woken \ {t}
        BY <1>0, <2>1, Moves
      <3> QED
        BY <2>1, <3>1
    <2>3. hold[t] \in Frames
      BY <1>0, <2>1 DEF TypeOK, OneOwner
    <2>4. TypeOK'
      BY <1>0, <1>4, <2>1, <2>3, Moves DEF TypeOK, pass_on
    <2>5. OneOwner'
      BY <1>0, <1>4, <2>1, <2>3 DEF OneOwner, TypeOK, pass_on
    <2> QED
      BY <1>4, <2>2, <2>4, <2>5 DEF PoolInv, WaitingExact, NoFrameLeftBehind, tc_running, pass_on
  <1> QED
    BY <1>1, <1>2, <1>3, <1>4

(* A woken thread claims a frame, sleeps again or gives up.                *)
LEMMA ResumeStep ==
    ASSUME PoolInv, NEW t \in Threads,
           resume_get(t) \/ resume_wait(t) \/ resume_interrupted(t)
    PROVE  PoolInv'
  <1>0. TypeOK /\ OneOwner
    BY DEF PoolInv
  <1>1. CASE resume_get(t)
    <2>1. PICK f \in queue : queue' = queue \ {f} /\ hold' = [hold EXCEPT ![t] = f]
      BY <1>1 DEF resume_get, take
    <2>2. pc[t] = "woken" /\ pc' = [pc EXCEPT ![t] = "has"] /\ waiting' = waiting - 1
      BY <1>1 DEF resume_get
    <2>3. /\ Blocked' = Blocked
          /\ Cardinality(Woken)' = Cardinality(Woken) - 1
          /\ Cardinality(Woken) >= 1
      BY <1>0, <2>2, Leaves
    <2>4. waiting >= 1
      BY <1>0, <2>3, Counts DEF PoolInv, WaitingExact
    <2>5. TypeOK'
      <3>1. waiting - 1 \in Nat
        BY <1>0, <2>4 DEF TypeOK
      <3> QED
        BY <1>0, <1>1, <2>1, <2>2, <3>1, Moves DEF TypeOK, resume_get
    <2>6. OneOwner'
      BY <1>0, <1>1, <2>1, <2>2 DEF OneOwner, TypeOK, resume_get
    <2>7. Cardinality(queue)' = Cardinality(queue) - 1
      BY <1>0, <2>1, QueueCounts DEF TypeOK
    <2>8. WaitingExact'
      BY <1>0, <2>2, <2>3, Counts DEF PoolInv, WaitingExact
    <2>9. NoFrameLeftBehind'
      BY <1>0, <1>1, <2>3, <2>7, Counts DEF PoolInv, NoFrameLeftBehind, tc_running, resume_get
    <2> QED
      BY <2>5, <2>6, <2>8, <2>9 DEF PoolInv
  <1>2. CASE resume_wait(t)
    <2>1. pc[t] = "woken" /\ pc' = [pc EXCEPT ![t] = "blocked"] /\ queue = {} /\ queue' = {}
      BY <1>2 DEF resume_wait
    <2>2. /\ Cardinality(Blocked)' = Cardinality(Blocked) + 1
          /\ Cardinality(Woken)' = Cardinality(Woken) - 1
      BY <1>0, <2>1, Sleeps
    <2>3. Cardinality(Woken) >= 1
      BY <1>0, <2>1, Counts, FS_EmptySet DEF Woken
    <2>4. TypeOK'
      BY <1>0, <1>2, <2>1, Moves DEF TypeOK, resume_wait
    <2>5. OneOwner'
      BY <1>0, <1>2, <2>1, OwnersKept DEF TypeOK, resume_wait
    <2>6. WaitingExact'
      BY <1>0, <1>2, <2>2, Counts DEF PoolInv, WaitingExact, resume_wait
    <2>7. NoFrameLeftBehind'
      BY <1>0, <2>1, <2>2, <2>3, Counts, FS_EmptySet DEF NoFrameLeftBehind
    <2> QED
      BY <2>4, <2>5, <2>6, <2>7 DEF PoolInv
  <1>3. CASE resume_interrupted(t)
    <2>1. /\ pc[t] = "woken" /\ pc' = [pc EXCEPT ![t] = "out"] /\ waiting' = waiting - 1
          /\ status # "running" /\ status' = status
      BY <1>3 DEF resume_interrupted, tc_running
    <2>2. /\ Blocked' = Blocked
          /\ Cardinality(Woken)' = Cardinality(Woken) - 1
          /\ Cardinality(Woken) >= 1
      BY <1>0, <2>1, Leaves
    <2>3. waiting >= 1
      BY <1>0, <2>2, Counts DEF PoolInv, WaitingExact
    <2>4. TypeOK'
      <3>1. waiting - 1 \in Nat
        BY <1>0, <2>3 DEF TypeOK
      <3> QED
        BY <1>0, <1>3, <2>1, <3>1, Moves DEF TypeOK, resume_interrupted
    <2>5. OneOwner'
      BY <1>0, <1>3, <2>1, OwnersKept DEF TypeOK, resume_interrupted
    <2>6. WaitingExact'
      BY <1>0, <2>1, <2>2, Counts DEF PoolInv, WaitingExact
    <2>7. NoFrameLeftBehind'
      BY <2>1 DEF NoFrameLeftBehind, tc_running
    <2> QED
      BY <2>4, <2>5, <2>6, <2>7 DEF PoolInv
  <1> QED
    BY <1>1, <1>2, <1>3

(* One sleeper wakes up without a frame being put for it.                  *)
LEMMA WakeStep ==
    ASSUME PoolInv, NEW t \in Threads, pc[t] = "blocked",
           pc' = [pc EXCEPT ![t] = "woken"],
           UNCHANGED <<queue, waiting, hold, outside>>,
           status' = status \/ status' = "interrupted",
           status' = status \/ status # "running",
           asleep' = asleep \/ asleep' = Blocked \union Woken
    PROVE  PoolInv'
  <1>0. TypeOK /\ OneOwner
    BY DEF PoolInv
  <1>1. /\ Cardinality(Blocked)' = Cardinality(Blocked) - 1
        /\ Cardinality(Woken)' = Cardinality(Woken) + 1
        /\ Blocked' \subseteq Blocked
    BY <1>0, WakesUp
  <1>2. TypeOK'
    BY <1>0, Moves DEF TypeOK, Blocked, Woken
  <1>3. OneOwner'
    BY <1>0, OwnersKept DEF TypeOK
  <1>4. WaitingExact'
    BY <1>0, <1>1, Counts DEF PoolInv, WaitingExact
  <1>5. NoFrameLeftBehind'
    BY <1>0, <1>1, Counts DEF PoolInv, NoFrameLeftBehind, tc_running
  <1> QED
    BY <1>2, <1>3, <1>4, <1>5 DEF PoolInv

(* All the sleepers wake up, or nobody sleeps.                             *)
LEMMA WakeAllStep ==
    ASSUME PoolInv, Broadcasted \/ (Blocked = {} /\ pc' = pc),
           UNCHANGED <<queue, waiting, hold, outside>>,
           status' \in {"running", "stopped", "interrupted"},
           asleep' = asleep \/ asleep' = Blocked \union Woken
    PROVE  PoolInv'
  <1>0. TypeOK /\ OneOwner
    BY DEF PoolInv
  <1>1. /\ pc' \in [Threads -> {"loop", "claim", "blocked", "woken", "has", "out"}]
        /\ Blocked' = {}
        /\ Woken' = Blocked \union Woken
        /\ \A t \in Threads : pc'[t] = "has" <=> pc[t] = "has"
    <2>1. CASE Broadcasted
      BY <1>0, <2>1 DEF Broadcasted, Blocked, Woken, TypeOK
    <2>2. CASE Blocked = {} /\ pc' = pc
      BY <1>0, <2>2 DEF Blocked, Woken, TypeOK
    <2> QED
      BY <2>1, <2>2
  <1>2. TypeOK'
    BY <1>0, <1>1 DEF TypeOK, Blocked, Woken
  <1>3. OneOwner'
    BY <1>0, <1>1, OwnersKept
  <1>4. WaitingExact'
    <2>1. Blocked \intersect Woken = {}
      BY DEF Blocked, Woken
    <2>2. Cardinality(Blocked \union Woken) = Cardinality(Blocked) + Cardinality(Woken)
      BY <1>0, <2>1, Counts, FS_Union, FS_EmptySet
    <2>3. waiting = Cardinality(Blocked) + Cardinality(Woken)
      BY DEF PoolInv, WaitingExact
    <2>4. Cardinality(Blocked)' = 0
      BY <1>1, FS_EmptySet
    <2> QED
      BY <1>0, <1>1, <2>2, <2>3, <2>4, Counts DEF WaitingExact
  <1>5. NoFrameLeftBehind'
    BY <1>1 DEF NoFrameLeftBehind
  <1> QED
    BY <1>2, <1>3, <1>4, <1>5 DEF PoolInv

(* The main thread stops the program or interrupts the pool.               *)
LEMMA MainStep ==
    ASSUME PoolInv,
           tc_stop \/ tc_framebuffer_interrupt \/ tc_framebuffer_interrupt_stage
    PROVE  PoolInv'
  <1>1. CASE tc_stop
    <2>1. Blocked' = Blocked /\ Woken' = Woken
      BY <1>1 DEF tc_stop, Blocked, Woken
    <2>2. TypeOK' /\ OneOwner'
      BY <1>1 DEF tc_stop, PoolInv, TypeOK, OneOwner
    <2> QED
      BY <1>1, <2>1, <2>2 DEF tc_stop, PoolInv, WaitingExact, NoFrameLeftBehind, tc_running
  <1>2. CASE tc_framebuffer_interrupt \/ tc_framebuffer_interrupt_stage
    <2>1. /\ wakeup
          /\ UNCHANGED <<queue, waiting, hold, outside>>
          /\ status' = status \/ status' = "interrupted"
          /\ status' = status \/ status # "running"
          /\ status' \in {"running", "stopped", "interrupted"}
          /\ asleep' = asleep \/ asleep' = Blocked \union Woken
      BY <1>2 DEF tc_framebuffer_interrupt, tc_framebuffer_interrupt_stage, PoolInv, TypeOK
    <2>2. CASE Broadcasted \/ (Blocked = {} /\ pc' = pc)
      BY <2>1, <2>2, WakeAllStep
    <2>3. ASSUME NEW t \in Blocked, pc' = [pc EXCEPT ![t] = "woken"] PROVE PoolInv'
      <3>1. t \in Threads /\ pc[t] = "blocked"
        BY DEF Blocked
      <3> QED
        BY <2>1, <2>3, <3>1, WakeStep
    <2> QED
      BY <2>1, <2>2, <2>3 DEF wakeup, Signalled
  <1> QED
    BY <1>1, <1>2

LEMMA PoolNextInv == PoolInv /\ [Next]_vars => PoolInv'
  <1> SUFFICES ASSUME PoolInv, [Next]_vars PROVE PoolInv'
    OBVIOUS
  <1>1. CASE UNCHANGED vars
    <2>1. Blocked' = Blocked /\ Woken' = Woken
      BY <1>1 DEF vars, Blocked, Woken
    <2>2. TypeOK' /\ OneOwner'
      BY <1>1 DEF vars, PoolInv, TypeOK, OneOwner
    <2> QED
      BY <1>1, <2>1, <2>2 DEF vars, PoolInv, WaitingExact, NoFrameLeftBehind, tc_running
  <1>2. ASSUME NEW t \in Threads, spurious_wakeup(t) PROVE PoolInv'
    BY <1>2, WakeStep DEF spurious_wakeup
  <1> QED
    BY <1>1, <1>2, PutStep, ClaimStep, ResumeStep, MainStep DEF Next, Claim

(* For any number of threads and frames: `waiting' is exact, no frame lies *)
(* in the pool of a running program while a thread sleeps that nobody is   *)
(* waking up, and every frame has exactly one owner.                       *)
THEOREM PoolSafe == Spec => [](TypeOK /\ WaitingExact /\ NoFrameLeftBehind /\ OneOwner)
  <1>1. Spec => []PoolInv
    BY PoolInitInv, PoolNextInv, PTL DEF Spec
  <1> QED
    BY <1>1, PTL DEF PoolInv

(* The type invariant by itself: whatever the threads do, every thread is  *)
(* at one place of its claim and every frame in one place of the pool.     *)
THEOREM PoolTyped == Spec => []TypeOK
  BY PoolSafe, PTL

(* The counter on which a put decides whether to signal is the number of   *)
(* threads that sleep or were woken and have not run since: a put never    *)
(* keeps silent while somebody sleeps.                                     *)
THEOREM WaitersCounted == Spec => []WaitingExact
  BY PoolSafe, PTL

(* No interleaving of puts, claims and wake-ups gives a frame to two       *)
(* threads, or to nobody.                                                  *)
THEOREM FrameOwnedOnce == Spec => []OneOwner
  BY PoolSafe, PTL

-----------------------------------------------------------------------------
(* The circular array.                                                     *)

USE SizeAssumption, NullAssumption

(* The sum of a position and a count of at most n wraps at most once.      *)
LEMMA SumMod ==
    ASSUME NEW n \in Nat \ {0}, NEW a \in 0 .. n - 1, NEW b \in 0 .. n
    PROVE  (a + b) % n = IF a + b >= n THEN a + b - n ELSE a + b
  OBVIOUS

FifoInv == FifoTypeOK /\ IndicesAgree

(* The slot arithmetic without the modulus.                                *)
LEMMA SlotLinear ==
    ASSUME FifoTypeOK, NEW i \in 0 .. Size
    PROVE  /\ Slot(i) = IF first + i >= Size THEN first + i - Size ELSE first + i
           /\ Slot(i) \in Slots
  <1>1. first \in 0 .. Size - 1
    BY DEF FifoTypeOK, Slots
  <1>2. (first + i) % Size = IF first + i >= Size THEN first + i - Size ELSE first + i
    BY <1>1, SumMod
  <1> QED
    BY <1>1, <1>2 DEF Slot, Slots

(* The same in the state after a step, whose type is known too.            *)
LEMMA SlotLinearNext ==
    ASSUME FifoTypeOK', NEW i \in 0 .. Size
    PROVE  Slot(i)' = IF first' + i >= Size THEN first' + i - Size ELSE first' + i
  <1>1. first' \in 0 .. Size - 1
    BY DEF FifoTypeOK, Slots
  <1>2. (first' + i) % Size = IF first' + i >= Size THEN first' + i - Size ELSE first' + i
    BY <1>1, SumMod
  <1> QED
    BY <1>1, <1>2 DEF Slot, Slots

(* One step of the read and write positions around the array.              *)
LEMMA StepLinear ==
    ASSUME FifoTypeOK
    PROVE  /\ (first + 1) % Size = IF first + 1 = Size THEN 0 ELSE first + 1
           /\ (last + 1) % Size = IF last + 1 = Size THEN 0 ELSE last + 1
  <1>1. first \in 0 .. Size - 1 /\ last \in 0 .. Size - 1 /\ 1 \in 0 .. Size
    BY DEF FifoTypeOK, Slots
  <1>2. (first + 1) % Size = IF first + 1 >= Size THEN first + 1 - Size ELSE first + 1
    BY <1>1, SumMod
  <1>3. (last + 1) % Size = IF last + 1 >= Size THEN last + 1 - Size ELSE last + 1
    BY <1>1, SumMod
  <1> QED
    BY <1>1, <1>2, <1>3

(* A read leaves each remaining frame in its slot, one place nearer.       *)
LEMMA GetShifts ==
    ASSUME FifoInv, fifo_get
    PROVE  /\ FifoTypeOK'
           /\ \A i \in 0 .. population - 1 : Slot(i)' = Slot(i + 1)
           /\ population \in 1 .. Size
  <1>1. first' = IF first + 1 = Size THEN 0 ELSE first + 1
    BY StepLinear DEF FifoInv, fifo_get
  <1>2. FifoTypeOK' /\ population \in 1 .. Size
    BY <1>1 DEF FifoInv, FifoTypeOK, Slots, fifo_get
  <1>3. ASSUME NEW i \in 0 .. population - 1 PROVE Slot(i)' = Slot(i + 1)
    <2>1. i \in 0 .. Size /\ i + 1 \in 0 .. Size /\ first \in 0 .. Size - 1
      BY <1>2 DEF FifoInv, FifoTypeOK, Slots
    <2>2. Slot(i)' = IF first' + i >= Size THEN first' + i - Size ELSE first' + i
      BY <1>2, <2>1, SlotLinearNext
    <2>3. Slot(i + 1) = IF first + (i + 1) >= Size THEN first + (i + 1) - Size
                                                   ELSE first + (i + 1)
      BY <2>1, SlotLinear DEF FifoInv
    <2> QED
      BY <1>1, <2>1, <2>2, <2>3
  <1> QED
    BY <1>2, <1>3

(* A write goes to a slot that holds none of the queued frames.            *)
LEMMA PutIsFresh ==
    ASSUME FifoInv, NEW f \in Pointers, fifo_put(f)
    PROVE  /\ FifoTypeOK'
           /\ \A i \in 0 .. population - 1 : Slot(i)' = Slot(i) /\ Slot(i) # last
           /\ \A i \in 0 .. Size : i = population => Slot(i)' = last
           /\ last' = Slot(population)'
           /\ population \in 0 .. Size - 1
  <1>1. last' = IF last + 1 = Size THEN 0 ELSE last + 1
    BY StepLinear DEF FifoInv, fifo_put
  <1>2. FifoTypeOK' /\ population \in 0 .. Size - 1
    BY <1>1 DEF FifoInv, FifoTypeOK, Slots, fifo_put
  <1>3. first' = first /\ first \in 0 .. Size - 1
    BY DEF fifo_put, FifoInv, FifoTypeOK, Slots
  <1>4. last = IF first + population >= Size THEN first + population - Size ELSE first + population
    BY <1>2, SlotLinear DEF FifoInv, IndicesAgree
  <1>5. ASSUME NEW i \in 0 .. population - 1 PROVE Slot(i)' = Slot(i) /\ Slot(i) # last
    <2>1. Slot(i) = IF first + i >= Size THEN first + i - Size ELSE first + i
      BY <1>2, SlotLinear DEF FifoInv
    <2>2. Slot(i)' = Slot(i)
      BY <1>3 DEF Slot
    <2> QED
      BY <1>2, <1>3, <1>4, <2>1, <2>2
  <1>6. ASSUME NEW i \in 0 .. Size, i = population PROVE Slot(i)' = last
    <2>1. Slot(i)' = IF first' + i >= Size THEN first' + i - Size ELSE first' + i
      BY <1>2, SlotLinearNext
    <2> QED
      BY <1>2, <1>3, <1>4, <1>6, <2>1
  <1>7. last' = Slot(population)'
    <2>1. population' = population + 1 /\ population' \in 0 .. Size
      BY <1>2 DEF fifo_put
    <2>2. (first' + population') % Size
            = IF first' + population' >= Size THEN first' + population' - Size ELSE first' + population'
      BY <1>3, <2>1, SumMod
    <2>3. last' = (first' + population') % Size
      BY <1>1, <1>2, <1>3, <1>4, <2>1, <2>2
    <2> QED
      BY <2>3 DEF Slot
  <1> QED
    BY <1>2, <1>5, <1>6, <1>7

-----------------------------------------------------------------------------

(* The empty array satisfies the invariant.                                *)
LEMMA FifoInitInv == FifoInit => FifoInv
  <1> SUFFICES ASSUME FifoInit PROVE FifoInv
    OBVIOUS
  <1>1. FifoTypeOK
    BY DEF FifoInit, FifoTypeOK, Slots
  <1>2. last = Slot(population)
    BY <1>1, SlotLinear DEF FifoInit
  <1> QED
    BY <1>1, <1>2 DEF FifoInit, FifoInv, IndicesAgree

(* Every operation keeps the indices in agreement.                         *)
LEMMA FifoNextInv == FifoInv /\ [FifoNext]_fifoVars => FifoInv'
  <1> SUFFICES ASSUME FifoInv, [FifoNext]_fifoVars PROVE FifoInv'
    OBVIOUS
  <1>1. CASE fifo_get
    <2>1. population' = population - 1 /\ array' = array /\ last' = last
      BY <1>1 DEF fifo_get
    <2>2. last' = Slot(population)'
      <3>1. /\ population - 1 \in 0 .. population - 1
            /\ (population - 1) + 1 = population
        BY <1>1, GetShifts
      <3>2. \A i \in 0 .. population - 1 : i = population' => Slot(i)' = last
        BY <1>1, <2>1, <3>1, GetShifts DEF FifoInv, IndicesAgree
      <3>3. (first' + population') % Size = last
        BY <2>1, <3>1, <3>2 DEF Slot
      <3> QED
        BY <2>1, <3>3 DEF Slot
    <2>3. ASSUME NEW i \in 0 .. population' - 1 PROVE array'[Slot(i)'] # NULL
      <3>1. i \in 0 .. population - 1 /\ i + 1 \in 0 .. population - 1
        BY <2>1 DEF FifoInv, FifoTypeOK
      <3> QED
        BY <1>1, <2>1, <3>1, GetShifts DEF FifoInv, IndicesAgree
    <2> QED
      BY <1>1, <2>2, <2>3, GetShifts DEF FifoInv, IndicesAgree
  <1>2. CASE fifo_get_empty
    BY <1>2 DEF FifoInv, FifoTypeOK, IndicesAgree, Slot, fifo_get_empty
  <1>3. ASSUME NEW f \in Pointers, fifo_put(f) PROVE FifoInv'
    <2>1. population' = population + 1
      BY <1>3 DEF fifo_put
    <2>2. ASSUME NEW i \in 0 .. population' - 1 PROVE array'[Slot(i)'] # NULL
      <3>1. CASE i = population
        <4>1. Slot(i)' = last /\ last \in Slots
          BY <1>3, <3>1, PutIsFresh DEF FifoInv, FifoTypeOK
        <4> QED
          BY <1>3, <4>1 DEF fifo_put, FifoInv, FifoTypeOK
      <3>2. CASE i # population
        <4>1. i \in 0 .. population - 1
          BY <2>1, <3>2 DEF FifoInv, FifoTypeOK
        <4>2. Slot(i)' = Slot(i) /\ Slot(i) # last /\ Slot(i) \in Slots
          BY <1>3, <4>1, PutIsFresh, SlotLinear DEF FifoInv, FifoTypeOK
        <4> QED
          BY <1>3, <4>1, <4>2 DEF fifo_put, FifoInv, FifoTypeOK, IndicesAgree
      <3> QED
        BY <3>1, <3>2
    <2> QED
      BY <1>3, <2>1, <2>2, PutIsFresh DEF FifoInv, IndicesAgree
  <1>4. ASSUME NEW f \in Pointers, fifo_put_full(f) PROVE FifoInv'
    BY <1>4 DEF FifoInv, FifoTypeOK, IndicesAgree, Slot, fifo_put_full
  <1>5. CASE UNCHANGED fifoVars
    BY <1>5 DEF FifoInv, FifoTypeOK, IndicesAgree, Slot, fifoVars
  <1> QED
    BY <1>1, <1>2, <1>3, <1>4, <1>5 DEF FifoNext

(* The invariants of the circular array hold in every reachable state.     *)
THEOREM ArrayCorrect == FifoSpec => [](FifoTypeOK /\ IndicesAgree)
  <1>1. FifoSpec => []FifoInv
    BY FifoInitInv, FifoNextInv, PTL DEF FifoSpec
  <1> QED
    BY <1>1, PTL DEF FifoInv

-----------------------------------------------------------------------------

(* The array stands for a sequence of `population' frames, slot by slot.   *)
IsQueue ==
    /\ Contents \in Seq(Pointers)
    /\ Len(Contents) = population
    /\ \A i \in 1 .. population : Contents[i] = array[Slot(i - 1)]

LEMMA ContentsSeq == FifoInv => IsQueue
  <1> SUFFICES ASSUME FifoInv PROVE IsQueue
    OBVIOUS
  <1>1. population \in Nat /\ population <= Size
    BY DEF FifoInv, FifoTypeOK
  <1>2. ASSUME NEW i \in 1 .. population PROVE array[Slot(i - 1)] \in Pointers
    <2>1. i - 1 \in 0 .. population - 1 /\ i - 1 \in 0 .. Size
      BY <1>1
    <2>2. Slot(i - 1) \in Slots
      BY <2>1, SlotLinear DEF FifoInv
    <2> QED
      BY <2>1, <2>2 DEF FifoInv, FifoTypeOK, IndicesAgree
  <1>3. Contents \in [1 .. population -> Pointers]
    BY <1>2 DEF Contents
  <1>4. Contents \in Seq(Pointers)
    BY <1>1, <1>3, SeqDef
  <1>5. Len(Contents) = population
    BY <1>1, <1>3, <1>4, LenProperties
  <1> QED
    BY <1>4, <1>5 DEF Contents, IsQueue

(* The same of the state after a step.                                     *)
LEMMA ContentsSeqNext == FifoInv' => IsQueue'
  BY ContentsSeq, PTL

(* A get of the array is a get of the queue it stands for.                 *)
LEMMA GetRefines ==
    ASSUME FifoInv, FifoInv', fifo_get
    PROVE  Bounded!Get
  <1>1. population' = population - 1 /\ array' = array /\ population \in 1 .. Size
    BY GetShifts DEF fifo_get
  <1>2. Contents # <<>> /\ Head(Contents) = array[first]
    <2>1. Slot(0) = first
      BY SlotLinear DEF FifoInv, FifoTypeOK, Slots
    <2>2. Contents[1] = array[first]
      BY <1>1, <2>1, ContentsSeq DEF IsQueue
    <2> QED
      BY <1>1, <2>2, ContentsSeq, EmptySeq DEF IsQueue
  <1>3. Contents' = Tail(Contents)
    <2>1. /\ Tail(Contents) \in Seq(Pointers)
          /\ Len(Tail(Contents)) = population - 1
          /\ \A i \in 1 .. population - 1 : Tail(Contents)[i] = Contents[i + 1]
      BY <1>2, ContentsSeq, HeadTailProperties DEF IsQueue
    <2>2. ASSUME NEW i \in 1 .. population - 1 PROVE Contents'[i] = Tail(Contents)[i]
      <3>1. i - 1 \in 0 .. population - 1 /\ (i - 1) + 1 = (i + 1) - 1 /\ i + 1 \in 1 .. population
        BY <1>1
      <3>2. Slot(i - 1)' = Slot((i - 1) + 1)
        BY <3>1, GetShifts
      <3>3. Contents[i + 1] = array[Slot((i + 1) - 1)]
        BY <3>1, ContentsSeq DEF IsQueue
      <3>4. Contents'[i] = array'[Slot(i - 1)']
        BY <1>1, ContentsSeqNext DEF IsQueue
      <3> QED
        BY <1>1, <2>1, <3>1, <3>2, <3>3, <3>4
    <2> QED
      BY <1>1, <2>1, <2>2, ContentsSeqNext, SeqEqual DEF IsQueue
  <1> QED
    BY <1>2, <1>3 DEF fifo_get, Bounded!Get

(* A put into an array with a free slot appends to the queue.              *)
LEMMA PutRefines ==
    ASSUME FifoInv, FifoInv', NEW f \in Pointers, fifo_put(f)
    PROVE  Bounded!Put(f)
  <1>1. population' = population + 1 /\ population < Size /\ population \in 0 .. Size
    BY DEF fifo_put, FifoInv, FifoTypeOK
  <1>2. /\ Append(Contents, f) \in Seq(Pointers)
        /\ Len(Append(Contents, f)) = population + 1
        /\ \A i \in 1 .. population : Append(Contents, f)[i] = Contents[i]
        /\ Append(Contents, f)[population + 1] = f
    BY ContentsSeq, AppendProperties DEF IsQueue
  <1>3. ASSUME NEW i \in 1 .. population + 1 PROVE Contents'[i] = Append(Contents, f)[i]
    <2>1. Contents'[i] = array'[Slot(i - 1)']
      BY <1>1, ContentsSeqNext DEF IsQueue
    <2>2. CASE i = population + 1
      <3>1. Slot(i - 1)' = last /\ last \in Slots
        BY <1>1, <2>2, PutIsFresh DEF FifoInv, FifoTypeOK
      <3> QED
        BY <1>2, <2>1, <2>2, <3>1 DEF fifo_put, FifoInv, FifoTypeOK
    <2>3. CASE i # population + 1
      <3>1. i \in 1 .. population /\ i - 1 \in 0 .. population - 1 /\ i - 1 \in 0 .. Size
        BY <1>1, <2>3
      <3>2. Slot(i - 1)' = Slot(i - 1) /\ Slot(i - 1) # last /\ Slot(i - 1) \in Slots
        BY <3>1, PutIsFresh, SlotLinear DEF FifoInv
      <3>3. Contents[i] = array[Slot(i - 1)]
        BY <3>1, ContentsSeq DEF IsQueue
      <3> QED
        BY <1>2, <2>1, <3>1, <3>2, <3>3 DEF fifo_put, FifoInv, FifoTypeOK
    <2> QED
      BY <2>2, <2>3
  <1>4. Contents' = Append(Contents, f)
    BY <1>1, <1>2, <1>3, ContentsSeqNext, SeqEqual DEF IsQueue
  <1> QED
    BY <1>1, <1>4, ContentsSeq DEF fifo_put, Bounded!Put, IsQueue

(* An operation that finds the array empty or full finds the queue so.     *)
LEMMA RefusalRefines ==
    ASSUME FifoInv
    PROVE  /\ fifo_get_empty => Bounded!GetEmpty
           /\ \A f \in Pointers : fifo_put_full(f) => Bounded!PutFull(f)
           /\ UNCHANGED fifoVars => UNCHANGED Bounded!vars
  <1>1. ASSUME UNCHANGED <<array, population, first>> PROVE Contents' = Contents
    BY <1>1 DEF Contents, Slot
  <1>2. fifo_get_empty => Bounded!GetEmpty
    BY <1>1, ContentsSeq DEF fifo_get_empty, Bounded!GetEmpty, IsQueue
  <1>3. ASSUME NEW f \in Pointers, fifo_put_full(f) PROVE Bounded!PutFull(f)
    <2>1. population = Size
      BY <1>3 DEF fifo_put_full, FifoInv, FifoTypeOK
    <2> QED
      BY <1>1, <1>3, <2>1, ContentsSeq DEF fifo_put_full, Bounded!PutFull, IsQueue
  <1>4. UNCHANGED fifoVars => UNCHANGED Bounded!vars
    BY <1>1 DEF fifoVars, Bounded!vars
  <1> QED
    BY <1>2, <1>3, <1>4

(* fifo_get and fifo_put implement the bounded FIFO queue: for any ring    *)
(* size the frames leave a pool in the order in which they entered it.     *)
THEOREM FifoRefinement == FifoSpec => ImplementsFifo
  <1>1. FifoInit => Bounded!Init
    <2> SUFFICES ASSUME FifoInit PROVE Contents = <<>> /\ answer = NULL
      BY DEF Bounded!Init
    <2>1. population = 0 /\ FifoInv
      BY FifoInitInv DEF FifoInit
    <2> QED
      BY <2>1, ContentsSeq, EmptySeq DEF FifoInit, IsQueue
  <1>2. FifoInv /\ FifoInv' /\ [FifoNext]_fifoVars => [Bounded!Next]_(Bounded!vars)
    BY GetRefines, PutRefines, RefusalRefines DEF FifoNext, Bounded!Next
  <1>3. FifoSpec => []FifoInv
    BY FifoInitInv, FifoNextInv, PTL DEF FifoSpec
  <1> QED
    BY <1>1, <1>2, <1>3, PTL DEF FifoSpec, Bounded!Spec, ImplementsFifo

-----------------------------------------------------------------------------
(* The heap.                                                               *)

USE IdsAssumption

(* The inductive invariant.  While a frame climbs, the order may be broken *)
(* only between it and its parent; while one sinks, only between it and    *)
(* its sons.  In both cases its parent and its sons are in order, so that  *)
(* they may be brought together by the next swap.                          *)
Ordered(j) == At(PARENT(j)) <= At(j)

UpInv ==
    op = "up" =>
        /\ k \in 1 .. num
        /\ \A j \in 2 .. num : j # k => Ordered(j)
        /\ \A j \in 2 .. num : PARENT(j) = k /\ k > 1 => At(PARENT(k)) <= At(j)

DownInv ==
    op = "down" =>
        /\ k \in 1 .. num \/ num = 0
        /\ \A j \in 2 .. num : PARENT(j) # k => Ordered(j)
        /\ \A j \in 2 .. num : PARENT(j) = k /\ k > 1 => At(PARENT(k)) <= At(j)
        /\ num < Size

HeapInv == HeapTypeOK /\ IsHeap /\ UpInv /\ DownInv /\ StaleSlotHarmless

(* A key other than the root has a parent with a smaller key.              *)
LEMMA ParentSmaller ==
    ASSUME NEW j \in Nat, j >= 2
    PROVE  PARENT(j) \in 1 .. j - 1
  BY DEF PARENT

(* The sons of a key are the keys whose parent it is.                      *)
LEMMA SonsOf ==
    ASSUME NEW j \in Nat, j >= 2, NEW p \in Nat
    PROVE  PARENT(j) = p <=> j = LEFT_SON(p) \/ j = RIGHT_SON(p)
  BY DEF PARENT, LEFT_SON, RIGHT_SON

(* What the slots in use hold can be compared.                             *)
LEMMA AtNat ==
    ASSUME HeapTypeOK, NEW j \in 1 .. num
    PROVE  At(j) \in Nat /\ POS(j) \in Slots
  <1>1. At(j) \in Ids /\ num \in 0 .. Size
    BY DEF HeapTypeOK
  <1>2. At(j) \in Nat
    BY <1>1
  <1>3. j - 1 \in 0 .. Size - 1
    BY <1>1
  <1> QED
    BY <1>2, <1>3 DEF POS, Slots

(* The empty heap satisfies the invariant.                                 *)
LEMMA HeapInitInv == HeapInit => HeapInv
  <1> SUFFICES ASSUME HeapInit PROVE HeapInv
    OBVIOUS
  <1>1. HeapTypeOK
    BY DEF HeapInit, HeapTypeOK, Slots
  <1> QED
    BY <1>1 DEF HeapInit, HeapInv, IsHeap, UpInv, DownInv, StaleSlotHarmless

(* In a heap at rest the root is a smallest frame: the smallest key whose  *)
(* frame beat the root would have a parent that beats it too.              *)
LEMMA RootSmallest ==
    ASSUME HeapTypeOK, IsHeap, op = "idle", num > 0
    PROVE  \A j \in 1 .. num : At(1) <= At(j)
  <1> DEFINE T == {j \in 1 .. num : At(j) < At(1)}
  <1> SUFFICES ASSUME T # {} PROVE FALSE
    <2> SUFFICES ASSUME NEW j \in 1 .. num, ~(At(1) <= At(j)) PROVE FALSE
      OBVIOUS
    <2>1. At(1) \in Nat /\ At(j) \in Nat
      BY AtNat DEF HeapTypeOK
    <2> QED
      BY <2>1
  <1>1. num \in Nat /\ T \subseteq Nat
    BY DEF HeapTypeOK
  <1>2. PICK m \in T : \A j \in T : ~(<<j, m>> \in OpToRel(<, Nat))
    BY <1>1, NatLessThanWellFounded, WFMin
  <1>3. \A j \in T : ~(j < m)
    BY <1>1, <1>2 DEF OpToRel
  <1>4. m \in 2 .. num /\ At(m) < At(1) /\ At(1) \in Nat /\ At(m) \in Nat
    BY <1>1, AtNat
  <1>5. PARENT(m) \in 1 .. m - 1
    BY <1>1, <1>4, ParentSmaller
  <1>6. At(PARENT(m)) <= At(m) /\ At(PARENT(m)) \in Nat
    BY <1>1, <1>4, <1>5, AtNat DEF IsHeap
  <1>7. PARENT(m) \in T
    BY <1>1, <1>4, <1>5, <1>6
  <1> QED
    BY <1>1, <1>3, <1>5, <1>7

-----------------------------------------------------------------------------

(* What a swap of two keys does.                                           *)
LEMMA SwapAt ==
    ASSUME HeapTypeOK, NEW a \in 1 .. num, NEW b \in 1 .. num,
           frames' = FRAME_SWAP(POS(a), POS(b))
    PROVE  /\ frames' \in [Slots -> Ids \union {NULL}]
           /\ At(a)' = At(b)
           /\ At(b)' = At(a)
           /\ \A j \in 1 .. num : j \notin {a, b} => At(j)' = At(j)
  <1>1. POS(a) \in Slots /\ POS(b) \in Slots
    BY AtNat
  <1>2. \A j \in 1 .. num : j \notin {a, b} => POS(j) \in Slots \ {POS(a), POS(b)}
    BY AtNat DEF POS, HeapTypeOK
  <1>3. POS(a) = POS(b) => a = b
    BY DEF POS, HeapTypeOK
  <1>4. frames \in [Slots -> Ids \union {NULL}]
    BY DEF HeapTypeOK
  <1>5. frames' = [frames EXCEPT ![POS(a)] = frames[POS(b)], ![POS(b)] = frames[POS(a)]]
    BY DEF FRAME_SWAP
  <1>6. frames' \in [Slots -> Ids \union {NULL}]
    BY <1>1, <1>4, <1>5
  <1>7. At(a)' = At(b) /\ At(b)' = At(a)
    BY <1>1, <1>3, <1>4, <1>5 DEF At
  <1>8. ASSUME NEW j \in 1 .. num, j \notin {a, b} PROVE At(j)' = At(j)
    BY <1>1, <1>2, <1>4, <1>5, <1>8 DEF At
  <1> QED
    BY <1>6, <1>7, <1>8

(* A frame climbs one level: the keys below it are in order afterwards.    *)
LEMMA UpStep ==
    ASSUME HeapInv, heap_up
    PROVE  HeapInv'
  <1>1. PICK c \in 2 .. num : k = c
    BY DEF HeapInv, UpInv, HeapTypeOK, heap_up
  <1>2. PICK p \in 1 .. c - 1 : p = PARENT(c)
    BY <1>1, ParentSmaller DEF HeapInv, HeapTypeOK
  <1>3. num' = num /\ k' = p /\ op' = "up" /\ op = "up"
    BY <1>1, <1>2 DEF heap_up
  <1>0. num \in Nat /\ num <= Size /\ c \in 1 .. num /\ p \in 1 .. num
    BY DEF HeapInv, HeapTypeOK
  <1>4. At(c) \in Nat /\ At(p) \in Nat
    BY <1>0, AtNat DEF HeapInv
  <1>5. /\ \A j \in 2 .. num : j # c => Ordered(j)
        /\ \A j \in 2 .. num : PARENT(j) = c => At(p) <= At(j)
    BY <1>1, <1>2, <1>3 DEF HeapInv, UpInv
  <1>6. ASSUME NEW j \in 2 .. num
        PROVE  /\ PARENT(j) \in 1 .. j - 1
               /\ PARENT(j) \in 1 .. num
               /\ j \in Nat /\ PARENT(j) \in Nat
               /\ At(j) \in Nat /\ At(PARENT(j)) \in Nat
    <2>1. PARENT(j) \in 1 .. j - 1
      BY <1>0, ParentSmaller
    <2>2. PARENT(j) \in 1 .. num /\ j \in 1 .. num
      BY <1>0, <2>1
    <2> QED
      BY <1>0, <2>1, <2>2, AtNat DEF HeapInv
  <1>7. CASE At(c) < At(p)
    <2>1. frames' = FRAME_SWAP(POS(c), POS(p))
      BY <1>1, <1>2, <1>7 DEF heap_up, At
    <2>2. /\ frames' \in [Slots -> Ids \union {NULL}]
          /\ At(c)' = At(p)
          /\ At(p)' = At(c)
          /\ \A j \in 1 .. num : j \notin {c, p} => At(j)' = At(j)
      BY <1>0, <2>1, SwapAt DEF HeapInv
    <2>3. HeapTypeOK'
      BY <1>0, <1>3, <2>2 DEF HeapInv, HeapTypeOK
    <2>4. ASSUME NEW j \in 2 .. num, j # p PROVE Ordered(j)'
      <3>1. CASE j = c
        BY <1>2, <1>4, <1>7, <2>2, <3>1 DEF Ordered
      <3>2. CASE j # c /\ PARENT(j) = c
        BY <1>2, <1>5, <1>6, <2>2, <2>4, <3>2 DEF Ordered
      <3>3. CASE j # c /\ PARENT(j) = p
        <4>1. At(p) <= At(j) /\ At(j)' = At(j) /\ At(j) \in Nat
          BY <1>5, <1>6, <2>2, <2>4, <3>3 DEF Ordered
        <4> QED
          BY <1>4, <1>7, <2>2, <3>3, <4>1 DEF Ordered
      <3>4. CASE j # c /\ PARENT(j) \notin {c, p}
        BY <1>5, <1>6, <2>2, <2>4, <3>4 DEF Ordered
      <3> QED
        BY <3>1, <3>2, <3>3, <3>4
    <2>5. ASSUME NEW j \in 2 .. num, PARENT(j) = p, p > 1
          PROVE  At(PARENT(p))' <= At(j)'
          <3>0. p \in 2 .. num
        BY <1>0, <2>5
      <3>1. PICK q \in 1 .. p - 1 : q = PARENT(p) /\ q \in 1 .. num
        BY <1>6, <3>0
      <3>2. At(q)' = At(q) /\ At(q) <= At(p) /\ At(q) \in Nat
        BY <1>0, <1>5, <1>6, <2>2, <3>0, <3>1 DEF Ordered
      <3>3. CASE j = c
        BY <1>4, <2>2, <3>1, <3>2, <3>3
      <3>4. CASE j # c
        <4>1. At(p) <= At(j) /\ At(j)' = At(j) /\ At(j) \in Nat
          BY <1>5, <1>6, <2>2, <2>5, <3>4 DEF Ordered
        <4> QED
          BY <1>4, <3>1, <3>2, <4>1
      <3> QED
        BY <3>3, <3>4
    <2>6. UpInv'
      BY <1>0, <1>3, <2>4, <2>5 DEF UpInv, At, Ordered
    <2> QED
      BY <1>3, <2>3, <2>6 DEF HeapInv, IsHeap, DownInv, StaleSlotHarmless
  <1>8. CASE ~(At(c) < At(p))
    <2>1. frames' = frames
      BY <1>1, <1>2, <1>8 DEF heap_up, At
    <2>2. \A j \in Nat : At(j)' = At(j)
      BY <2>1 DEF At
    <2>3. HeapTypeOK'
      BY <1>0, <1>3, <2>1 DEF HeapInv, HeapTypeOK, At
    <2>4. ASSUME NEW j \in 2 .. num PROVE Ordered(j) /\ Ordered(j)'
      <3>1. Ordered(j)
        BY <1>2, <1>4, <1>5, <1>8 DEF Ordered
      <3> QED
        BY <1>6, <2>2, <3>1 DEF Ordered
    <2>5. ASSUME NEW j \in 2 .. num, PARENT(j) = p, p > 1
          PROVE  At(PARENT(p))' <= At(j)'
      <3>1. p \in 2 .. num /\ PARENT(p) \in Nat /\ At(PARENT(p)) \in Nat
        BY <1>0, <1>6, <2>5
      <3>2. At(PARENT(p)) <= At(p) /\ At(p) <= At(j) /\ At(j) \in Nat /\ j \in Nat
        BY <1>6, <2>4, <2>5, <3>1 DEF Ordered
      <3>3. At(PARENT(p)) <= At(j)
        BY <1>4, <3>1, <3>2
      <3> QED
        BY <2>2, <3>1, <3>2, <3>3
    <2>6. UpInv'
      BY <1>0, <1>3, <2>4, <2>5 DEF UpInv, At, Ordered
    <2> QED
      BY <1>3, <2>3, <2>6 DEF HeapInv, IsHeap, DownInv, StaleSlotHarmless
  <1> QED
    BY <1>7, <1>8

(* The son heap_down looks at: it is a son, it is at most one key past the *)
(* last frame, its sibling (if any) does not hold a smaller frame, and no  *)
(* frame is moved when it lies past the last one.                          *)
LEMMA SonChoice ==
    ASSUME HeapInv, op = "down", k < KEY(num)
    PROVE  /\ k \in 1 .. num
           /\ pick_son(k) \in {LEFT_SON(k), RIGHT_SON(k)}
           /\ pick_son(k) \in 1 .. num =>
                \A j \in 2 .. num : PARENT(j) = k => At(pick_son(k)) <= At(j)
           /\ \A j \in 2 .. num : PARENT(j) = k => pick_son(k) \in 2 .. num
           /\ Sinks => pick_son(k) \in 2 .. num /\ At(k) > At(pick_son(k))
           /\ ~Sinks /\ pick_son(k) \in 2 .. num => At(k) <= At(pick_son(k))
  <1>1. k \in 1 .. num /\ num \in Nat
    BY DEF HeapInv, HeapTypeOK, KEY
  <1>2. pick_son(k) \in {LEFT_SON(k), RIGHT_SON(k)}
    BY DEF pick_son
  <1>3. pick_son(k) \in Nat /\ pick_son(k) >= 2 /\ pick_son(k) > k
    BY <1>1, <1>2 DEF LEFT_SON, RIGHT_SON
  <1>4. RIGHT_SON(k) < KEY(num) <=> RIGHT_SON(k) <= num
    BY <1>1 DEF RIGHT_SON, KEY
  <1>5. ASSUME NEW j \in 2 .. num, PARENT(j) = k
        PROVE  j \in {LEFT_SON(k), RIGHT_SON(k)} /\ j \in 1 .. num
    BY <1>1, <1>5, SonsOf
  <1>6. ASSUME NEW j \in 2 .. num, PARENT(j) = k PROVE pick_son(k) \in 2 .. num
    <2>1. CASE pick_son(k) = RIGHT_SON(k)
      <3>1. RIGHT_SON(k) <= num
        BY <1>1, <1>4, <2>1 DEF pick_son, LEFT_SON, RIGHT_SON
      <3> QED
        BY <1>1, <1>3, <2>1, <3>1
    <2>2. CASE pick_son(k) = LEFT_SON(k)
      <3>1. LEFT_SON(k) <= j
        BY <1>1, <1>5, <1>6 DEF LEFT_SON, RIGHT_SON
      <3> QED
        BY <1>1, <1>3, <2>2, <3>1
    <2> QED
      BY <1>2, <2>1, <2>2
  <1>7. ASSUME NEW j \in 2 .. num, PARENT(j) = k, pick_son(k) \in 1 .. num
        PROVE  At(pick_son(k)) <= At(j)
    <2>1. At(j) \in Nat /\ At(pick_son(k)) \in Nat
      BY <1>5, <1>7, AtNat DEF HeapInv
    <2>2. CASE j = pick_son(k)
      BY <2>1, <2>2
    <2>3. CASE j # pick_son(k) /\ pick_son(k) = RIGHT_SON(k)
      <3>1. j = LEFT_SON(k)
        BY <1>5, <1>7, <2>3
      <3>2. At(RIGHT_SON(k)) < At(LEFT_SON(k))
        BY <2>3, <3>1 DEF pick_son, At
      <3> QED
        BY <2>1, <2>3, <3>1, <3>2
    <2>4. CASE j # pick_son(k) /\ pick_son(k) = LEFT_SON(k)
      <3>1. j = RIGHT_SON(k) /\ RIGHT_SON(k) <= num
        BY <1>1, <1>5, <1>7, <2>4
      <3>2. ~(At(RIGHT_SON(k)) < At(LEFT_SON(k)))
        BY <1>4, <2>4, <3>1 DEF pick_son, At
      <3> QED
        BY <2>1, <2>4, <3>1, <3>2
    <2> QED
      BY <1>2, <2>2, <2>3, <2>4
  <1>8. At(k) \in Nat
    BY <1>1, AtNat DEF HeapInv
  <1>9. ASSUME Sinks PROVE pick_son(k) \in 2 .. num /\ At(k) > At(pick_son(k))
    <2>1. POS(pick_son(k)) < KEY(num) /\ At(k) > At(pick_son(k))
      BY <1>9 DEF Sinks, At
    <2>2. pick_son(k) <= num + 1
      BY <1>1, <1>3, <2>1 DEF POS, KEY
    <2>3. pick_son(k) # num + 1
      <3> SUFFICES ASSUME pick_son(k) = num + 1 PROVE FALSE
        OBVIOUS
      <3>1. At(pick_son(k)) = frames[num]
        BY <1>1 DEF At, POS
      <3>2. frames[num] = At(k)
        BY <1>1 DEF HeapInv, StaleSlotHarmless
      <3> QED
        BY <1>8, <2>1, <3>1, <3>2
    <2> QED
      BY <1>1, <1>3, <2>1, <2>2, <2>3
  <1>10. ASSUME ~Sinks, pick_son(k) \in 2 .. num PROVE At(k) <= At(pick_son(k))
    <2>1. POS(pick_son(k)) < KEY(num)
      BY <1>1, <1>10 DEF POS, KEY
    <2>2. ~(At(k) > At(pick_son(k)))
      BY <1>10, <2>1 DEF Sinks, At
    <2>3. At(pick_son(k)) \in Nat
      <3>1. pick_son(k) \in 1 .. num
        BY <1>1, <1>10
      <3> QED
        BY <3>1, AtNat DEF HeapInv
    <2> QED
      BY <1>8, <2>2, <2>3
  <1> QED
    BY <1>1, <1>2, <1>6, <1>7, <1>9, <1>10

(* A frame sinks one level: the keys above it are in order afterwards.     *)
LEMMA DownStep ==
    ASSUME HeapInv, heap_down
    PROVE  HeapInv'
  <1>1. PICK c \in 1 .. num : k = c
    BY SonChoice DEF heap_down
  <1>2. PICK s \in 2 .. num : s = pick_son(c)
    BY <1>1, SonChoice DEF heap_down
  <1>3. num' = num /\ k' = s /\ op' = "down" /\ op = "down"
    BY <1>1, <1>2 DEF heap_down
  <1>0. num \in Nat /\ num < Size /\ s \in 1 .. num
    BY <1>3 DEF HeapInv, HeapTypeOK, DownInv
  <1>4. At(c) \in Nat /\ At(s) \in Nat /\ At(s) < At(c)
    BY <1>0, <1>1, <1>2, AtNat, SonChoice DEF HeapInv, heap_down
  <1>5. /\ \A j \in 2 .. num : PARENT(j) # c => Ordered(j)
        /\ \A j \in 2 .. num : PARENT(j) = c /\ c > 1 => At(PARENT(c)) <= At(j)
        /\ \A j \in 2 .. num : PARENT(j) = c => At(s) <= At(j)
    BY <1>0, <1>1, <1>2, <1>3, SonChoice DEF HeapInv, DownInv, heap_down
  <1>6. ASSUME NEW j \in 2 .. num
        PROVE  /\ PARENT(j) \in 1 .. j - 1
               /\ PARENT(j) \in 1 .. num
               /\ j \in Nat /\ PARENT(j) \in Nat
               /\ At(j) \in Nat /\ At(PARENT(j)) \in Nat
    <2>1. PARENT(j) \in 1 .. j - 1
      BY <1>0, ParentSmaller
    <2>2. PARENT(j) \in 1 .. num /\ j \in 1 .. num
      BY <1>0, <2>1
    <2> QED
      BY <1>0, <2>1, <2>2, AtNat DEF HeapInv
  <1>7. PARENT(s) = c
    <2>1. s = LEFT_SON(c) \/ s = RIGHT_SON(c)
      BY <1>1, <1>2, SonChoice DEF heap_down
    <2> QED
      BY <1>0, <2>1, SonsOf
  <1>8. c # s /\ c < s
    BY <1>0, <1>6, <1>7
  <1>9. frames' = FRAME_SWAP(POS(c), POS(s))
    BY <1>1, <1>2 DEF heap_down
  <1>10. /\ frames' \in [Slots -> Ids \union {NULL}]
         /\ At(c)' = At(s)
         /\ At(s)' = At(c)
         /\ \A j \in 1 .. num : j \notin {c, s} => At(j)' = At(j)
    BY <1>0, <1>9, SwapAt DEF HeapInv
  <1>11. HeapTypeOK'
    BY <1>0, <1>3, <1>10 DEF HeapInv, HeapTypeOK
  <1>12. ASSUME NEW j \in 2 .. num, PARENT(j) # s PROVE Ordered(j)'
    <2>1. CASE j = s
      BY <1>4, <1>7, <1>10, <2>1 DEF Ordered
    <2>2. CASE j # s /\ PARENT(j) = c
      <3>1. j # c /\ j \in 1 .. num
        BY <1>0, <1>6, <2>2
      <3> QED
        BY <1>5, <1>10, <2>2, <3>1 DEF Ordered
    <2>3. CASE j = c
      <3>1. c > 1 /\ PARENT(c) \notin {c, s} /\ PARENT(c) \in 1 .. num
        BY <1>0, <1>6, <1>8, <2>3
      <3>2. At(PARENT(c)) <= At(s)
        BY <1>5, <1>7, <3>1
      <3> QED
        BY <1>10, <2>3, <3>1, <3>2 DEF Ordered
    <2>4. CASE j \notin {c, s} /\ PARENT(j) # c
      <3>1. Ordered(j) /\ PARENT(j) \notin {c, s} /\ PARENT(j) \in 1 .. num /\ j \in 1 .. num
        BY <1>0, <1>5, <1>6, <1>12, <2>4
      <3> QED
        BY <1>10, <2>4, <3>1 DEF Ordered
    <2> QED
      BY <2>1, <2>2, <2>3, <2>4
  <1>13. ASSUME NEW j \in 2 .. num, PARENT(j) = s
         PROVE  At(PARENT(s))' <= At(j)'
    <2>1. j \notin {c, s} /\ j \in 1 .. num
      BY <1>0, <1>6, <1>8, <1>13
    <2>2. At(s) <= At(j)
      BY <1>5, <1>8, <1>13 DEF Ordered
    <2> QED
      BY <1>7, <1>10, <2>1, <2>2
  <1>14. DownInv'
    BY <1>0, <1>3, <1>12, <1>13 DEF DownInv, At, Ordered
  <1>15. StaleSlotHarmless'
    <2>1. frames[num] = At(c)
      BY <1>0, <1>1, <1>3 DEF HeapInv, StaleSlotHarmless
    <2>2. num \in Slots /\ num \notin {POS(c), POS(s)} /\ POS(s) \in Slots /\ POS(c) \in Slots
      BY <1>0 DEF Slots, POS
    <2>3. frames'[num] = frames[num]
      BY <1>9, <2>2 DEF FRAME_SWAP, HeapInv, HeapTypeOK
    <2> QED
      BY <1>3, <1>10, <2>1, <2>2, <2>3 DEF StaleSlotHarmless, At
  <1> QED
    BY <1>3, <1>11, <1>14, <1>15 DEF HeapInv, IsHeap, UpInv

(* A put leaves everything in order but the new last frame.                *)
LEMMA HeapPut ==
    ASSUME HeapInv, NEW f \in Ids, heap_put(f)
    PROVE  HeapInv'
  <1>1. num \in Nat /\ num < Size /\ num' = num + 1 /\ k' = num + 1 /\ op' = "up" /\ op = "idle"
    BY DEF HeapInv, HeapTypeOK, heap_put, KEY
  <1>2. frames' = [frames EXCEPT ![num] = f] /\ num \in Slots
    BY <1>1 DEF heap_put, Slots
  <1>3. ASSUME NEW j \in 1 .. num PROVE At(j)' = At(j)
    <2>1. POS(j) # num /\ POS(j) \in Slots
      BY <1>1 DEF POS, Slots
    <2> QED
      BY <1>2, <2>1 DEF At, HeapInv, HeapTypeOK
  <1>4. \A j \in 1 .. num' : At(j)' \in Ids
    <2> TAKE j \in 1 .. num'
    <2>1. CASE j \in 1 .. num
      BY <1>3, <2>1 DEF HeapInv, HeapTypeOK
    <2>2. CASE j \notin 1 .. num
      <3>1. j = num + 1 /\ POS(j) = num
        BY <1>1, <2>2 DEF POS
      <3> QED
        BY <1>2, <3>1 DEF At, HeapInv, HeapTypeOK
    <2> QED
      BY <2>1, <2>2
  <1>5. frames' \in [Slots -> Ids \union {NULL}]
    BY <1>2 DEF HeapInv, HeapTypeOK
  <1>6. HeapTypeOK'
    BY <1>1, <1>4, <1>5 DEF HeapTypeOK
  <1>7. ASSUME NEW j \in 2 .. num', j # k' PROVE Ordered(j)'
    <2>1. j \in 2 .. num /\ j \in 1 .. num
      BY <1>1, <1>7
    <2>2. PARENT(j) \in 1 .. num
      <3>1. PARENT(j) \in 1 .. j - 1
        BY <1>1, <2>1, ParentSmaller
      <3> QED
        BY <1>1, <2>1, <3>1
    <2>3. At(PARENT(j)) <= At(j)
      BY <1>1, <2>1 DEF HeapInv, IsHeap
    <2> QED
      BY <1>3, <2>1, <2>2, <2>3 DEF Ordered
  <1>8. ASSUME NEW j \in 2 .. num' PROVE PARENT(j) # k'
    <2>1. j \in Nat /\ j <= num + 1 /\ j >= 2
      BY <1>1
    <2>2. PARENT(j) \in 1 .. j - 1
      BY <2>1, ParentSmaller
    <2> QED
      BY <1>1, <2>1, <2>2
  <1>9. UpInv'
    BY <1>1, <1>7, <1>8 DEF UpInv
  <1> QED
    BY <1>1, <1>6, <1>9 DEF HeapInv, IsHeap, DownInv, StaleSlotHarmless

(* A get leaves everything in order but the new root.                      *)
LEMMA HeapGet ==
    ASSUME HeapInv, heap_get
    PROVE  HeapInv'
  <1>1. /\ num \in 1 .. Size /\ num' = num - 1
        /\ k' = 1 /\ op' = "down" /\ op = "idle"
    BY DEF HeapInv, HeapTypeOK, heap_get, KEY
  <1>2. frames' = [frames EXCEPT ![0] = frames[num - 1]] /\ 0 \in Slots
    BY DEF heap_get, Slots
  <1>3. num - 1 \in Slots /\ frames[num - 1] = At(num) /\ At(num) \in Ids
    BY <1>1 DEF Slots, At, POS, HeapInv, HeapTypeOK
  <1>4. ASSUME NEW j \in 2 .. num PROVE At(j)' = At(j)
    <2>1. POS(j) # 0 /\ POS(j) \in Slots
      BY <1>1 DEF POS, Slots
    <2> QED
      BY <1>2, <2>1 DEF At, HeapInv, HeapTypeOK
  <1>5. At(1)' = At(num)
    BY <1>2, <1>3 DEF At, POS, HeapInv, HeapTypeOK
  <1>6. \A j \in 1 .. num' : At(j)' \in Ids
    <2> TAKE j \in 1 .. num'
    <2>1. CASE j = 1
      BY <1>3, <1>5, <2>1
    <2>2. CASE j # 1
      <3>1. j \in 2 .. num /\ j \in 1 .. num
        BY <1>1, <2>2
      <3> QED
        BY <1>4, <3>1 DEF HeapInv, HeapTypeOK
    <2> QED
      BY <2>1, <2>2
  <1>7. frames' \in [Slots -> Ids \union {NULL}]
    BY <1>2, <1>3 DEF HeapInv, HeapTypeOK
  <1>8. HeapTypeOK'
    <2>1. num' \in 0 .. Size /\ k' \in 1 .. Size
      BY <1>1
    <2> QED
      BY <1>1, <1>6, <1>7, <2>1 DEF HeapTypeOK
  <1>9. ASSUME NEW j \in 2 .. num', PARENT(j) # k' PROVE Ordered(j)'
    <2>1. j \in 2 .. num /\ j \in Nat /\ j >= 2
      BY <1>1
    <2>2. PARENT(j) \in 1 .. j - 1
      BY <2>1, ParentSmaller
    <2>3. PARENT(j) \in 2 .. num
      BY <1>1, <1>9, <2>1, <2>2
    <2>4. At(PARENT(j)) <= At(j)
      BY <1>1, <2>1 DEF HeapInv, IsHeap
    <2> QED
      BY <1>4, <2>1, <2>3, <2>4 DEF Ordered
  <1>10. DownInv'
    <2>1. num' < Size /\ (1 \in 1 .. num' \/ num' = 0)
      BY <1>1
    <2> QED
      BY <1>1, <1>9, <2>1 DEF DownInv
  <1>11. StaleSlotHarmless'
    <2>1. CASE num - 1 = 0
      BY <1>1, <2>1 DEF StaleSlotHarmless
    <2>2. CASE num - 1 # 0
      <3>1. frames'[num - 1] = At(num)
        BY <1>2, <1>3, <2>2 DEF HeapInv, HeapTypeOK
      <3>2. At(k)' = At(1)'
        BY <1>1 DEF At
      <3> QED
        BY <1>1, <1>3, <1>5, <3>1, <3>2 DEF StaleSlotHarmless
    <2> QED
      BY <2>1, <2>2
  <1> QED
    BY <1>1, <1>8, <1>10, <1>11 DEF HeapInv, IsHeap, UpInv

(* The end of a sift loop leaves a heap.                                   *)
LEMMA HeapDone ==
    ASSUME HeapInv, heap_up_done \/ heap_down_done
    PROVE  HeapInv'
  <1>1. UNCHANGED <<frames, num, k>> /\ op' = "idle" /\ num \in Nat
    BY DEF heap_up_done, heap_down_done, HeapInv, HeapTypeOK
  <1>2. HeapTypeOK'
    BY <1>1 DEF HeapInv, HeapTypeOK, At
  <1>3. ASSUME NEW j \in 2 .. num PROVE At(PARENT(j)) <= At(j)
    <2>1. CASE heap_up_done
      <3>1. j # k
        BY <1>1, <2>1 DEF heap_up_done, HeapInv, UpInv
      <3> QED
        BY <2>1, <3>1 DEF heap_up_done, HeapInv, UpInv, Ordered
    <2>2. CASE heap_down_done /\ PARENT(j) # k
      BY <2>2 DEF heap_down_done, HeapInv, DownInv, Ordered
    <2>3. CASE heap_down_done /\ PARENT(j) = k
      <3>1. PARENT(j) \in 1 .. j - 1
        BY <1>1, ParentSmaller
      <3>2. k < KEY(num) /\ op = "down" /\ ~Sinks
        BY <1>1, <2>3, <3>1 DEF KEY, heap_down_done
      <3>3. /\ pick_son(k) \in 2 .. num
            /\ At(k) <= At(pick_son(k)) /\ At(pick_son(k)) <= At(j)
        BY <1>1, <2>3, <3>2, SonChoice
      <3>4. At(k) \in Nat /\ At(pick_son(k)) \in Nat /\ At(j) \in Nat
        <4>1. k \in 1 .. num /\ pick_son(k) \in 1 .. num /\ j \in 1 .. num
          BY <1>1, <3>2, <3>3, SonChoice
        <4> QED
          BY <4>1, AtNat DEF HeapInv
      <3> QED
        BY <2>3, <3>3, <3>4
    <2> QED
      BY <2>1, <2>2, <2>3
  <1>4. IsHeap'
    BY <1>1, <1>3 DEF IsHeap, At
  <1> QED
    BY <1>1, <1>2, <1>4 DEF HeapInv, UpInv, DownInv, StaleSlotHarmless

LEMMA HeapNextInv == HeapInv /\ [HeapNext]_heapVars => HeapInv'
  <1> SUFFICES ASSUME HeapInv, [HeapNext]_heapVars PROVE HeapInv'
    OBVIOUS
  <1>1. CASE UNCHANGED heapVars
    BY <1>1 DEF heapVars, HeapInv, HeapTypeOK, IsHeap, UpInv, DownInv, StaleSlotHarmless, At, Ordered
  <1>2. CASE \E f \in Ids : heap_put_full(f)
    BY <1>2 DEF heap_put_full, HeapInv, HeapTypeOK, IsHeap, UpInv, DownInv, StaleSlotHarmless, At, Ordered
  <1>3. CASE heap_get_empty
    BY <1>3 DEF heap_get_empty, HeapInv, HeapTypeOK, IsHeap, UpInv, DownInv, StaleSlotHarmless, At, Ordered
  <1> QED
    BY <1>1, <1>2, <1>3, HeapPut, HeapGet, UpStep, DownStep, HeapDone DEF HeapNext

-----------------------------------------------------------------------------

(* Whenever the pool's lock is free the READY queue is a heap, and a       *)
(* sift-down never moves the frame left behind past the end of the array.  *)
THEOREM HeapCorrect == HeapSpec => [](HeapTypeOK /\ IsHeap /\ StaleSlotHarmless)
  <1>1. HeapSpec => []HeapInv
    BY HeapInitInv, HeapNextInv, PTL DEF HeapSpec
  <1> QED
    BY <1>1, PTL DEF HeapInv

(* For every capacity and every set of ids, a get of the READY queue takes *)
(* a frame of smallest id.                                                 *)
THEOREM SmallestFirst == HeapSpec => GetsSmallest
  <1>1. HeapInv /\ [HeapNext]_heapVars => [heap_get => \A j \in 1 .. num : ret'[2] <= At(j)]_heapVars
    <2> SUFFICES ASSUME HeapInv, heap_get, NEW j \in 1 .. num PROVE ret'[2] <= At(j)
      OBVIOUS
    <2>1. ret'[2] = At(1) /\ op = "idle" /\ num > 0
      BY DEF heap_get, At, POS
    <2> QED
      BY <2>1, RootSmallest DEF HeapInv
  <1>2. HeapSpec => []HeapInv
    BY HeapInitInv, HeapNextInv, PTL DEF HeapSpec
  <1> QED
    BY <1>1, <1>2, PTL DEF HeapSpec, GetsSmallest

(* The slot behind the last element that sifting down reads is within the  *)
(* array and never decides the outcome.                                    *)
THEOREM StaleSlotIgnored == HeapSpec => []StaleSlotHarmless
  BY HeapCorrect, PTL

-----------------------------------------------------------------------------
(* The heap as a bag: its frames are counted by their ids, and a count     *)
(* only depends on which frames the keys 1 .. num hold, in any order.      *)

Where(i) == {j \in 1 .. num : At(j) = i}

LEMMA WhereFinite ==
    ASSUME HeapTypeOK, NEW i
    PROVE  IsFiniteSet(Where(i)) /\ Cardinality(Where(i)) \in 0 .. num
  <1>1. num \in Nat
    BY DEF HeapTypeOK
  <1>2. IsFiniteSet(1 .. num) /\ Cardinality(1 .. num) = num
    BY <1>1, FS_Interval
  <1>3. Where(i) \in SUBSET (1 .. num)
    BY DEF Where
  <1>4. IsFiniteSet(Where(i)) /\ Cardinality(Where(i)) <= num
    BY <1>2, <1>3, FS_Subset
  <1> QED
    BY <1>1, <1>4, FS_CardinalityType

LEMMA Counted ==
    ASSUME HeapTypeOK
    PROVE  /\ Count \in [Ids -> 0 .. num]
           /\ \A i \in Ids : Count[i] = Cardinality(Where(i))
  BY WhereFinite DEF Count, Where

(* A swap of two keys counts the same frames.                              *)
LEMMA SwapCounts ==
    ASSUME HeapTypeOK, NEW a \in 1 .. num, NEW b \in 1 .. num, num' = num,
           frames' = FRAME_SWAP(POS(a), POS(b))
    PROVE  Count' = Count
  <1>1. /\ At(a)' = At(b) /\ At(b)' = At(a)
        /\ \A j \in 1 .. num : j \notin {a, b} => At(j)' = At(j)
    BY SwapAt
  <1>2. ASSUME NEW i \in Ids PROVE Cardinality(Where(i)') = Cardinality(Where(i))
    <2> DEFINE swap == [j \in Where(i) |-> IF j = a THEN b ELSE IF j = b THEN a ELSE j]
    <2>1. Where(i)' = {j \in 1 .. num : At(j)' = i}
      BY DEF Where
    <2>2. \A j \in Where(i) : swap[j] \in Where(i)'
      BY <1>1, <2>1 DEF Where
    <2>3. \A j \in Where(i)' : \E l \in Where(i) : swap[l] = j
      <3> SUFFICES ASSUME NEW j \in Where(i)' PROVE \E l \in Where(i) : swap[l] = j
        OBVIOUS
      <3>1. CASE j = a
        BY <1>1, <2>1, <3>1 DEF Where
      <3>2. CASE j = b
        BY <1>1, <2>1, <3>2 DEF Where
      <3>3. CASE j \notin {a, b}
        BY <1>1, <2>1, <3>3 DEF Where
      <3> QED
        BY <3>1, <3>2, <3>3
    <2>4. \A j, l \in Where(i) : swap[j] = swap[l] => j = l
      OBVIOUS
    <2>5. swap \in Bijection(Where(i), Where(i)')
      BY <2>2, <2>3, <2>4, Fun_IsBij
    <2> QED
      BY <2>5, WhereFinite, Fun_ExistsBij, FS_Bijection
  <1> QED
    BY <1>2 DEF Count, Where

(* The frames of the bag are as many as the frames of the heap: each key   *)
(* has a number among the keys that hold its id.                           *)
LEMMA HeldCounted == HeapTypeOK => Priority!Total = num
  <1> SUFFICES ASSUME HeapTypeOK PROVE Cardinality(Priority!Held) = num
    <2>1. Priority!Cardinality(Priority!Held) = Cardinality(Priority!Held)
      BY DEF Priority!Cardinality, Cardinality
    <2> QED
      BY <2>1 DEF Priority!Total
  <1> DEFINE key == [i \in Ids |-> CHOOSE x : x \in Bijection(1 .. Count[i], Where(i))]
             h == [e \in Priority!Held |-> key[e[1]][e[2]]]
  <1>1. num \in Nat /\ num <= Size /\ \A j \in 1 .. num : At(j) \in Ids
    BY DEF HeapTypeOK
  <1>2. ASSUME NEW i \in Ids PROVE key[i] \in Bijection(1 .. Count[i], Where(i))
    <2>1. PICK n \in Nat : ExistsBijection(1 .. n, Where(i))
      BY WhereFinite, FS_NatBijection
    <2>2. n = Count[i]
      BY <2>1, Counted, FS_CountingElements
    <2>3. \E x : x \in Bijection(1 .. Count[i], Where(i))
      BY <2>1, <2>2, Fun_ExistsBij
    <2> QED
      BY <2>3
  <1> HIDE DEF key
  <1>3. \A i \in Ids :
            /\ \A n \in 1 .. Count[i] : key[i][n] \in Where(i)
            /\ \A n, l \in 1 .. Count[i] : key[i][n] = key[i][l] => n = l
            /\ \A j \in Where(i) : \E n \in 1 .. Count[i] : key[i][n] = j
    <2> TAKE i \in Ids
    <2>1. key[i] \in Bijection(1 .. Count[i], Where(i))
      BY <1>2
    <2> QED
      BY <2>1 DEF Bijection, Injection, Surjection, IsInjective
  <1>4. ASSUME NEW i, NEW n
        PROVE  <<i, n>> \in Priority!Held <=> i \in Ids /\ n \in 1 .. Count[i]
    <2>1. i \in Ids => Count[i] \in Nat /\ Count[i] <= Size
      BY <1>1, Counted
    <2> QED
      BY <2>1 DEF Priority!Held
  <1>5. \A e \in Priority!Held : e = <<e[1], e[2]>> /\ e[1] \in Ids /\ e[2] \in 1 .. Count[e[1]]
    <2>1. \A e \in Priority!Held : e = <<e[1], e[2]>>
      BY DEF Priority!Held
    <2> QED
      BY <1>4, <2>1
  <1>6. \A e \in Priority!Held : h[e] \in 1 .. num /\ At(h[e]) = e[1]
    BY <1>3, <1>5 DEF Where
  <1>7. \A e, d \in Priority!Held : h[e] = h[d] => e = d
    <2> SUFFICES ASSUME NEW e \in Priority!Held, NEW d \in Priority!Held, h[e] = h[d] PROVE e = d
      OBVIOUS
    <2>1. e[1] = d[1]
      BY <1>6
    <2>2. e[2] = d[2]
      BY <1>3, <1>5, <2>1
    <2> QED
      BY <1>5, <2>1, <2>2
  <1>8. \A j \in 1 .. num : \E e \in Priority!Held : h[e] = j
    <2> SUFFICES ASSUME NEW j \in 1 .. num PROVE \E e \in Priority!Held : h[e] = j
      OBVIOUS
    <2>1. At(j) \in Ids /\ j \in Where(At(j))
      BY <1>1 DEF Where
    <2>2. PICK n \in 1 .. Count[At(j)] : key[At(j)][n] = j
      BY <1>3, <2>1
    <2>3. <<At(j), n>> \in Priority!Held
      BY <1>4, <2>1
    <2> QED
      BY <2>2, <2>3
  <1>9. h \in Bijection(Priority!Held, 1 .. num)
    BY <1>6, <1>7, <1>8, Fun_IsBij
  <1>10. ExistsBijection(1 .. num, Priority!Held)
    BY <1>9, Fun_ExistsBij, Fun_ExistsBijSymmetric
  <1> QED
    BY <1>1, <1>10, FS_CountingElements

(* A put adds its frame to the bag, ...                                    *)
LEMMA HeapPutRefines ==
    ASSUME HeapInv, NEW f \in Ids, heap_put(f)
    PROVE  Priority!Put(f)
  <1>1. HeapTypeOK /\ HeapTypeOK' /\ num \in Nat /\ num < Size /\ num' = num + 1
    <2>1. HeapInv'
      BY HeapPut
    <2>2. HeapTypeOK /\ HeapTypeOK'
      BY <2>1 DEF HeapInv
    <2> QED
      BY <2>2 DEF HeapTypeOK, heap_put
  <1>2. \A j \in 1 .. num : At(j)' = At(j)
    <2> TAKE j \in 1 .. num
    <2>1. POS(j) # num /\ POS(j) \in Slots
      BY <1>1 DEF POS, Slots
    <2> QED
      BY <1>1, <2>1 DEF At, heap_put, HeapTypeOK
  <1>3. ASSUME NEW j \in Nat, j = num + 1 PROVE At(j)' = f
    <2>1. POS(j) = num /\ num \in Slots
      BY <1>1, <1>3 DEF POS, Slots
    <2> QED
      BY <1>1, <2>1 DEF At, heap_put, HeapTypeOK
  <1>4. 1 .. num' = 1 .. num \union {num + 1} /\ num + 1 \notin 1 .. num
    BY <1>1
  <1>5. \A i \in Ids : Where(i)' = IF i = f THEN Where(i) \union {num + 1} ELSE Where(i)
    <2>1. \A i \in Ids : Where(i)' = {j \in 1 .. num \union {num + 1} : At(j)' = i}
      BY <1>4 DEF Where
    <2>2. \A j \in 1 .. num \union {num + 1} : At(j)' = IF j = num + 1 THEN f ELSE At(j)
      BY <1>1, <1>2, <1>3, <1>4
    <2> QED
      BY <1>4, <2>1, <2>2 DEF Where
  <1>6. num + 1 \notin Where(f)
    BY <1>4 DEF Where
  <1>7. \A i \in Ids : Cardinality(Where(i)') = IF i = f THEN Cardinality(Where(i)) + 1 ELSE Cardinality(Where(i))
    BY <1>1, <1>5, <1>6, WhereFinite, FS_AddElement
  <1>8. Count' = [i \in Ids |-> Cardinality(Where(i)')]
    BY DEF Count, Where
  <1>9. Count' = [Count EXCEPT ![f] = @ + 1]
    BY <1>1, <1>7, <1>8, Counted
  <1> QED
    BY <1>1, <1>9, HeldCounted DEF Priority!Put, heap_put

(* ... a get takes a smallest one from it: the last frame is swapped with  *)
(* the root, and then dropped.                                             *)
LEMMA HeapGetRefines ==
    ASSUME HeapInv, heap_get
    PROVE  Priority!Get
  <1> DEFINE f == At(1)
  <1>1. HeapTypeOK /\ HeapTypeOK' /\ IsHeap /\ op = "idle" /\ num \in 1 .. Size /\ num' = num - 1
        /\ 1 \in 1 .. num /\ num \in 1 .. num
    BY HeapGet DEF HeapInv, HeapTypeOK, heap_get
  <1>2. f \in Ids /\ ret' = <<"got", f>>
    BY <1>1 DEF HeapTypeOK, heap_get, At, POS
  <1>3. \A j \in 1 .. num : f <= At(j)
    BY <1>1, RootSmallest
  <1>4. ASSUME NEW j \in 1 .. num' PROVE At(j)' = IF j = 1 THEN At(num) ELSE At(j)
    <2>1. POS(j) \in Slots /\ 0 \in Slots /\ (POS(j) = 0 <=> j = 1) /\ j \in 1 .. num
      BY <1>1 DEF POS, Slots
    <2> QED
      BY <1>1, <2>1 DEF At, POS, heap_get, HeapTypeOK
  <1>5. ASSUME NEW i \in Ids
        PROVE  Cardinality(Where(i)') = IF i = f THEN Cardinality(Where(i)) - 1 ELSE Cardinality(Where(i))
    <2>1. 1 .. num' = 1 .. num \ {num}
      BY <1>1
    <2>2. Where(i)' = {j \in 1 .. num \ {num} : At(j)' = i}
      BY <2>1 DEF Where
    <2>3. CASE i = f
      <3>1. Where(i)' = {j \in 1 .. num \ {num} : (IF j = 1 THEN At(num) ELSE At(j)) = i}
        BY <1>4, <2>1, <2>2
      <3> DEFINE R == Where(i) \ {1}
                 move == [j \in R |-> IF j = num THEN 1 ELSE j]
      <3>2. IsFiniteSet(R) /\ Cardinality(R) = Cardinality(Where(i)) - 1
        <4>1. 1 \in Where(i)
          BY <1>1, <2>3 DEF Where
        <4> QED
          BY <1>1, <4>1, WhereFinite, FS_RemoveElement
      <3>3. \A j \in R : move[j] \in Where(i)'
        BY <1>1, <3>1 DEF Where
      <3>4. \A j \in Where(i)' : \E l \in R : move[l] = j
        <4> SUFFICES ASSUME NEW j \in Where(i)' PROVE \E l \in R : move[l] = j
          OBVIOUS
        <4>1. CASE j = 1
          BY <1>1, <3>1, <4>1 DEF Where
        <4>2. CASE j # 1
          BY <1>1, <3>1, <4>2 DEF Where
        <4> QED
          BY <4>1, <4>2
      <3>5. \A j, l \in R : move[j] = move[l] => j = l
        OBVIOUS
      <3>6. move \in Bijection(R, Where(i)')
        BY <3>3, <3>4, <3>5, Fun_IsBij
      <3> QED
        BY <2>3, <3>2, <3>6, Fun_ExistsBij, FS_Bijection
    <2>4. CASE i # f
      <3>1. Where(i)' = {j \in 1 .. num \ {num} : (IF j = 1 THEN At(num) ELSE At(j)) = i}
        BY <1>4, <2>1, <2>2
      <3> DEFINE move == [j \in Where(i) |-> IF j = num THEN 1 ELSE j]
      <3>2. 1 \notin Where(i)
        BY <2>4 DEF Where
      <3>3. \A j \in Where(i) : move[j] \in Where(i)'
        BY <1>1, <3>1, <3>2 DEF Where
      <3>4. \A j \in Where(i)' : \E l \in Where(i) : move[l] = j
        <4> SUFFICES ASSUME NEW j \in Where(i)' PROVE \E l \in Where(i) : move[l] = j
          OBVIOUS
        <4>1. CASE j = 1
          BY <1>1, <3>1, <4>1 DEF Where
        <4>2. CASE j # 1
          BY <1>1, <3>1, <4>2 DEF Where
        <4> QED
          BY <4>1, <4>2
      <3>5. \A j, l \in Where(i) : move[j] = move[l] => j = l
        BY <3>2
      <3>6. move \in Bijection(Where(i), Where(i)')
        BY <3>3, <3>4, <3>5, Fun_IsBij
      <3> QED
        BY <1>1, <2>4, <3>6, WhereFinite, Fun_ExistsBij, FS_Bijection
    <2> QED
      BY <2>3, <2>4
  <1> HIDE DEF f
  <1>6. Count' = [i \in Ids |-> Cardinality(Where(i)')]
    BY DEF Count, Where
  <1>7. Count' = [Count EXCEPT ![f] = @ - 1]
    BY <1>1, <1>2, <1>5, <1>6, Counted
  <1>8. \A g \in Ids : Count[g] > 0 => f <= g
    <2> SUFFICES ASSUME NEW g \in Ids, Count[g] > 0 PROVE f <= g
      OBVIOUS
    <2>1. Where(g) # {}
      BY <1>1, Counted, FS_EmptySet
    <2> QED
      BY <1>3, <2>1 DEF Where
  <1>9. Count[f] > 0
    <2>1. 1 \in Where(f)
      BY <1>1 DEF Where, f
    <2>2. Cardinality(Where(f)) # 0
      BY <1>1, <2>1, WhereFinite, FS_EmptySet
    <2> QED
      BY <1>1, <1>2, <2>2, Counted
  <1> QED
    BY <1>2, <1>7, <1>8, <1>9 DEF Priority!Get

(* ... and the iterations of the sift loops leave it as it is.             *)
LEMMA SiftRefines ==
    ASSUME HeapInv, heap_up \/ heap_up_done \/ heap_down \/ heap_down_done
    PROVE  UNCHANGED Priority!vars
  <1>1. HeapTypeOK /\ UpInv /\ num \in Nat /\ num' = num /\ ret' = ret
    BY DEF HeapInv, HeapTypeOK, heap_up, heap_up_done, heap_down, heap_down_done
  <1>2. frames' = frames => Count' = Count
    BY <1>1 DEF Count, At
  <1>3. CASE heap_up
    <2>1. k \in 1 .. num /\ k >= 2 /\ k \in Nat
      BY <1>1, <1>3 DEF heap_up, UpInv, HeapTypeOK
    <2>2. PARENT(k) \in 1 .. num
      <3>1. PARENT(k) \in 1 .. k - 1
        BY <2>1, ParentSmaller
      <3> QED
        BY <1>1, <2>1, <3>1
    <2>3. frames' = frames \/ frames' = FRAME_SWAP(POS(k), POS(PARENT(k)))
      BY <1>3 DEF heap_up
    <2> QED
      BY <1>1, <1>2, <2>1, <2>2, <2>3, SwapCounts DEF Priority!vars
  <1>4. CASE heap_down
    <2>1. k < KEY(num) /\ Sinks /\ op = "down" /\ frames' = FRAME_SWAP(POS(k), POS(pick_son(k)))
      BY <1>4 DEF heap_down
    <2>2. k \in 1 .. num /\ pick_son(k) \in 1 .. num
      BY <1>1, <2>1, SonChoice
    <2> QED
      BY <1>1, <2>1, <2>2, SwapCounts DEF Priority!vars
  <1>5. CASE heap_up_done \/ heap_down_done
    BY <1>1, <1>2, <1>5 DEF heap_up_done, heap_down_done, Priority!vars
  <1> QED
    BY <1>3, <1>4, <1>5

LEMMA HeapRefusalRefines ==
    ASSUME HeapInv
    PROVE  /\ heap_get_empty => Priority!GetEmpty
           /\ \A f \in Ids : heap_put_full(f) => Priority!PutFull(f)
           /\ UNCHANGED heapVars => UNCHANGED Priority!vars
  <1>1. ASSUME UNCHANGED <<frames, num>> PROVE Count' = Count
    BY <1>1 DEF Count, At
  <1>2. HeapTypeOK /\ num \in 0 .. Size /\ Priority!Total = num
    BY HeldCounted DEF HeapInv, HeapTypeOK
  <1>3. heap_get_empty => Priority!GetEmpty
    BY <1>1, <1>2 DEF heap_get_empty, Priority!GetEmpty
  <1>4. ASSUME NEW f \in Ids, heap_put_full(f) PROVE Priority!PutFull(f)
    <2>1. num = Size
      BY <1>2, <1>4 DEF heap_put_full
    <2> QED
      BY <1>1, <1>2, <1>4, <2>1 DEF heap_put_full, Priority!PutFull
  <1>5. UNCHANGED heapVars => UNCHANGED Priority!vars
    BY <1>1 DEF heapVars, Priority!vars
  <1> QED
    BY <1>3, <1>4, <1>5

(* heap_get and heap_put implement the bounded priority bag: for every     *)
(* capacity and every set of ids no frame is lost, doubled or overtaken    *)
(* while the sift loops move frames around.                                *)
THEOREM HeapRefinement == HeapSpec => ImplementsPriorityPool
  <1>1. HeapInit => Priority!Init
    <2> SUFFICES ASSUME HeapInit PROVE Priority!Init
      OBVIOUS
    <2>1. \A i \in Ids : {j \in 1 .. num : At(j) = i} = {}
      BY DEF HeapInit
    <2> QED
      BY <2>1, FS_EmptySet DEF HeapInit, Count, Priority!Init
  <1>2. HeapInv /\ [HeapNext]_heapVars => [Priority!Next]_(Priority!vars)
    BY HeapPutRefines, HeapGetRefines, SiftRefines, HeapRefusalRefines DEF HeapNext, Priority!Next
  <1>3. HeapSpec => []HeapInv
    BY HeapInitInv, HeapNextInv, PTL DEF HeapSpec
  <1> QED
    BY <1>1, <1>2, <1>3, PTL DEF HeapSpec, Priority!Spec, ImplementsPriorityPool
=============================================================================
