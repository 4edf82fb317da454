----------------------------- MODULE FramePool -----------------------------
(***************************************************************************)
(* One TCFramePool of framebuffer.c: a queue of frames behind a mutex and  *)
(* a condition variable.  Threads claim frames in a loop guarded by        *)
(* tc_running(), as the import, frame and export loops do; anyone may put  *)
(* a frame; the main thread stops the program and wakes the sleepers up.   *)
(*                                                                         *)
(* A critical section under the pool's lock is one action.  The order in   *)
(* which the queue returns frames is the business of FrameFifo and         *)
(* FrameHeap: here it is the set of the frames it holds, and since a ring  *)
(* has no more frames than a queue has slots, a put is never refused.      *)
(***************************************************************************)
EXTENDS Integers, FiniteSets

CONSTANTS Frames,     \* the frames of the ring
          Threads,    \* the threads that claim frames from this pool
          NoFrame,    \* the null frame pointer
          Broadcast   \* frame_stages[].broadcast of this pool

ASSUME FramesAssumption == IsFiniteSet(Frames) /\ NoFrame \notin Frames
ASSUME ThreadsAssumption == IsFiniteSet(Threads)
ASSUME BroadcastAssumption == Broadcast \in BOOLEAN

VARIABLES
    queue,      \* the frames in P->queue
    waiting,    \* P->waiting
    pc,         \* where each thread is
    hold,       \* the frame each thread has claimed, or NoFrame
    outside,    \* the frames that are elsewhere in the ring
    status,     \* "running", "stopped" (tc_stop), "interrupted" (the wake-up)
    asleep      \* history: the threads that slept when the wake-up came

vars == <<queue, waiting, pc, hold, outside, status, asleep>>

tc_running == status = "running"

(* The threads in the condition's wait set, and those that have been taken *)
(* out of it but have not got the lock back yet.                           *)
Blocked == {t \in Threads : pc[t] = "blocked"}
Woken   == {t \in Threads : pc[t] = "woken"}

(* Only the NULL pool is full after tc_frame_ring_init; the others are     *)
(* empty, with all the frames elsewhere.                                   *)
Init ==
    /\ \/ queue = Frames /\ outside = {}
       \/ queue = {} /\ outside = Frames
    /\ waiting = 0
    /\ pc = [t \in Threads |-> "loop"]
    /\ hold = [t \in Threads |-> NoFrame]
    /\ status = "running"
    /\ asleep = {}

(* pthread_cond_signal: one sleeper, if there is any. *)
Signalled ==
    IF Blocked = {} THEN pc' = pc
    ELSE \E t \in Blocked : pc' = [pc EXCEPT ![t] = "woken"]

(* pthread_cond_broadcast. *)
Broadcasted ==
    pc' = [t \in Threads |-> IF t \in Blocked THEN "woken" ELSE pc[t]]

(* Mutant: a signal only when the queue was empty. *)
Mut_put_frame(f) ==
    /\ f \in outside
    /\ outside' = outside \ {f}
    /\ queue' = queue \union {f}
    /\ IF queue = {} THEN Signalled ELSE pc' = pc
    /\ UNCHANGED <<waiting, hold, status, asleep>>

(* tc_frame_pool_put_frame by whichever thread has the frame. *)
put_frame(f) ==
    /\ f \in outside
    /\ outside' = outside \ {f}
    /\ queue' = queue \union {f}
    /\ IF waiting > 0 THEN Signalled ELSE pc' = pc
    /\ UNCHANGED <<waiting, hold, status, asleep>>

(* The loop condition of the claiming threads: while (tc_running()). *)
check_running(t) ==
    /\ pc[t] = "loop"
    /\ pc' = [pc EXCEPT ![t] = IF tc_running THEN "claim" ELSE "out"]
    /\ UNCHANGED <<queue, waiting, hold, outside, status, asleep>>

(* Mutant: the frame is read but stays in the queue. *)
Mut_take(t) ==
    \E f \in queue :
        /\ hold' = [hold EXCEPT ![t] = f]
        /\ UNCHANGED queue

(* tc_frame_queue_get on a queue that is not empty. *)
take(t) ==
    \E f \in queue :
        /\ hold' = [hold EXCEPT ![t] = f]
        /\ queue' = queue \ {f}

(* tc_frame_pool_get_frame: a frame at once, whatever the run status is... *)
get_frame(t) ==
    /\ pc[t] = "claim"
    /\ queue # {}
    /\ take(t)
    /\ pc' = [pc EXCEPT ![t] = "has"]
    /\ UNCHANGED <<waiting, outside, status, asleep>>

(* Mutant: the sleeper does not count itself. *)
Mut_get_frame_wait(t) ==
    /\ pc[t] = "claim"
    /\ queue = {}
    /\ pc' = [pc EXCEPT ![t] = "blocked"]
    /\ UNCHANGED <<queue, waiting, hold, outside, status, asleep>>

(* ... or the thread counts itself and sleeps, without a look at the run   *)
(* status.                                                                 *)
get_frame_wait(t) ==
    /\ pc[t] = "claim"
    /\ queue = {}
    /\ waiting' = waiting + 1
    /\ pc' = [pc EXCEPT ![t] = "blocked"]
    /\ UNCHANGED <<queue, hold, outside, status, asleep>>

(* pthread_cond_wait may return without a signal. *)
spurious_wakeup(t) ==
    /\ pc[t] = "blocked"
    /\ pc' = [pc EXCEPT ![t] = "woken"]
    /\ UNCHANGED <<queue, waiting, hold, outside, status, asleep>>

(* The rest of tc_frame_pool_get_frame once a woken thread has the lock:   *)
(* a frame, ...                                                            *)
resume_get(t) ==
    /\ pc[t] = "woken"
    /\ tc_running
    /\ queue # {}
    /\ take(t)
    /\ waiting' = waiting - 1
    /\ pc' = [pc EXCEPT ![t] = "has"]
    /\ UNCHANGED <<outside, status, asleep>>

(* ... sleep again because another thread has taken it, ...                *)
resume_wait(t) ==
    /\ pc[t] = "woken"
    /\ tc_running
    /\ queue = {}
    /\ pc' = [pc EXCEPT ![t] = "blocked"]
    /\ UNCHANGED <<queue, waiting, hold, outside, status, asleep>>

(* Mutants: the early return of an interrupted thread forgets to uncount   *)
(* it; an interrupted thread looks only at the queue.                      *)
Mut_resume_uncounted(t) ==
    /\ pc[t] = "woken"
    /\ ~tc_running
    /\ pc' = [pc EXCEPT ![t] = "out"]
    /\ UNCHANGED <<queue, waiting, hold, outside, status, asleep>>

Mut_resume_deaf(t) ==
    /\ pc[t] = "woken"
    /\ ~tc_running
    /\ pc' = [pc EXCEPT ![t] = "blocked"]
    /\ UNCHANGED <<queue, waiting, hold, outside, status, asleep>>

(* ... or NULL because it was interrupted, which ends the caller's loop.   *)
resume_interrupted(t) ==
    /\ pc[t] = "woken"
    /\ ~tc_running
    /\ waiting' = waiting - 1
    /\ pc' = [pc EXCEPT ![t] = "out"]
    /\ UNCHANGED <<queue, hold, outside, status, asleep>>

(* The claimer passes its frame on to another pool and loops. *)
pass_on(t) ==
    /\ pc[t] = "has"
    /\ hold' = [hold EXCEPT ![t] = NoFrame]
    /\ outside' = outside \union {hold[t]}
    /\ pc' = [pc EXCEPT ![t] = "loop"]
    /\ UNCHANGED <<queue, waiting, status, asleep>>

wakeup == IF Broadcast THEN Broadcasted ELSE Signalled

(* tc_stop_all: tc_stop, and then tc_framebuffer_interrupt. *)
tc_stop ==
    /\ status = "running"
    /\ status' = "stopped"
    /\ UNCHANGED <<queue, waiting, pc, hold, outside, asleep>>

tc_framebuffer_interrupt ==
    /\ status = "stopped"
    /\ status' = "interrupted"
    /\ asleep' = Blocked \union Woken
    /\ wakeup
    /\ UNCHANGED <<queue, waiting, hold, outside>>

(* tc_framebuffer_interrupt_stage, which tc_import_threads_cancel also     *)
(* calls while the program runs.                                           *)
tc_framebuffer_interrupt_stage ==
    /\ tc_running
    /\ wakeup
    /\ UNCHANGED <<queue, waiting, hold, outside, status, asleep>>

Claim(t) ==
    \/ check_running(t)
    \/ get_frame(t) \/ get_frame_wait(t)
    \/ resume_get(t) \/ resume_wait(t) \/ resume_interrupted(t)
    \/ pass_on(t)

Next ==
    \/ \E t \in Threads : Claim(t) \/ spurious_wakeup(t)
    \/ \E f \in Frames : put_frame(f)
    \/ tc_stop \/ tc_framebuffer_interrupt \/ tc_framebuffer_interrupt_stage

(* The claiming threads run, and a stop is followed by its interruption;   *)
(* nothing makes a frame, a spurious wake-up or a stop happen.             *)
Fairness ==
    /\ \A t \in Threads : WF_vars(Claim(t))
    /\ WF_vars(tc_framebuffer_interrupt)

Spec == Init /\ [][Next]_vars /\ Fairness

-----------------------------------------------------------------------------

(* Type invariant of the pool.                                             *)
TypeOK ==
    /\ queue \subseteq Frames
    /\ outside \subseteq Frames
    /\ waiting \in Nat
    /\ pc \in [Threads -> {"loop", "claim", "blocked", "woken", "has", "out"}]
    /\ hold \in [Threads -> Frames \union {NoFrame}]
    /\ status \in {"running", "stopped", "interrupted"}
    /\ asleep \subseteq Threads

(* P->waiting, which decides whether a put signals at all, counts exactly  *)
(* the threads inside the wait loop: sleeping, or woken and not yet back.  *)
WaitingExact == waiting = Cardinality(Blocked) + Cardinality(Woken)

(* While the program runs, if a thread sleeps then every frame in the      *)
(* queue has a woken thread coming for it: no interleaving of put, claim,  *)
(* wake-up and barging threads leaves a frame lying in the pool with a     *)
(* thread asleep for want of it.                                           *)
NoFrameLeftBehind ==
    tc_running /\ Blocked # {} => Cardinality(Woken) >= Cardinality(queue)

(* Claiming a frame keeps it from being claimed twice (framebuffer.h on    *)
(* vframe_reserve): every frame is in the queue, in the hands of one       *)
(* claiming thread, or elsewhere, and in only one of these places.         *)
OneOwner ==
    /\ queue \intersect outside = {}
    /\ \A t \in Threads : hold[t] # NoFrame => hold[t] \notin queue \union outside
    /\ \A t, u \in Threads : t # u /\ hold[t] # NoFrame => hold[t] # hold[u]
    /\ \A t \in Threads : hold[t] # NoFrame <=> pc[t] = "has"
    /\ \A f \in Frames : f \in queue \union outside \/ \E t \in Threads : hold[t] = f

(* A thread that sleeps in the pool when the interruption comes returns    *)
(* from its claim and leaves its loop.                                     *)
SleepersReleased == \A t \in Threads : t \in asleep ~> pc[t] = "out"

(* framebuffer.h on tc_framebuffer_interrupt: any frame-claiming function  *)
(* will fail after the invocation of this function.                        *)
ClaimsFailAfterInterrupt ==
    [][status = "interrupted" => \A t \in Threads : hold'[t] # NoFrame => hold[t] # NoFrame]_vars

(* framebuffer.h on the claiming functions: they block until a frame is    *)
(* available or until an interruption happens; so after an interruption    *)
(* all the claiming threads end.                                           *)
InterruptionEndsAll ==
    status = "interrupted" ~> \A t \in Threads : pc[t] = "out"
=============================================================================
