----------------------------- MODULE FrameFifo -----------------------------
(***************************************************************************)
(* The FIFO flavour of TCFrameQueue (framebuffer.c): a circular array with *)
(* explicit read and write positions and an explicit population count.     *)
(* All the operations run under the lock of the pool that owns the queue,  *)
(* so each one is a single action.                                         *)
(***************************************************************************)
EXTENDS FrameQueue, Sequences

CONSTANT Pointers     \* the frame pointers a caller may put

ASSUME NullAssumption == NULL \notin Pointers

VARIABLES array,      \* Q->frames: the slots, counted from 0
          population, \* Q->num
          first,      \* Q->first: next slot to read
          last,       \* Q->last: next slot to write
          answer      \* result of the last get or put

fifoVars == <<array, population, first, last, answer>>

(* tc_frame_queue_new: zeroed memory, size from the ring. *)
FifoInit ==
    /\ array = [i \in Slots |-> NULL]
    /\ population = 0 /\ first = 0 /\ last = 0
    /\ answer = NULL

(* Mutants: a read position that stops at the last slot instead of wrapping, *)
(* and a put that accepts one frame too many.                               *)
Mut_get_no_wrap ==
    /\ population > 0
    /\ answer' = array[first]
    /\ first' = IF first + 1 = Size THEN first ELSE first + 1
    /\ population' = population - 1
    /\ UNCHANGED <<array, last>>

Mut_put_off_by_one(f) ==
    /\ population <= Size
    /\ array' = [array EXCEPT ![last] = f]
    /\ last' = (last + 1) % Size
    /\ population' = population + 1
    /\ answer' = 1
    /\ UNCHANGED first

fifo_get ==
    /\ population > 0
    /\ answer' = array[first]
    /\ first' = (first + 1) % Size
    /\ population' = population - 1
    /\ UNCHANGED <<array, last>>

fifo_get_empty ==
    /\ population = 0
    /\ answer' = NULL
    /\ UNCHANGED <<array, population, first, last>>

fifo_put(f) ==
    /\ population < Size
    /\ array' = [array EXCEPT ![last] = f]
    /\ last' = (last + 1) % Size
    /\ population' = population + 1
    /\ answer' = 1
    /\ UNCHANGED first

fifo_put_full(f) ==
    /\ ~(population < Size)
    /\ answer' = 0
    /\ UNCHANGED <<array, population, first, last>>

FifoNext ==
    \/ fifo_get
    \/ fifo_get_empty
    \/ \E f \in Pointers : fifo_put(f) \/ fifo_put_full(f)

FifoSpec == FifoInit /\ [][FifoNext]_fifoVars

-----------------------------------------------------------------------------

(* Type invariant: the positions stay inside the array, the count within   *)
(* the capacity.                                                           *)
FifoTypeOK ==
    /\ array \in [Slots -> Pointers \union {NULL}]
    /\ population \in 0 .. Size
    /\ first \in Slots
    /\ last \in Slots
    /\ answer \in Pointers \union {NULL, 0, 1}

(* The i-th slot after the read position. *)
Slot(i) == (first + i) % Size

(* The three redundant indices of fifo_get/fifo_put agree after every wrap *)
(* of the array: the write position is `population' slots after the read   *)
(* one, and every slot between them holds a real frame, so a full and an   *)
(* empty queue (where first = last in both) are never confused.            *)
IndicesAgree ==
    /\ last = Slot(population)
    /\ \A i \in 0 .. population - 1 : array[Slot(i)] # NULL

(* The queue the array stands for. *)
Contents == [i \in 1 .. population |-> array[Slot(i - 1)]]

Bounded == INSTANCE BoundedFifo WITH Frames <- Pointers, queue <- Contents, ret <- answer

(* fifo_get and fifo_put implement the bounded FIFO: frames come out in    *)
(* the order they went in, none is overwritten when the array wraps, a put *)
(* is refused only when full and a get only when empty.                    *)
ImplementsFifo == Bounded!Spec
=============================================================================
