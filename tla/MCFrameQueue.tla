---------------------------- MODULE MCFrameQueue ----------------------------
(* A queue of each flavour, as tc_frame_queue_new makes them.  They share  *)
(* nothing, so a behaviour works on one of them and leaves the other new.  *)
(*                                                                         *)
(* Seven slots make the heap a complete tree of three levels, so that a    *)
(* sift passes an inner node; four ids give clones (equal ids) and         *)
(* distinct frames.  The circular array wraps, fills and empties in every  *)
(* alignment of its two positions; two pointers tell its slots apart.      *)
EXTENDS FrameFifo, FrameHeap
CONSTANTS f1, f2
PointersMC == {f1, f2}
IdsMC == 1 .. 4

QueuesInit == FifoInit /\ HeapInit
QueuesNext ==
    \/ FifoNext /\ HeapInit /\ UNCHANGED heapVars
    \/ HeapNext /\ FifoInit /\ UNCHANGED fifoVars
QueuesSpec == QueuesInit /\ [][QueuesNext]_<<fifoVars, heapVars>>
=============================================================================
