---------------------------- MODULE FrameQueue ----------------------------
(***************************************************************************)
(* What the two flavours of TCFrameQueue (framebuffer.c) have in common:   *)
(* the size of the array of frames.  FrameFifo and FrameHeap add the state *)
(* and the operations that tc_frame_queue_new puts into the queue.         *)
(***************************************************************************)
EXTENDS Integers

CONSTANTS Size,       \* Q->size: slots of the array
          NULL        \* the null frame pointer

ASSUME SizeAssumption == Size \in Nat \ {0}   \* tc_frame_ring_init: at least 1

Slots == 0 .. Size - 1
=============================================================================
