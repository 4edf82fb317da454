---------------------------- MODULE BoundedFifo ----------------------------
(***************************************************************************)
(* What a non-priority TCFrameQueue promises to the frame pool above it: a *)
(* bounded first-in first-out buffer.  `put' on a full buffer refuses the  *)
(* frame (it returns 0) and `get' on an empty one returns NULL.            *)
(***************************************************************************)
EXTENDS Naturals, Sequences

CONSTANTS Frames,     \* the frame pointers
          Size,       \* capacity of the queue
          NULL        \* the null frame pointer

VARIABLES queue,      \* the buffered frames, oldest first
          ret         \* what the last operation returned

vars == <<queue, ret>>

Init == queue = <<>> /\ ret = NULL

Put(f) ==
    /\ Len(queue) < Size
    /\ queue' = Append(queue, f)
    /\ ret' = 1

PutFull(f) ==
    /\ Len(queue) = Size
    /\ ret' = 0
    /\ UNCHANGED queue

Get ==
    /\ queue # <<>>
    /\ ret' = Head(queue)
    /\ queue' = Tail(queue)

GetEmpty ==
    /\ queue = <<>>
    /\ ret' = NULL
    /\ UNCHANGED queue

Next == Get \/ GetEmpty \/ \E f \in Frames : Put(f) \/ PutFull(f)

Spec == Init /\ [][Next]_vars
=============================================================================
