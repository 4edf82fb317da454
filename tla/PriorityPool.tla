---------------------------- MODULE PriorityPool ----------------------------
(***************************************************************************)
(* What a priority TCFrameQueue promises to the READY pool: a bounded bag  *)
(* of frames from which `get' takes one of smallest id.  Frames are told   *)
(* apart by their id only; a frame and its clone carry the same one.       *)
(***************************************************************************)
EXTENDS Naturals, FiniteSets

CONSTANTS Ids,        \* the frame ids in use
          Size,       \* capacity of the queue
          NULL        \* the null frame pointer

VARIABLES count,      \* how many frames of each id the queue holds
          ret         \* what the last operation returned

vars == <<count, ret>>

(* The frames in the queue: each has its id, and a number among those of   *)
(* that id.                                                                *)
Held  == {e \in Ids \X (1 .. Size) : e[2] <= count[e[1]]}
Total == Cardinality(Held)

Init == count = [i \in Ids |-> 0] /\ ret = <<"got", NULL>>

Put(f) ==
    /\ Total < Size
    /\ count' = [count EXCEPT ![f] = @ + 1]
    /\ ret' = <<"put", 1>>

PutFull(f) ==
    /\ Total = Size
    /\ ret' = <<"put", 0>>
    /\ UNCHANGED count

Get ==
    \E f \in Ids :
        /\ count[f] > 0
        /\ \A g \in Ids : count[g] > 0 => f <= g
        /\ count' = [count EXCEPT ![f] = @ - 1]
        /\ ret' = <<"got", f>>

GetEmpty ==
    /\ Total = 0
    /\ ret' = <<"got", NULL>>
    /\ UNCHANGED count

Next == Get \/ GetEmpty \/ \E f \in Ids : Put(f) \/ PutFull(f)

Spec == Init /\ [][Next]_vars
=============================================================================
