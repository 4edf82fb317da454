----------------------------- MODULE FrameHeap -----------------------------
(***************************************************************************)
(* The priority flavour of TCFrameQueue (framebuffer.c), used by the READY *)
(* pools: a binary heap in an array, smallest frame id at the root.  A     *)
(* frame is represented by its id, the only field the heap reads.  Each    *)
(* iteration of the two sift loops is one action; the pool's lock keeps    *)
(* other operations out until the loop ends.  As in the code, arrays are   *)
(* indexed by positions 0 .. Size-1 and the tree by keys 1 .. Size.        *)
(***************************************************************************)
EXTENDS FrameQueue, FiniteSets

CONSTANT Ids          \* the frame ids in use

ASSUME IdsAssumption == Ids \subseteq Nat /\ NULL \notin Nat

VARIABLES frames,     \* Q->frames: the slots, counted from 0
          num,        \* Q->num
          ret,        \* result of the last get or put
          k,          \* the key the running sift loop is at
          op          \* "idle", or the sift loop that is running

heapVars == <<frames, num, k, op, ret>>

KEY(j) == j + 1
POS(key) == key - 1
PARENT(key) == key \div 2
LEFT_SON(key) == key * 2
RIGHT_SON(key) == key * 2 + 1

FRAME_SWAP(a, b) == [frames EXCEPT ![a] = frames[b], ![b] = frames[a]]

HeapInit ==
    /\ frames = [i \in Slots |-> NULL]
    /\ num = 0
    /\ k = 1
    /\ op = "idle"
    /\ ret = <<"got", NULL>>

(* Mutant: the bound of the array is checked one frame too late. *)
Mut_heap_put(f) ==
    /\ op = "idle"
    /\ num <= Size
    /\ frames' = [frames EXCEPT ![num] = f]
    /\ num' = num + 1
    /\ ret' = <<"put", 1>>
    /\ op' = "up"
    /\ k' = KEY(num)

heap_put(f) ==
    /\ op = "idle"
    /\ num < Size
    /\ frames' = [frames EXCEPT ![num] = f]
    /\ num' = num + 1
    /\ ret' = <<"put", 1>>
    /\ op' = "up"
    /\ k' = KEY(num)

heap_put_full(f) ==
    /\ op = "idle"
    /\ ~(num < Size)
    /\ ret' = <<"put", 0>>
    /\ UNCHANGED <<frames, num, k, op>>

(* Mutant: parent and son compared the wrong way round. *)
Mut_heap_up ==
    /\ op = "up"
    /\ k > 1
    /\ frames' = IF frames[POS(k)] > frames[POS(PARENT(k))]
                 THEN FRAME_SWAP(POS(k), POS(PARENT(k)))
                 ELSE frames
    /\ k' = PARENT(k)
    /\ UNCHANGED <<num, op, ret>>

(* One iteration of the loop of heap_up, which climbs to the root even     *)
(* when nothing moves any more.                                            *)
heap_up ==
    /\ op = "up"
    /\ k > 1
    /\ frames' = IF frames[POS(k)] < frames[POS(PARENT(k))]
                 THEN FRAME_SWAP(POS(k), POS(PARENT(k)))
                 ELSE frames
    /\ k' = PARENT(k)
    /\ UNCHANGED <<num, op, ret>>

heap_up_done ==
    /\ op = "up"
    /\ ~(k > 1)
    /\ op' = "idle"
    /\ UNCHANGED <<frames, num, k, ret>>

(* Mutant: the slot given back is cleared, as tidiness would suggest. *)
Mut_heap_get ==
    /\ op = "idle"
    /\ num > 1
    /\ ret' = <<"got", frames[0]>>
    /\ num' = num - 1
    /\ frames' = [frames EXCEPT ![0] = frames[num - 1], ![num - 1] = NULL]
    /\ op' = "down"
    /\ k' = KEY(0)

(* The last frame of the array overwrites the root, and stays behind in    *)
(* the slot just given up.                                                 *)
heap_get ==
    /\ op = "idle"
    /\ num > 0
    /\ ret' = <<"got", frames[0]>>
    /\ num' = num - 1
    /\ frames' = [frames EXCEPT ![0] = frames[num - 1]]
    /\ op' = "down"
    /\ k' = KEY(0)

heap_get_empty ==
    /\ op = "idle"
    /\ num = 0
    /\ ret' = <<"got", NULL>>
    /\ UNCHANGED <<frames, num, k, op>>

(* Mutant: the left son always wins. *)
Mut_pick_son(key) == LEFT_SON(key)

pick_son(key) ==
    IF RIGHT_SON(key) < KEY(num)
       /\ frames[POS(RIGHT_SON(key))] < frames[POS(LEFT_SON(key))]
    THEN RIGHT_SON(key)
    ELSE LEFT_SON(key)

(* The test of heap_down compares a position with a key bound, so the son  *)
(* it looks at may be the slot just past the last frame.                   *)
Sinks ==
    LET S == POS(pick_son(k)) IN
    S < KEY(num) /\ frames[POS(k)] > frames[S]

(* Mutant: the sinking frame is copied down, the son is not moved up. *)
Mut_heap_down ==
    /\ op = "down"
    /\ k < KEY(num)
    /\ Sinks
    /\ frames' = [frames EXCEPT ![POS(pick_son(k))] = frames[POS(k)]]
    /\ k' = pick_son(k)
    /\ UNCHANGED <<num, op, ret>>

(* One iteration of the loop of heap_down. *)
heap_down ==
    /\ op = "down"
    /\ k < KEY(num)
    /\ Sinks
    /\ frames' = FRAME_SWAP(POS(k), POS(pick_son(k)))
    /\ k' = pick_son(k)
    /\ UNCHANGED <<num, op, ret>>

heap_down_done ==
    /\ op = "down"
    /\ k < KEY(num) => ~Sinks
    /\ op' = "idle"
    /\ UNCHANGED <<frames, num, k, ret>>

HeapNext ==
    \/ \E f \in Ids : heap_put(f) \/ heap_put_full(f)
    \/ heap_up \/ heap_up_done
    \/ heap_get \/ heap_get_empty
    \/ heap_down \/ heap_down_done

HeapSpec == HeapInit /\ [][HeapNext]_heapVars

-----------------------------------------------------------------------------

At(key) == frames[POS(key)]

(* Type invariant; the slots in use hold frames.                           *)
HeapTypeOK ==
    /\ num \in 0 .. Size
    /\ frames \in [Slots -> Ids \union {NULL}]
    /\ \A j \in 1 .. num : At(j) \in Ids
    /\ op \in {"idle", "up", "down"}
    /\ k \in 1 .. Size

(* is_heap (framebuffer.c, the check of the unit test), whenever no sift   *)
(* loop is running: no frame of the READY pool has a smaller id than its   *)
(* parent.                                                                 *)
IsHeap == op = "idle" => \A j \in 2 .. num : At(PARENT(j)) <= At(j)

(* heap_down may read one slot past the last frame.  The slot is inside    *)
(* the array and holds a copy of the sinking frame, so the comparison      *)
(* with it never moves anything.                                           *)
StaleSlotHarmless ==
    op = "down" /\ num > 0 => num \in Slots /\ frames[num] = At(k)

(* A get takes a frame of smallest id: the encoder receives the frames in  *)
(* the order in which they were read, whatever the order in which the      *)
(* frame threads finished them.                                            *)
GetsSmallest ==
    [][heap_get => \A j \in 1 .. num : ret'[2] <= At(j)]_heapVars

Count == [i \in Ids |-> Cardinality({j \in 1 .. num : At(j) = i})]

Priority == INSTANCE PriorityPool WITH count <- Count

(* heap_get and heap_put implement the bounded priority bag: no frame is   *)
(* lost, duplicated or overtaken while the loops move frames around.       *)
ImplementsPriorityPool == Priority!Spec
=============================================================================
