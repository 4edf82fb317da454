-------------------------- MODULE MCFramePipeline --------------------------
(* Three frames in the ring and three in the source besides the mark of    *)
(* its end, so that a buffer is used again and each pool can be empty and  *)
(* full; two of each where the failures and interruptions multiply the     *)
(* states.                                                                 *)
EXTENDS FramePipeline
CONSTANTS f1, f2, f3, w1, w2
ThreeFrames == {f1, f2, f3}
TwoFrames   == {f1, f2}
TwoWorkers  == {w1, w2}

Plain(team) ==
    [ring |-> ThreeFrames, team |-> team, source |-> 2, clones |-> {}, skips |-> {},
     intervals |-> FALSE, failures |-> FALSE, interrupts |-> FALSE]

(* Undisturbed, with every way a filter can mark a frame but duplicates. *)
Filtering == {[Plain(team) EXCEPT !.source = 3, !.clones = {"OM", "OS"}, !.skips = Slots,
                                  !.intervals = TRUE] : team \in {{}, {w1}}}
(* Disturbed by a failing encoder and by the user. *)
Disturbed == {[Plain(team) EXCEPT !.ring = TwoFrames, !.clones = {"OM"},
                                  !.failures = TRUE, !.interrupts = u] :
                    team \in {{}, {w1}, {w1, w2}}, u \in BOOLEAN}
(* An encoder that fails and leaves as much of the source as fits into the *)
(* ring, or more, so that the importer has to sleep. *)
LeftOver == {[Plain({}) EXCEPT !.ring = r, !.source = n, !.failures = TRUE] :
                r \in {TwoFrames, ThreeFrames}, n \in 1 .. 4}
(* With a frame thread that duplicates frames. *)
Doubling == {[Plain({w1}) EXCEPT !.ring = TwoFrames, !.source = 1, !.clones = {"EM"},
                                 !.failures = TRUE, !.interrupts = TRUE]}

(* For the promises that the code breaks: two frame threads; clones of the *)
(* last slot; a frame thread that duplicates, with and without a user who  *)
(* interrupts. *)
Overtaking  == {Plain({w1, w2})}
LateClones  == {[Plain({}) EXCEPT !.clones = {"OS"}]}
InDup       == {[Plain({w1}) EXCEPT !.ring = TwoFrames, !.source = 1, !.clones = {"EM"},
                                   !.interrupts = TRUE]}
Exhausting  == {[Plain({w1}) EXCEPT !.source = 3, !.clones = {"EM"}]}

ManySetups == Filtering \union Disturbed \union LeftOver \union Doubling
=============================================================================
