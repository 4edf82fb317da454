--------------------------- MODULE MCSynchronizer ---------------------------
(* Rings of three frames and sources of up to six; margins below, at and   *)
(* above the size of a ring; shifts to both sides and beyond the end.      *)
EXTENDS Synchronizer

Job(m, v, a, s, margin, interval) ==
    [method |-> m, video |-> v, audio |-> a, sync |-> s,
     frames_margin |-> margin, frames_interval |-> interval]

ManyJobs ==
    {Job("none", v, a, s, 1, 0) : v \in {3, 5}, a \in {3, 5}, s \in {-1, 0, 1, 2, 6}}
    \union {Job("adjust", v, a, s, margin, i) :
                v \in {3, 6}, a \in {4, 6}, s \in {0, 1}, margin \in 0 .. 4, i \in {0, 2}}
=============================================================================
