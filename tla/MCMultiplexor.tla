--------------------------- MODULE MCMultiplexor ---------------------------
(* One unit of four pairs with up to two failures, or two units of two;    *)
(* frames of one megabyte; limits that a pair reaches exactly and that     *)
(* fall between the frames of a pair, set once or twice; a limit in        *)
(* megabytes that does not fit its 32 bits.                                *)
EXTENDS Multiplexor

LimitLists == {<<>>, <<<<"frames", 2>>>>, <<<<"frames", 3>>>>, <<<<"megabytes", 3>>>>,
               <<<<"megabytes", 4096>>>>, <<<<"megabytes", 2>>, <<"frames", 4>>>>}
Session(d, z, u, p, f, l, w) ==
    [dual |-> d, null |-> z, units |-> u, pairs |-> p, failures |-> f, limits |-> l, when |-> w]

ManySessions ==
    {Session(d, FALSE, 1, 4, 2, l, w) : d \in BOOLEAN, l \in LimitLists, w \in {"init", "opened"}}
    \union {Session(d, FALSE, 2, 2, 1, l, "opened") : d \in BOOLEAN, l \in LimitLists}
    \union {Session(d, TRUE, 1, 2, 0, l, "opened") : d \in BOOLEAN, l \in LimitLists}

(* What the -t option asks for. *)
SplitSessions == {Session(FALSE, FALSE, 1, 4, 1, <<<<"frames", n>>>>, "init") : n \in 1 .. 3}
=============================================================================
