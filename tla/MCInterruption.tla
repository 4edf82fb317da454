--------------------------- MODULE MCInterruption ---------------------------
(* A ring of two frames.  With no frame thread or one: two commands, or    *)
(* one and a signal that comes at any time.  With two: a signal without a  *)
(* socket.                                                                 *)
EXTENDS Interruption
CONSTANTS w1, w2
ManySessions ==
    {[team |-> team, socket |-> TRUE, commands |-> k[1], signal |-> k[2]] :
        team \in {{}, {w1}}, k \in {<<2, "none">>, <<1, "any">>}}
    \union {[team |-> {w1, w2}, socket |-> FALSE, commands |-> 0, signal |-> "waiting"]}
=============================================================================
