----------------------------- MODULE MCSession -----------------------------
(* Rings of two frames, so that a frame is used again within a part and    *)
(* all of them can be left behind; parts of up to three frames, the audio  *)
(* as long as the video, shorter or longer, and some that leave as much as *)
(* fits into the ring, or one frame more.                                  *)
EXTENDS Session
Eternity == 1000     \* TC_FRAME_LAST
Part(a, b, v, s) == [first |-> a, last |-> b, video |-> v, audio |-> s]
Whole == {Part(0, Eternity, v, s) : v \in 1 .. 3, s \in 1 .. 3}
Ranges == {Part(a, b, v, s) : a \in {0, 1}, b \in {2, 3}, v \in {2, 3}, s \in {2, 3}}
Long(name) ==
    CASE name = "units"     -> {Part(0, Eternity, v, s) : v \in {1, 2}, s \in {4, 5}}
      [] name = "ranges"    -> {Part(a, 2, v, s) : a \in {0, 1}, v \in {4, 5}, s \in {4, 5}}
      [] name = "directory" -> {Part(0, Eternity, v, s) : v \in {1, 2}, s \in {3, 4}}
Modes(name, partses, user) ==
    {[mode |-> name, parts |-> ps, interrupts |-> u] : ps \in partses, u \in user}

ManySessions ==
    Modes("units", {<<p, q>> : p \in Whole, q \in {Part(0, Eternity, 1, 2), Part(1, Eternity, 2, 2),
                                                   Part(0, Eternity, 2, 4)}}, {FALSE})
    \union Modes("ranges", {<<p>> : p \in Ranges} \union {<<p, q>> : p \in Ranges, q \in {Part(1, 3, 2, 2)}}, {FALSE})
    \union Modes("directory", {<<p>> : p \in Whole} \union {<<Part(0, Eternity, 2, 1), Part(0, Eternity, 1, 1)>>}, {FALSE})
    \union UNION {Modes(name, {<<p>> : p \in Long(name)}, {FALSE}) :
                     name \in {"units", "ranges", "directory"}}
    \union Modes("ranges", {<<Part(0, 2, 2, 2), p>> : p \in Long("ranges")}, {FALSE})
    \union Modes("units", {<<Part(0, Eternity, 1, 1), Part(0, Eternity, 1, 1)>>}, {TRUE})
    \union Modes("ranges", {<<Part(0, 2, 2, 3), Part(1, 2, 2, 2)>>}, {TRUE})
    \union Modes("directory", {<<Part(0, Eternity, 2, 2)>>}, {TRUE})

TwoUnits == Modes("units", {<<Part(0, Eternity, 2, 4), Part(0, Eternity, 1, 1)>>}, {FALSE})
=============================================================================
