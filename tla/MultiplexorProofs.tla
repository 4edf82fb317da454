------------------------- MODULE MultiplexorProofs -------------------------
(***************************************************************************)
(* The multiplexor and its rotors, for sessions of every length, limits of *)
(* every size and failures at every call: what is allocated, what the      *)
(* files are called and where the frames of a pair go.                     *)
(***************************************************************************)
EXTENDS Multiplexor, FiniteSetTheorems, SequenceTheorems, TLAPS

USE SizeAssumption, SessionAssumption

-----------------------------------------------------------------------------
(* The inductive invariants.                                               *)

Writing == {"video", "audio", "rotate", "rotate_video", "rotate_audio", "return"}

(* Whether the output is open, and whether it never was.                   *)
Open ==
    \/ pc \in Writing \union {"open_aux", "open_failed", "loop", "flush", "close"}
    \/ pc = "limit" /\ session.when = "opened"
Unused == pc = "init" \/ (pc = "limit" /\ session.when = "init")

(* Where the two modes differ, and what a write is called with.            *)
Places ==
    /\ mono => pc \notin {"open_aux", "open_failed", "rotate_video", "rotate_audio", "close_aux"}
    /\ pc = "rotate" => mono
    /\ pc \in {"rotate", "rotate_video", "rotate_audio"} => call.can_rotate
    /\ pc \in Writing /\ call.can_rotate => pair >= 1 /\ call.frames = Media

(* An open output has its rotors; in mono mode the second is an alias.     *)
Allocated ==
    /\ Open => /\ rotor # NULL /\ rotors[rotor].live
               /\ mono => rotor_aux = rotor
               /\ ~mono => rotor_aux # NULL /\ rotor_aux # rotor /\ rotors[rotor_aux].live
    /\ pc = "close_aux" => rotor = NULL /\ rotor_aux # NULL

(* Where nothing failed no other rotor is alive, and none between units.   *)
NoneLeft ==
    faultless =>
        \A i \in DOMAIN rotors :
            rotors[i].live => i \in {rotor, rotor_aux} /\ ~Unused /\ pc # "open"

OwnInv == TypeOK /\ Places /\ Allocated /\ NoneLeft

(* In mono mode the chunks of a unit have numbers below the next one, and  *)
(* only a rotor that numbers its chunks asks for a rotation.               *)
Numbered ==
    /\ \A k \in DOMAIN chunks :
          /\ chunks[k].unit <= unit
          /\ chunks[k].name[1] = <<"video", chunks[k].unit>>
    /\ Unused => chunks = <<>>
    /\ pc = "open" => \A k \in DOMAIN chunks : chunks[k].unit < unit
    /\ Open => /\ rotors[rotor].base = <<"video", unit>>
               /\ \A k \in DOMAIN chunks :
                     chunks[k].unit = unit => chunks[k].name[2] < rotors[rotor].chunk_num
    /\ pc \in {"video", "audio", "rotate"} /\ need_rotate => rotors[rotor].policy # "never"
    /\ pc = "rotate" => need_rotate

NameInv == mono => Numbered /\ NothingOverwritten

(* A pair of which both frames are in one file.                            *)
Whole(p) == \E k \in DOMAIN chunks : {<<"video", p>>, <<"audio", p>>} \subseteq Frames(chunks[k])

WholeInv ==
    mono =>
        /\ pc = "audio" /\ call.can_rotate /\ vret =>
              file[MAIN] # NULL /\ <<"video", pair>> \in Frames(chunks[file[MAIN]])
        /\ pc = "rotate" => Whole(pair)
        /\ pc = "return" /\ call.can_rotate /\ vret /\ aret => Whole(pair)
        /\ \A p \in done : Whole(p)

-----------------------------------------------------------------------------
(* Sequences, rotors and chunks.                                           *)

LEMMA SeqUpdate ==
    ASSUME NEW S, NEW s \in Seq(S), NEW i \in 1 .. Len(s), NEW e \in S
    PROVE  LET t == [s EXCEPT ![i] = e]
           IN  /\ t \in Seq(S) /\ Len(t) = Len(s) /\ DOMAIN t = 1 .. Len(s)
               /\ t[i] = e /\ \A j \in 1 .. Len(s) : j # i => t[j] = s[j]
  BY ExceptSeq, LenProperties

LEMMA SeqAppend ==
    ASSUME NEW S, NEW s \in Seq(S), NEW e \in S
    PROVE  LET t == Append(s, e)
           IN  /\ t \in Seq(S) /\ Len(s) \in Nat /\ Len(t) = Len(s) + 1
               /\ DOMAIN s = 1 .. Len(s) /\ DOMAIN t = 1 .. (Len(s) + 1)
               /\ t[Len(s) + 1] = e /\ \A j \in 1 .. Len(s) : t[j] = s[j]
  BY AppendProperties, LenProperties

(* What the calls leave of a rotor.                                        *)
SameRotor(r, q) ==
    q.base = r.base /\ q.null_flag = r.null_flag /\ q.policy = r.policy /\ q.limit = r.limit

LEMMA NamedRotor ==
    ASSUME NEW r \in RotorType
    PROVE  /\ named(r) \in RotorType /\ SameRotor(r, named(r)) /\ named(r).live = r.live
           /\ r.policy = "never" => named(r) = r
           /\ r.policy # "never" => /\ named(r).chunk_num = r.chunk_num + 1
                                    /\ named(r).encoded_frames = 0 /\ named(r).encoded_bytes = 0
           /\ output_name(r) \in Bases \X Int
  <1>1. CASE r.policy = "never"
    <2>1. named(r) = r /\ output_name(r) = <<r.base, -1>>
      BY <1>1 DEF named, output_name
    <2> QED
      BY <1>1, <2>1 DEF RotorType, SameRotor
  <1>2. CASE r.policy # "never"
    <2>1. /\ named(r) = [r EXCEPT !.encoded_frames = 0, !.encoded_bytes = 0, !.chunk_num = r.chunk_num + 1]
          /\ output_name(r) = <<r.base, r.chunk_num>> /\ r.chunk_num \in Nat
      BY <1>2 DEF named, output_name, RotorType
    <2>2. r.chunk_num + 1 \in Nat /\ <<r.base, r.chunk_num>> \in Bases \X Int
      BY <2>1 DEF RotorType
    <2>3. named(r) \in RotorType /\ SameRotor(r, named(r)) /\ named(r).live = r.live
      <3>1. PICK q : q = [r EXCEPT !.encoded_frames = 0, !.encoded_bytes = 0]
        OBVIOUS
      <3>2. q \in RotorType /\ SameRotor(r, q) /\ q.live = r.live
        BY <3>1 DEF RotorType, SameRotor
      <3>3. named(r) = [q EXCEPT !.chunk_num = r.chunk_num + 1]
        BY <2>1, <3>1 DEF RotorType
      <3> QED
        BY <2>2, <3>2, <3>3 DEF RotorType, SameRotor
    <2>4. /\ named(r).chunk_num = r.chunk_num + 1
          /\ named(r).encoded_frames = 0 /\ named(r).encoded_bytes = 0
      BY <2>1, <2>2 DEF RotorType
    <2> QED
      BY <1>2, <2>1, <2>2, <2>3, <2>4
  <1> QED
    BY <1>1, <1>2

LEMMA CountedRotor ==
    ASSUME NEW r \in RotorType
    PROVE  /\ count(r) \in RotorType /\ SameRotor(r, count(r)) /\ count(r).live = r.live
           /\ count(r).chunk_num = r.chunk_num
           /\ count(r).encoded_frames = r.encoded_frames + 1
           /\ count(r).encoded_bytes = r.encoded_bytes + Size
           /\ needed(count(r)) \in BOOLEAN
  <1>1. /\ count(r) = [r EXCEPT !.encoded_frames = r.encoded_frames + 1,
                               !.encoded_bytes = r.encoded_bytes + Size]
        /\ r.encoded_frames + 1 \in Nat /\ r.encoded_bytes + Size \in Nat
    BY DEF count, RotorType
  <1>2. ASSUME NEW q PROVE needed(q) \in BOOLEAN
    <2>1. CASE q.policy = "frames"
      BY <2>1 DEF needed
    <2>2. CASE q.policy = "megabytes"
      BY <2>2 DEF needed
    <2>3. CASE q.policy \notin {"frames", "megabytes"}
      BY <2>3 DEF needed
    <2> QED
      BY <2>1, <2>2, <2>3
  <1> QED
    BY <1>1, <1>2 DEF RotorType, SameRotor

LEMMA FreedRotors ==
    ASSUME NEW rs \in Seq(RotorType), NEW T
    PROVE  /\ Freed(rs, T) \in Seq(RotorType) /\ Len(Freed(rs, T)) = Len(rs)
           /\ DOMAIN rs = 1 .. Len(rs) /\ DOMAIN Freed(rs, T) = 1 .. Len(rs)
           /\ \A i \in 1 .. Len(rs) : /\ SameRotor(rs[i], Freed(rs, T)[i])
                                      /\ Freed(rs, T)[i].live <=> rs[i].live /\ i \notin T
  <1>1. rs \in [1 .. Len(rs) -> RotorType] /\ DOMAIN rs = 1 .. Len(rs) /\ Len(rs) \in Nat
    BY LenProperties
  <1>2. \A r \in RotorType : \A b \in BOOLEAN :
            /\ [r EXCEPT !.live = b] \in RotorType /\ SameRotor(r, [r EXCEPT !.live = b])
            /\ [r EXCEPT !.live = b].live = b
    BY DEF RotorType, SameRotor
  <1>3. \A i \in 1 .. Len(rs) : (rs[i].live /\ i \notin T) \in BOOLEAN
    OBVIOUS
  <1>4. Freed(rs, T) \in [1 .. Len(rs) -> RotorType]
    BY <1>1, <1>2, <1>3 DEF Freed
  <1>5. Freed(rs, T) \in Seq(RotorType) /\ Len(Freed(rs, T)) = Len(rs)
    BY <1>1, <1>4
  <1>6. ASSUME NEW i \in 1 .. Len(rs)
        PROVE  /\ SameRotor(rs[i], Freed(rs, T)[i])
               /\ Freed(rs, T)[i].live <=> rs[i].live /\ i \notin T
    <2>1. Freed(rs, T)[i] = [rs[i] EXCEPT !.live = rs[i].live /\ i \notin T]
      BY <1>1 DEF Freed
    <2> QED
      BY <1>1, <1>2, <2>1
  <1> QED
    BY <1>1, <1>4, <1>5, <1>6

LEMMA FreshRotor ==
    ASSUME TypeOK, NEW i
    PROVE  /\ Fresh(i) \in RotorType /\ Fresh(i).live /\ Fresh(i).policy = "never"
           /\ Fresh(i).chunk_num = 0 /\ Fresh(i).encoded_frames = 0 /\ Fresh(i).encoded_bytes = 0
           /\ Fresh(i).null_flag = session.null
           /\ i = MAIN => Fresh(i).base = <<"video", unit>>
  <1>1. session.null \in BOOLEAN /\ unit \in Nat
    BY DEF TypeOK, SessionType
  <1>2. <<"video", unit>> \in Bases /\ <<"audio">> \in Bases
    BY <1>1 DEF Bases
  <1> QED
    BY <1>1, <1>2 DEF Fresh, tc_rotate_init, RotorType

-----------------------------------------------------------------------------
(* What is allocated.                                                      *)

LEMMA SessionTypes ==
    ASSUME session \in Sessions
    PROVE  /\ session.dual \in BOOLEAN /\ session.null \in BOOLEAN
           /\ session.units \in Nat \ {0} /\ session.pairs \in Nat /\ session.failures \in Nat
           /\ session.limits \in Seq({"frames", "megabytes"} \X (Nat \ {0}))
           /\ Len(session.limits) \in Nat
           /\ session.when \in {"init", "opened"}
           /\ session.when = "init" <=> session.when # "opened"
  BY LenProperties DEF SessionType

LEMMA Product ==
    ASSUME NEW a \in Nat, NEW b \in Nat, NEW n \in Nat, a <= b
    PROVE  a * n \in Nat /\ b * n \in Nat /\ a * n <= b * n
  OBVIOUS

LEMMA OwnInit == Init => OwnInv
  <1> SUFFICES ASSUME Init PROVE OwnInv
    OBVIOUS
  <1>1. session \in Sessions
    BY DEF Init
  <1>2. <<>> \in Seq(RotorType) /\ <<>> \in Seq(ChunkType) /\ Len(<<>>) = 0 /\ DOMAIN <<>> = {}
    BY EmptySeq
  <1>3. 0 \in 0 .. session.units * session.pairs
    BY <1>1, SessionTypes, Product
  <1>4. /\ unit = 1 /\ 1 \in 1 .. session.units
        /\ calls = 0 /\ 0 \in 0 .. Len(session.limits)
        /\ left = session.failures /\ session.failures \in 0 .. session.failures
    BY <1>1, SessionTypes DEF Init
  <1>5. /\ rotors \in Seq(RotorType) /\ chunks \in Seq(ChunkType)
        /\ rotor \in 0 .. Len(rotors) /\ rotor_aux \in 0 .. Len(rotors)
        /\ file \in [{MAIN, AUX} -> 0 .. Len(chunks)]
    <2>1. 0 \in 0 .. Len(<<>>)
      BY <1>2
    <2> QED
      BY <1>2, <2>1 DEF Init, NULL
  <1>6. call \in [frames : SUBSET Media, can_rotate : BOOLEAN]
    BY DEF Init
  <1>7. TypeOK
    BY <1>1, <1>3, <1>4, <1>5, <1>6 DEF Init, TypeOK
  <1>8. Places /\ Allocated /\ NoneLeft
    BY <1>2 DEF Init, Places, Allocated, NoneLeft, Open, Writing
  <1> QED
    BY <1>7, <1>8 DEF OwnInv

(* The steps that leave rotors and files alone.                            *)
Still == UNCHANGED <<session, left, rotors, rotor, rotor_aux, file, chunks>>

LEMMA OwnStill ==
    ASSUME OwnInv, Still, TypeOK', Places', Open' => Open, pc' = "close_aux" => pc = "close_aux",
           Unused' \/ pc' = "open" => Unused \/ pc = "open"
    PROVE  OwnInv'
  <1>1. Allocated'
    BY DEF OwnInv, Allocated, Still, mono
  <1>2. NoneLeft'
    BY DEF OwnInv, NoneLeft, Still, faultless
  <1> QED
    BY <1>1, <1>2 DEF OwnInv

LEMMA OwnQuiet ==
    ASSUME OwnInv,
           \/ tc_multiplexor_init \/ limits_set \/ next_range \/ end_loop \/ flushed \/ UNCHANGED vars
    PROVE  OwnInv'
  <1>1. /\ Still /\ UNCHANGED <<unit, pair, done, call, vret, aret, need_rotate>>
        /\ error_flag' \in BOOLEAN /\ calls' \in 0 .. Len(session.limits)
    <2>1. error_flag \in BOOLEAN /\ calls \in 0 .. Len(session.limits) /\ Len(session.limits) \in Nat
      BY SessionTypes DEF OwnInv, TypeOK
    <2>2. CASE tc_multiplexor_init \/ flushed \/ UNCHANGED vars
      BY <2>1, <2>2 DEF tc_multiplexor_init, flushed, vars, client, local, Still
    <2>3. CASE limits_set
      BY <2>1, <2>3 DEF limits_set, local, Still
    <2>4. CASE next_range \/ end_loop
      BY <2>1, <2>4 DEF next_range, end_loop, local, Still
    <2> QED
      BY <2>2, <2>3, <2>4
  <1>2. /\ pc' \in {"limit", "open", "loop", "flush", "close"} \/ pc' = pc
        /\ Open' => Open
        /\ Unused' \/ pc' = "open" => Unused \/ pc = "open"
    <2>1. session' = session /\ session.when \in {"init", "opened"}
      BY <1>1, SessionTypes DEF Still, OwnInv, TypeOK
    <2>2. CASE tc_multiplexor_init
      BY <2>1, <2>2 DEF tc_multiplexor_init, Open, Unused, Writing
    <2>3. CASE limits_set
      BY <2>1, <2>3 DEF limits_set, Open, Unused, Writing
    <2>4. CASE next_range \/ end_loop \/ flushed \/ UNCHANGED vars
      BY <2>1, <2>4 DEF next_range, end_loop, flushed, vars, Open, Unused, Writing
    <2> QED
      BY <2>2, <2>3, <2>4
  <1>3. TypeOK'
    BY <1>1, <1>2 DEF OwnInv, TypeOK, Still
  <1>4. Places'
    BY <1>1, <1>2 DEF OwnInv, Places, Still, Writing, mono
  <1> QED
    BY <1>1, <1>2, <1>3, <1>4, OwnStill

(* A write begins, of a pair or of what the encoder still holds.           *)
LEMMA OwnBegin ==
    ASSUME OwnInv, tc_export_frames \/ \E frames \in SUBSET Media \ {{}} : tc_export_flush(frames)
    PROVE  OwnInv'
  <1>1. /\ Still /\ UNCHANGED <<calls, unit, done, error_flag>>
        /\ vret' = TRUE /\ aret' = TRUE /\ need_rotate' = FALSE
        /\ pc \in {"loop", "flush"} /\ pc' = "video"
    BY DEF tc_export_frames, tc_export_flush, begin_write, client, Still
  <1>2. pair' \in 0 .. session.units * session.pairs /\ pair' >= pair
    <2>1. pair \in 0 .. session.units * session.pairs /\ unit \in 1 .. session.units
      BY DEF OwnInv, TypeOK
    <2>2. CASE tc_export_frames
      <3>1. pair' = pair + 1 /\ pair < unit * session.pairs
        BY <2>2 DEF tc_export_frames
      <3>2. /\ unit * session.pairs <= session.units * session.pairs
            /\ unit * session.pairs \in Nat /\ session.units * session.pairs \in Nat
        <4>1. /\ unit \in Nat /\ session.units \in Nat /\ session.pairs \in Nat
              /\ unit <= session.units
          BY <2>1, SessionTypes DEF OwnInv, TypeOK
        <4> QED
          BY <4>1, Product
      <3> QED
        BY <2>1, <3>1, <3>2
    <2>3. CASE pair' = pair
      BY <2>1, <2>3, SessionTypes, Product DEF OwnInv, TypeOK
    <2> QED
      BY <2>2, <2>3 DEF tc_export_flush, client
  <1>3. /\ call' \in [frames : SUBSET Media, can_rotate : BOOLEAN]
        /\ call'.can_rotate => pair' >= 1 /\ call'.frames = Media
    <2>1. CASE tc_export_frames
      BY <2>1 DEF tc_export_frames, begin_write, OwnInv, TypeOK
    <2>2. CASE \E frames \in SUBSET Media \ {{}} : tc_export_flush(frames)
      BY <2>2 DEF tc_export_flush, begin_write
    <2> QED
      BY <2>1, <2>2
  <1>4. TypeOK'
    <2>1. done \subseteq 1 .. pair'
      BY <1>2 DEF OwnInv, TypeOK
    <2> QED
      BY <1>1, <1>2, <1>3, <2>1 DEF OwnInv, TypeOK, Still
  <1>5. Places'
    BY <1>1, <1>3 DEF Places, Writing, mono
  <1>6. (Open' => Open) /\ ~Unused'
    BY <1>1 DEF Open, Unused
  <1> QED
    BY <1>1, <1>4, <1>5, <1>6, OwnStill

LEMMA OwnReturn ==
    ASSUME OwnInv, return
    PROVE  OwnInv'
  <1>1. /\ Still /\ UNCHANGED <<calls, unit, pair, call, vret, aret, need_rotate>>
        /\ pc = "return" /\ pc' \in {"loop", "close"}
    BY DEF return, local, Still
  <1>2. error_flag' \in BOOLEAN
    BY DEF return, OwnInv, TypeOK
  <1>3. done' \subseteq 1 .. pair
    <2>1. CASE call.can_rotate
      <3>1. pair >= 1 /\ pair \in Nat /\ done \subseteq 1 .. pair
        BY <1>1, <2>1, SessionTypes, Product DEF OwnInv, TypeOK, Places, Writing
      <3>2. done' \subseteq done \union {pair}
        BY <2>1 DEF return
      <3> QED
        BY <3>1, <3>2
    <2>2. CASE ~call.can_rotate
      BY <2>2 DEF return, OwnInv, TypeOK
    <2> QED
      BY <2>1, <2>2
  <1>4. TypeOK'
    BY <1>1, <1>2, <1>3 DEF OwnInv, TypeOK, Still
  <1>5. Places'
    BY <1>1 DEF Places, Writing, mono
  <1>6. (Open' => Open) /\ ~Unused'
    BY <1>1 DEF Open, Unused, Writing
  <1> QED
    BY <1>1, <1>4, <1>5, <1>6, OwnStill

(* What a call leaves of the rotors and chunks it does not touch.          *)
SameBut(s, t, i) == Len(t) = Len(s) /\ \A j \in 1 .. Len(s) : j # i => t[j] = s[j]
Longer(s, t)     == Len(t) = Len(s) + 1 /\ \A j \in 1 .. Len(s) : t[j] = s[j]

(* A limit changes what the rotor of the main module counts against.       *)
LEMMA LimitStep ==
    ASSUME OwnInv, tc_multiplexor_limit
    PROVE  LET limit == session.limits[calls + 1]
           IN  /\ limit[1] \in {"frames", "megabytes"} /\ limit[2] \in Nat \ {0}
               /\ calls' = calls + 1 /\ calls' \in 0 .. Len(session.limits)
               /\ rotors' \in Seq(RotorType) /\ SameBut(rotors, rotors', rotor)
               /\ rotor # NULL =>
                     /\ rotors'[rotor].live = rotors[rotor].live
                     /\ rotors'[rotor].base = rotors[rotor].base
                     /\ rotors'[rotor].null_flag = rotors[rotor].null_flag
                     /\ rotors'[rotor].chunk_num = rotors[rotor].chunk_num
                     /\ rotors'[rotor].encoded_frames = rotors[rotor].encoded_frames
                     /\ rotors'[rotor].encoded_bytes = rotors[rotor].encoded_bytes
               /\ rotor # NULL /\ ~rotors[rotor].null_flag =>
                     /\ rotors'[rotor].policy = limit[1]
                     /\ rotors'[rotor].limit = LimitOf(limit[1], limit[2])
  <1> DEFINE limit == session.limits[calls + 1]
  <1>1. /\ calls \in 0 .. Len(session.limits) /\ Len(session.limits) \in Nat
        /\ calls < Len(session.limits) /\ calls' = calls + 1
        /\ session.limits \in Seq({"frames", "megabytes"} \X (Nat \ {0}))
    BY SessionTypes DEF OwnInv, TypeOK, tc_multiplexor_limit
  <1>2. limit \in {"frames", "megabytes"} \X (Nat \ {0})
    BY <1>1, LenProperties
  <1>3. limit[1] \in {"frames", "megabytes"} /\ limit[2] \in Nat \ {0}
    BY <1>2
  <1>4. rotors \in Seq(RotorType) /\ rotor \in 0 .. Len(rotors) /\ Len(rotors) \in Nat
    BY LenProperties DEF OwnInv, TypeOK
  <1>5. CASE rotor = NULL \/ rotors[rotor].null_flag
    <2>1. rotors' = rotors
      BY <1>5 DEF tc_multiplexor_limit, set_limit
    <2> QED
      BY <1>1, <1>3, <1>4, <1>5, <2>1 DEF SameBut
  <1>6. CASE ~(rotor = NULL \/ rotors[rotor].null_flag)
    <2>1. PICK kind \in {"frames", "megabytes"}, n \in Nat : kind = limit[1] /\ n = limit[2]
      BY <1>3
    <2>2. LimitOf(kind, n) \in Nat
      BY DEF LimitOf
    <2>3. rotor \in 1 .. Len(rotors) /\ rotors[rotor] \in RotorType
      BY <1>4, <1>6, LenProperties DEF NULL
    <2>4. PICK q : q = [rotors[rotor] EXCEPT !.limit = LimitOf(kind, n), !.policy = kind]
      OBVIOUS
    <2>5. /\ q \in RotorType /\ q.policy = kind /\ q.limit = LimitOf(kind, n)
          /\ q.live = rotors[rotor].live /\ q.base = rotors[rotor].base
          /\ q.null_flag = rotors[rotor].null_flag /\ q.chunk_num = rotors[rotor].chunk_num
          /\ q.encoded_frames = rotors[rotor].encoded_frames
          /\ q.encoded_bytes = rotors[rotor].encoded_bytes
      BY <2>2, <2>3, <2>4 DEF RotorType
    <2>6. rotors' = [rotors EXCEPT ![rotor] = q]
      <3>1. set_limit(kind, n)
        BY <2>1 DEF tc_multiplexor_limit
      <3>2. rotors' = [rotors EXCEPT ![rotor].limit = LimitOf(kind, n), ![rotor].policy = kind]
        BY <1>6, <3>1 DEF set_limit
      <3> QED
        BY <1>4, <2>3, <2>4, <3>2, LenProperties DEF RotorType
    <2>7. rotors' \in Seq(RotorType) /\ SameBut(rotors, rotors', rotor) /\ rotors'[rotor] = q
      BY <1>4, <2>3, <2>5, <2>6, SeqUpdate DEF SameBut
    <2> QED
      BY <1>1, <1>3, <2>1, <2>5, <2>7
  <1> QED
    BY <1>5, <1>6

NewChunk(m, r) == [mux |-> m, unit |-> unit, name |-> output_name(r), frames |-> <<>>, rotated |-> FALSE]

(* A module is opened: its rotor gives the name, and a chunk is added.     *)
LEMMA OpenStep ==
    ASSUME TypeOK, NEW rs \in Seq(RotorType), NEW i \in 1 .. Len(rs), NEW m \in {MAIN, AUX},
           muxer_open(m, rs, i, TRUE)
    PROVE  /\ rotors' \in Seq(RotorType) /\ SameBut(rs, rotors', i) /\ rotors'[i] = named(rs[i])
           /\ chunks' \in Seq(ChunkType) /\ Longer(chunks, chunks')
           /\ chunks'[Len(chunks) + 1] = NewChunk(m, rs[i])
           /\ file' \in [{MAIN, AUX} -> 0 .. Len(chunks')] /\ file'[m] = Len(chunks) + 1
  <1>1. rs[i] \in RotorType
    BY LenProperties
  <1>2. NewChunk(m, rs[i]) \in ChunkType
    <2>1. unit \in Nat /\ output_name(rs[i]) \in Bases \X Int
      BY SMTT(30), <1>1, NamedRotor, SessionTypes DEF TypeOK
    <2>2. <<>> \in Seq(Media \X Nat)
      BY EmptySeq
    <2> QED
      BY <2>1, <2>2 DEF NewChunk, ChunkType
  <1>3. /\ rotors' = [rs EXCEPT ![i] = named(rs[i])]
        /\ chunks' = Append(chunks, NewChunk(m, rs[i])) /\ file' = [file EXCEPT ![m] = Len(chunks')]
    BY DEF muxer_open, NewChunk
  <1>4. rotors' \in Seq(RotorType) /\ SameBut(rs, rotors', i) /\ rotors'[i] = named(rs[i])
    BY <1>1, <1>3, NamedRotor, SeqUpdate DEF SameBut
  <1>5. /\ chunks' \in Seq(ChunkType) /\ Longer(chunks, chunks')
        /\ chunks'[Len(chunks) + 1] = NewChunk(m, rs[i])
        /\ Len(chunks) \in Nat /\ Len(chunks') = Len(chunks) + 1
    BY <1>2, <1>3, SeqAppend DEF TypeOK, Longer
  <1>6. file' \in [{MAIN, AUX} -> 0 .. Len(chunks')] /\ file'[m] = Len(chunks) + 1
    BY <1>3, <1>5 DEF TypeOK
  <1> QED
    BY <1>4, <1>5, <1>6

LEMMA OpenFails ==
    ASSUME TypeOK, NEW rs \in Seq(RotorType), NEW i \in 1 .. Len(rs), NEW m,
           muxer_open(m, rs, i, FALSE)
    PROVE  /\ rotors' \in Seq(RotorType) /\ SameBut(rs, rotors', i) /\ rotors'[i] = named(rs[i])
           /\ UNCHANGED <<chunks, file>>
  <1>1. rs[i] \in RotorType
    BY LenProperties
  <1>2. rotors' = [rs EXCEPT ![i] = named(rs[i])] /\ UNCHANGED <<chunks, file>>
    BY DEF muxer_open
  <1> QED
    BY <1>1, <1>2, NamedRotor, SeqUpdate DEF SameBut

(* A call that may fail.                                                   *)
LEMMA AnswerStep ==
    ASSUME TypeOK, NEW ok \in BOOLEAN, Answer(ok)
    PROVE  /\ left' \in 0 .. session.failures
           /\ ok => left' = left
           /\ ~ok => left' < session.failures
  <1>1. session.failures \in Nat /\ left \in 0 .. session.failures
    BY SessionTypes DEF TypeOK
  <1>2. CASE ok = TRUE
    BY <1>1, <1>2 DEF Answer
  <1>3. CASE ok = FALSE
    BY <1>1, <1>3 DEF Answer
  <1> QED
    BY <1>2, <1>3

LEMMA MonoSetupStep ==
    ASSUME OwnInv, mono_setup(TRUE)
    PROVE  /\ pc = "open" /\ mono /\ left' = left /\ UNCHANGED <<client, local>>
           /\ pc' = Opened /\ rotor' = Len(rotors) + 1 /\ rotor_aux' = Len(rotors) + 1
           /\ rotors' \in Seq(RotorType) /\ Longer(rotors, rotors') /\ rotors'[rotor'] = Fresh(MAIN)
           /\ chunks' \in Seq(ChunkType) /\ Longer(chunks, chunks')
           /\ chunks'[Len(chunks) + 1] = NewChunk(MAIN, Fresh(MAIN))
           /\ file' \in [{MAIN, AUX} -> 0 .. Len(chunks')] /\ file'[MAIN] = Len(chunks) + 1
  <1> DEFINE rs == Append(rotors, Fresh(MAIN))
  <1>1. TypeOK /\ Fresh(MAIN) \in RotorType /\ Fresh(MAIN).policy = "never"
    BY FreshRotor DEF OwnInv
  <1>2. /\ rs \in Seq(RotorType) /\ Len(rs) = Len(rotors) + 1 /\ Len(rotors) \in Nat
        /\ rs[Len(rotors) + 1] = Fresh(MAIN) /\ Longer(rotors, rs)
    BY <1>1, SeqAppend DEF TypeOK, Longer
  <1>3. PICK i : i = Len(rs)
    OBVIOUS
  <1>4. /\ pc = "open" /\ mono /\ Answer(TRUE) /\ muxer_open(MAIN, rs, i, TRUE)
        /\ pc' = Opened /\ rotor' = i /\ rotor_aux' = i /\ UNCHANGED <<client, local>>
    BY <1>3 DEF mono_setup, mono
  <1>5. i \in 1 .. Len(rs) /\ i = Len(rotors) + 1
    BY <1>2, <1>3
  <1> HIDE DEF rs
  <1>6. /\ rotors' \in Seq(RotorType) /\ SameBut(rs, rotors', i) /\ rotors'[i] = named(rs[i])
        /\ chunks' \in Seq(ChunkType) /\ Longer(chunks, chunks')
        /\ chunks'[Len(chunks) + 1] = NewChunk(MAIN, rs[i])
        /\ file' \in [{MAIN, AUX} -> 0 .. Len(chunks')] /\ file'[MAIN] = Len(chunks) + 1
    BY <1>1, <1>2, <1>4, <1>5, OpenStep
  <1>7. rotors'[i] = Fresh(MAIN)
    BY <1>1, <1>2, <1>5, <1>6, NamedRotor
  <1>8. Longer(rotors, rotors')
    BY <1>2, <1>5, <1>6 DEF Longer, SameBut
  <1>9. left' = left
    BY <1>4 DEF Answer
  <1> QED
    BY <1>2, <1>4, <1>5, <1>6, <1>7, <1>8, <1>9

(* Elsewhere than in "limit" and "open" the position tells all of Open.    *)
LEMMA OpenedIsOpen ==
    ASSUME session \in Sessions, session' = session, pc' = Opened
    PROVE  Open' /\ ~Unused' /\ pc' \in {"limit", "loop"}
  BY SessionTypes DEF Opened, Open, Unused

LEMMA OwnMonoSetup ==
    ASSUME OwnInv, NEW ok \in BOOLEAN, mono_setup(ok)
    PROVE  OwnInv'
  <1>0. TypeOK /\ session \in Sessions /\ Len(rotors) \in Nat /\ DOMAIN rotors = 1 .. Len(rotors)
    BY LenProperties DEF OwnInv, TypeOK
  <1>1. CASE ok = TRUE
    <2>1. /\ pc = "open" /\ mono /\ left' = left /\ UNCHANGED <<client, local>>
          /\ pc' = Opened /\ rotor' = Len(rotors) + 1 /\ rotor_aux' = Len(rotors) + 1
          /\ rotors' \in Seq(RotorType) /\ Longer(rotors, rotors') /\ rotors'[rotor'] = Fresh(MAIN)
          /\ chunks' \in Seq(ChunkType)
          /\ file' \in [{MAIN, AUX} -> 0 .. Len(chunks')]
      BY <1>1, MonoSetupStep
    <2>2. session' = session /\ DOMAIN rotors' = 1 .. (Len(rotors) + 1)
      BY <2>1, LenProperties DEF client, Longer
    <2>3. Open' /\ ~Unused' /\ pc' \in {"limit", "loop"}
      BY <1>0, <2>1, <2>2, OpenedIsOpen
    <2>4. TypeOK'
      <3>1. rotor' \in 0 .. Len(rotors') /\ rotor_aux' \in 0 .. Len(rotors')
        BY <1>0, <2>1 DEF Longer
      <3> QED
        BY <2>1, <2>3, <3>1 DEF OwnInv, TypeOK, client, local
    <2>5. Places'
      BY <2>3 DEF Places, Writing
    <2>6. Allocated'
      <3>1. rotor' # NULL /\ rotors'[rotor'].live
        BY <1>0, <2>1, FreshRotor DEF NULL
      <3> QED
        BY <2>1, <2>2, <2>3, <3>1 DEF Allocated, mono
    <2>7. NoneLeft'
      <3> SUFFICES ASSUME faultless, NEW i \in 1 .. (Len(rotors) + 1), rotors'[i].live
                   PROVE  i = rotor'
        BY <2>1, <2>2, <2>3 DEF NoneLeft, faultless
      <3>1. CASE i \in 1 .. Len(rotors)
        BY <1>0, <2>1, <3>1 DEF OwnInv, NoneLeft, Longer
      <3> QED
        BY <1>0, <2>1, <3>1
    <2> QED
      BY <2>4, <2>5, <2>6, <2>7 DEF OwnInv
  <1>2. CASE ok = FALSE
    <2> DEFINE rs == Append(rotors, Fresh(MAIN))
    <2>1. /\ pc' = "exit" /\ rotor' = NULL /\ rotors' = Freed(rs, {Len(rs)}) /\ Answer(FALSE)
          /\ UNCHANGED <<client, local, rotor_aux, file, chunks>>
      BY <1>2 DEF mono_setup
    <2>2. rs \in Seq(RotorType) /\ Len(rs) = Len(rotors) + 1
      BY <1>0, FreshRotor, SeqAppend DEF TypeOK
    <2> HIDE DEF rs
    <2>3. rotors' \in Seq(RotorType) /\ Len(rotors') = Len(rotors) + 1
      BY <2>1, <2>2, FreedRotors
    <2>4. left' \in 0 .. session.failures /\ left' < session.failures
      BY <1>0, <2>1, AnswerStep
    <2>5. TypeOK'
      <3>1. rotor' \in 0 .. Len(rotors') /\ rotor_aux' \in 0 .. Len(rotors')
        BY <1>0, <2>1, <2>3 DEF TypeOK, NULL
      <3> QED
        BY <2>1, <2>3, <2>4, <3>1 DEF OwnInv, TypeOK, client, local
    <2>6. Places' /\ Allocated'
      BY <2>1 DEF Places, Allocated, Open, Writing
    <2>7. NoneLeft'
      <3>1. session' = session /\ session.failures \in Nat
        BY <1>0, <2>1, SessionTypes DEF client
      <3> QED
        BY <2>4, <3>1 DEF NoneLeft, faultless
    <2> QED
      BY <2>5, <2>6, <2>7 DEF OwnInv
  <1> QED
    BY <1>1, <1>2

(* Two rotors, and the main module opened with the first of them.          *)
LEMMA OwnDualSetup ==
    ASSUME OwnInv, NEW ok \in BOOLEAN, dual_setup(ok)
    PROVE  OwnInv'
  <1> DEFINE r1 == Append(rotors, Fresh(MAIN))
             rs == Append(r1, Fresh(AUX))
  <1>0. /\ TypeOK /\ session \in Sessions /\ Len(rotors) \in Nat
        /\ DOMAIN rotors = 1 .. Len(rotors)
    BY LenProperties DEF OwnInv, TypeOK
  <1>1. /\ Fresh(MAIN) \in RotorType /\ Fresh(MAIN).live
        /\ Fresh(AUX) \in RotorType /\ Fresh(AUX).live
    BY <1>0, FreshRotor
  <1>2. /\ r1 \in Seq(RotorType) /\ Len(r1) = Len(rotors) + 1
        /\ r1[Len(rotors) + 1] = Fresh(MAIN) /\ Longer(rotors, r1)
    BY <1>0, <1>1, SeqAppend DEF TypeOK, Longer
  <1>3. /\ rs \in Seq(RotorType) /\ Len(rs) = Len(rotors) + 2
        /\ rs[Len(rotors) + 1] = Fresh(MAIN) /\ rs[Len(rotors) + 2] = Fresh(AUX)
        /\ \A j \in 1 .. Len(rotors) : rs[j] = rotors[j]
    <2> HIDE DEF r1
    <2>1. /\ rs \in Seq(RotorType) /\ Len(rs) = Len(r1) + 1 /\ rs[Len(r1) + 1] = Fresh(AUX)
          /\ \A j \in 1 .. Len(r1) : rs[j] = r1[j]
      BY <1>1, <1>2, SeqAppend
    <2> HIDE DEF rs
    <2> QED
      BY <1>0, <1>2, <2>1 DEF Longer
  <1>4. PICK i : i = Len(rs) - 1
    OBVIOUS
  <1>5. /\ pc = "open" /\ ~mono /\ Answer(ok) /\ muxer_open(MAIN, rs, i, ok)
        /\ rotor' = i /\ rotor_aux' = i + 1 /\ UNCHANGED <<client, local>>
        /\ pc' = IF ok THEN "open_aux" ELSE "open_failed"
    BY <1>4 DEF dual_setup, mono
  <1> HIDE DEF rs
  <1>6. i \in 1 .. Len(rs) /\ i = Len(rotors) + 1
    BY <1>0, <1>3, <1>4
  <1>7. /\ rotors' \in Seq(RotorType) /\ SameBut(rs, rotors', i) /\ rotors'[i] = named(rs[i])
        /\ chunks' \in Seq(ChunkType) /\ file' \in [{MAIN, AUX} -> 0 .. Len(chunks')]
    <2>1. CASE ok = TRUE
      BY <1>0, <1>3, <1>5, <1>6, <2>1, OpenStep
    <2>2. CASE ok = FALSE
      BY <1>0, <1>3, <1>5, <1>6, <2>2, OpenFails DEF TypeOK
    <2> QED
      BY <2>1, <2>2
  <1>8. /\ Len(rotors') = Len(rotors) + 2 /\ DOMAIN rotors' = 1 .. (Len(rotors) + 2)
        /\ rotors'[i].live /\ rotors'[i + 1].live
        /\ \A j \in 1 .. Len(rotors) : rotors'[j] = rotors[j]
    <2>1. rotors'[i].live
      <3>1. rs[i] = Fresh(MAIN) /\ named(Fresh(MAIN)).live
        BY <1>1, <1>3, <1>6, NamedRotor
      <3> QED
        BY <1>7, <3>1
    <2> QED
      BY <1>0, <1>1, <1>3, <1>6, <1>7, <2>1, LenProperties DEF SameBut
  <1>9. session' = session /\ pc' \in {"open_aux", "open_failed"} /\ left' \in 0 .. session.failures
    BY <1>0, <1>5, AnswerStep DEF client
  <1>10. TypeOK'
    <2>1. rotor' \in 0 .. Len(rotors') /\ rotor_aux' \in 0 .. Len(rotors')
      BY <1>0, <1>5, <1>6, <1>8
    <2> QED
      BY <1>5, <1>7, <1>9, <2>1 DEF OwnInv, TypeOK, client, local
  <1>11. Places'
    BY <1>5, <1>9 DEF Places, Writing, mono
  <1>12. Allocated'
    BY <1>0, <1>5, <1>6, <1>8, <1>9 DEF Allocated, mono, NULL
  <1>13. NoneLeft'
    <2>1. ok = TRUE \/ ok = FALSE
      OBVIOUS
    <2>2. faultless' => faultless
      BY <1>0, <1>5, <1>9, <2>1, AnswerStep, SessionTypes DEF faultless
    <2>3. ~Unused' /\ pc' # "open"
      BY <1>9 DEF Unused
    <2> SUFFICES ASSUME faultless, NEW j \in 1 .. (Len(rotors) + 2), rotors'[j].live
                 PROVE  j \in {rotor', rotor_aux'}
      BY <1>8, <2>2, <2>3 DEF NoneLeft
    <2>4. j \notin 1 .. Len(rotors)
      BY <1>0, <1>5, <1>8 DEF OwnInv, NoneLeft
    <2> QED
      BY <1>0, <1>5, <1>6, <2>4
  <1> QED
    BY <1>10, <1>11, <1>12, <1>13 DEF OwnInv

LEMMA OwnDualAux ==
    ASSUME OwnInv, NEW ok \in BOOLEAN, dual_open_aux(ok)
    PROVE  OwnInv'
  <1>0. /\ TypeOK /\ session \in Sessions /\ Len(rotors) \in Nat
        /\ DOMAIN rotors = 1 .. Len(rotors)
    BY LenProperties DEF OwnInv, TypeOK
  <1>1. /\ pc = "open_aux" /\ Answer(ok) /\ muxer_open(AUX, rotors, rotor_aux, ok)
        /\ pc' = IF ok THEN Opened ELSE "open_failed"
        /\ UNCHANGED <<client, local, rotor, rotor_aux>>
    BY DEF dual_open_aux
  <1>2. /\ ~mono /\ rotor # NULL /\ rotor_aux # NULL /\ rotor_aux # rotor
        /\ rotors[rotor].live /\ rotors[rotor_aux].live
    BY <1>1 DEF OwnInv, Places, Allocated, Open, mono
  <1>3. rotor \in 1 .. Len(rotors) /\ rotor_aux \in 1 .. Len(rotors) /\ rotors \in Seq(RotorType)
    BY <1>0, <1>2 DEF TypeOK, NULL
  <1>4. /\ rotors' \in Seq(RotorType) /\ SameBut(rotors, rotors', rotor_aux)
        /\ rotors'[rotor_aux] = named(rotors[rotor_aux])
        /\ chunks' \in Seq(ChunkType) /\ file' \in [{MAIN, AUX} -> 0 .. Len(chunks')]
    <2>1. CASE ok = TRUE
      BY <1>0, <1>1, <1>3, <2>1, OpenStep
    <2>2. CASE ok = FALSE
      BY <1>0, <1>1, <1>3, <2>2, OpenFails DEF TypeOK
    <2> QED
      BY <2>1, <2>2
  <1>5. /\ DOMAIN rotors' = 1 .. Len(rotors) /\ Len(rotors') = Len(rotors)
        /\ \A j \in 1 .. Len(rotors) : rotors'[j].live <=> rotors[j].live
    <2>1. named(rotors[rotor_aux]).live = rotors[rotor_aux].live
      BY <1>3, NamedRotor, LenProperties
    <2> QED
      BY <1>0, <1>4, <2>1, LenProperties DEF SameBut
  <1>6. /\ session' = session /\ left' \in 0 .. session.failures
        /\ pc' \in {"open_failed", "limit", "loop"} /\ Open' /\ ~Unused'
    <2>1. CASE ok = TRUE
      BY <1>0, <1>1, <2>1, AnswerStep, OpenedIsOpen DEF client
    <2>2. CASE ok = FALSE
      BY <1>0, <1>1, <2>2, AnswerStep DEF client, Open, Unused
    <2> QED
      BY <2>1, <2>2
  <1>7. TypeOK'
    BY <1>1, <1>4, <1>5, <1>6 DEF OwnInv, TypeOK, client, local
  <1>8. Places'
    BY <1>1, <1>2, <1>6 DEF Places, Writing, mono
  <1>9. Allocated'
    BY <1>1, <1>2, <1>3, <1>5, <1>6 DEF Allocated, mono
  <1>10. NoneLeft'
    <2>1. faultless' => faultless
      BY <1>0, <1>1, <1>6, AnswerStep, SessionTypes DEF faultless
    <2> QED
      BY <1>0, <1>1, <1>5, <1>6, <2>1 DEF OwnInv, NoneLeft
  <1> QED
    BY <1>7, <1>8, <1>9, <1>10 DEF OwnInv

LEMMA OwnOpenFailed ==
    ASSUME OwnInv, dual_open_failed
    PROVE  OwnInv'
  <1>1. /\ pc = "open_failed" /\ pc' = "exit" /\ rotor' = NULL /\ rotor_aux' = NULL
        /\ rotors' = Freed(rotors, {rotor, rotor_aux})
        /\ UNCHANGED <<client, local, left, file, chunks>>
    BY DEF dual_open_failed
  <1>2. /\ rotors' \in Seq(RotorType) /\ Len(rotors') = Len(rotors) /\ Len(rotors) \in Nat
        /\ DOMAIN rotors = 1 .. Len(rotors) /\ DOMAIN rotors' = 1 .. Len(rotors)
        /\ \A j \in 1 .. Len(rotors) : rotors'[j].live => rotors[j].live /\ j \notin {rotor, rotor_aux}
    BY <1>1, FreedRotors, LenProperties DEF OwnInv, TypeOK
  <1>3. TypeOK'
    <2>1. rotor' \in 0 .. Len(rotors') /\ rotor_aux' \in 0 .. Len(rotors')
      BY <1>1, <1>2 DEF NULL
    <2> QED
      BY <1>1, <1>2, <2>1 DEF OwnInv, TypeOK, client, local
  <1>4. Places' /\ Allocated'
    BY <1>1 DEF Places, Allocated, Open, Writing
  <1>5. NoneLeft'
    BY <1>1, <1>2 DEF OwnInv, NoneLeft, faultless, client
  <1> QED
    BY <1>3, <1>4, <1>5 DEF OwnInv

LEMMA OwnLimit ==
    ASSUME OwnInv, tc_multiplexor_limit
    PROVE  OwnInv'
  <1>1. /\ pc = "limit" /\ pc' = pc /\ calls' \in 0 .. Len(session.limits)
        /\ UNCHANGED <<session, unit, pair, error_flag, done, local, left, rotor, rotor_aux, file, chunks>>
    BY LimitStep DEF tc_multiplexor_limit
  <1>2. /\ rotors' \in Seq(RotorType) /\ SameBut(rotors, rotors', rotor)
        /\ rotor # NULL => rotors'[rotor].live = rotors[rotor].live
    BY LimitStep
  <1>3. /\ DOMAIN rotors = 1 .. Len(rotors) /\ DOMAIN rotors' = 1 .. Len(rotors)
        /\ Len(rotors') = Len(rotors)
        /\ \A j \in 1 .. Len(rotors) : rotors'[j].live <=> rotors[j].live
    BY SMTT(30), <1>2, LenProperties DEF OwnInv, TypeOK, SameBut, NULL
  <1>4. TypeOK'
    BY <1>1, <1>2, <1>3 DEF OwnInv, TypeOK, local
  <1>5. Places'
    BY <1>1 DEF OwnInv, Places, Writing, mono
  <1>6. Allocated'
    <2>1. Open => rotor \in 1 .. Len(rotors) /\ (~mono => rotor_aux \in 1 .. Len(rotors))
      BY DEF OwnInv, Allocated, TypeOK, NULL
    <2> QED
      BY <1>1, <1>3, <2>1 DEF OwnInv, Allocated, mono, Open
  <1>7. NoneLeft'
    BY <1>1, <1>3 DEF OwnInv, NoneLeft, faultless, Unused
  <1> QED
    BY <1>4, <1>5, <1>6, <1>7 DEF OwnInv

(* A frame is appended to the open chunk and counted.                      *)
LEMMA FrameTaken ==
    ASSUME OwnInv, pc \in {"video", "audio"}, NEW medium \in Media, write_frame(medium, TRUE)
    PROVE  LET f == file[MAIN]
           IN  /\ f \in 1 .. Len(chunks) /\ rotor \in 1 .. Len(rotors)
               /\ rotors' \in Seq(RotorType) /\ SameBut(rotors, rotors', rotor)
               /\ rotors'[rotor] = count(rotors[rotor])
               /\ chunks' \in Seq(ChunkType) /\ SameBut(chunks, chunks', f)
               /\ chunks'[f].unit = chunks[f].unit /\ chunks'[f].name = chunks[f].name
               /\ chunks'[f].rotated = chunks[f].rotated
               /\ Frames(chunks'[f]) = Frames(chunks[f]) \union {Frame(medium)}
               /\ need_rotate' = needed(count(rotors[rotor])) /\ need_rotate' \in BOOLEAN
               /\ left' = left
  <1>1. /\ file[MAIN] # NULL /\ left' = left
        /\ chunks' = [chunks EXCEPT ![file[MAIN]].frames = Append(@, Frame(medium))]
        /\ rotors' = [rotors EXCEPT ![rotor] = count(rotors[rotor])]
        /\ need_rotate' = needed(count(rotors[rotor]))
    BY DEF write_frame
  <1>2. /\ file[MAIN] \in 1 .. Len(chunks) /\ rotor \in 1 .. Len(rotors)
        /\ rotors \in Seq(RotorType) /\ chunks \in Seq(ChunkType)
        /\ rotors[rotor] \in RotorType /\ chunks[file[MAIN]] \in ChunkType
    <2>1. /\ file[MAIN] \in 0 .. Len(chunks) /\ rotor \in 0 .. Len(rotors) /\ rotor # NULL
          /\ rotors \in Seq(RotorType) /\ chunks \in Seq(ChunkType)
      BY DEF OwnInv, TypeOK, Allocated, Open, Writing
    <2>2. Len(chunks) \in Nat /\ Len(rotors) \in Nat
      BY <2>1, LenProperties
    <2>3. file[MAIN] \in 1 .. Len(chunks) /\ rotor \in 1 .. Len(rotors)
      BY <1>1, <2>1, <2>2 DEF NULL
    <2> QED
      BY <2>1, <2>3, LenProperties
  <1>3. PICK f \in 1 .. Len(chunks), c \in ChunkType, x \in Media \X Nat :
            f = file[MAIN] /\ c = chunks[f] /\ x = Frame(medium)
    <2>1. pair \in Nat
      BY SessionTypes, Product DEF OwnInv, TypeOK
    <2>2. Frame(medium) \in Media \X Nat
      BY <2>1 DEF Frame, FLUSHED
    <2> QED
      BY <1>2, <2>2
  <1>4. /\ Append(c.frames, x) \in Seq(Media \X Nat)
        /\ DOMAIN Append(c.frames, x) = 1 .. (Len(c.frames) + 1) /\ DOMAIN c.frames = 1 .. Len(c.frames)
        /\ Len(c.frames) \in Nat
        /\ Append(c.frames, x)[Len(c.frames) + 1] = x
        /\ \A j \in 1 .. Len(c.frames) : Append(c.frames, x)[j] = c.frames[j]
    <2>1. c.frames \in Seq(Media \X Nat)
      BY <1>3 DEF ChunkType
    <2> QED
      BY SMTT(30), <1>3, <2>1, SeqAppend
  <1>5. PICK d : d = [c EXCEPT !.frames = Append(c.frames, x)]
    OBVIOUS
  <1>6. /\ d \in ChunkType /\ d.unit = c.unit /\ d.name = c.name /\ d.rotated = c.rotated
        /\ d.frames = Append(c.frames, x)
    BY <1>3, <1>4, <1>5 DEF ChunkType
  <1>7. Frames(d) = Frames(c) \union {x}
    BY SMTT(30), <1>4, <1>6 DEF Frames
  <1>8. chunks' = [chunks EXCEPT ![f] = d]
    <2>1. chunks' = [chunks EXCEPT ![f].frames = Append(@, x)]
      BY <1>1, <1>3
    <2> QED
      BY <1>2, <1>3, <1>5, <2>1 DEF ChunkType
  <1>9. /\ chunks' \in Seq(ChunkType) /\ SameBut(chunks, chunks', f) /\ chunks'[f] = d
    BY <1>2, <1>6, <1>8, SeqUpdate DEF SameBut
  <1>10. /\ count(rotors[rotor]) \in RotorType /\ need_rotate' \in BOOLEAN
         /\ rotors' \in Seq(RotorType) /\ SameBut(rotors, rotors', rotor)
         /\ rotors'[rotor] = count(rotors[rotor])
    <2>1. count(rotors[rotor]) \in RotorType /\ needed(count(rotors[rotor])) \in BOOLEAN
      BY <1>2, CountedRotor
    <2>2. need_rotate' \in BOOLEAN
      BY <1>1, <2>1
    <2>3. /\ rotors' \in Seq(RotorType) /\ SameBut(rotors, rotors', rotor)
          /\ rotors'[rotor] = count(rotors[rotor])
      BY <1>1, <1>2, <2>1, SeqUpdate DEF SameBut
    <2> QED
      BY <2>1, <2>2, <2>3
  <1> QED
    BY <1>1, <1>2, <1>3, <1>6, <1>7, <1>9, <1>10

LEMMA FrameRefused ==
    ASSUME OwnInv, NEW medium, write_frame(medium, FALSE)
    PROVE  /\ UNCHANGED <<chunks, rotors>>
           /\ left' \in 0 .. session.failures /\ left' <= left
           /\ left' = left => file[MAIN] = NULL
           /\ need_rotate' \in BOOLEAN /\ (need_rotate' <=> need_rotate /\ mono)
  <1>1. left \in 0 .. session.failures /\ session.failures \in Nat /\ need_rotate \in BOOLEAN
    BY SessionTypes DEF OwnInv, TypeOK
  <1>2. /\ UNCHANGED <<chunks, rotors>>
        /\ file[MAIN] = NULL \/ left > 0
        /\ left' = IF file[MAIN] = NULL THEN left ELSE left - 1
        /\ need_rotate' = (need_rotate /\ ~session.dual)
    BY DEF write_frame
  <1>3. need_rotate' \in BOOLEAN /\ (need_rotate' <=> need_rotate /\ mono)
    BY <1>2 DEF mono
  <1>4. /\ left' \in 0 .. session.failures /\ left' <= left
        /\ left' = left => file[MAIN] = NULL
    <2>1. CASE file[MAIN] = NULL
      BY <1>1, <1>2, <2>1
    <2>2. CASE file[MAIN] # NULL
      BY <1>1, <1>2, <2>2
    <2> QED
      BY <2>1, <2>2
  <1> QED
    BY <1>2, <1>3, <1>4

(* What mono_write and dual_write do with one of the frames.               *)
NoFrame == UNCHANGED <<left, chunks, rotors, need_rotate>>
OneFrame(medium) ==
    NoFrame \/ write_frame(medium, TRUE) \/ write_frame(medium, FALSE)

LEMMA OwnWritten ==
    ASSUME OwnInv, pc \in {"video", "audio"}, NEW medium \in Media, OneFrame(medium),
           UNCHANGED <<client, rotor, rotor_aux, file, call>>,
           vret' \in BOOLEAN, aret' \in BOOLEAN, Places',
           pc' \in {"audio", "rotate_video", "rotate", "rotate_audio", "return"}
    PROVE  OwnInv'
  <1>0. /\ TypeOK /\ session \in Sessions /\ Len(rotors) \in Nat
        /\ DOMAIN rotors = 1 .. Len(rotors)
    BY LenProperties DEF OwnInv, TypeOK
  <1>1. /\ rotors' \in Seq(RotorType) /\ Len(rotors') = Len(rotors)
        /\ \A i \in 1 .. Len(rotors) : rotors'[i].live <=> rotors[i].live
        /\ chunks' \in Seq(ChunkType) /\ Len(chunks') = Len(chunks)
        /\ left' \in 0 .. session.failures /\ left' <= left /\ need_rotate' \in BOOLEAN
    <2>1. CASE NoFrame
      BY <1>0, <2>1, SessionTypes DEF NoFrame, OwnInv, TypeOK
    <2>2. CASE write_frame(medium, TRUE)
      <3>1. /\ rotor \in 1 .. Len(rotors)
            /\ rotors' \in Seq(RotorType) /\ SameBut(rotors, rotors', rotor)
            /\ rotors'[rotor] = count(rotors[rotor])
            /\ chunks' \in Seq(ChunkType) /\ SameBut(chunks, chunks', file[MAIN])
            /\ need_rotate' \in BOOLEAN /\ left' = left
        BY <2>2, FrameTaken
      <3>2. count(rotors[rotor]).live = rotors[rotor].live
        <4>1. rotors[rotor] \in RotorType
          BY <1>0, <3>1, LenProperties DEF TypeOK
        <4> QED
          BY <4>1, CountedRotor
      <3>3. left \in 0 .. session.failures /\ left \in Int
        BY <1>0, SessionTypes DEF TypeOK
      <3> QED
        BY <1>0, <3>1, <3>2, <3>3 DEF SameBut
    <2>3. CASE write_frame(medium, FALSE)
      BY <1>0, <2>3, FrameRefused DEF TypeOK
    <2> QED
      BY <2>1, <2>2, <2>3 DEF OneFrame
  <1>2. DOMAIN rotors' = 1 .. Len(rotors)
    BY <1>1, LenProperties
  <1>3. TypeOK'
    BY <1>1 DEF OwnInv, TypeOK, client
  <1>4. Open /\ Open' /\ session' = session /\ ~Unused'
    BY DEF Open, Unused, Writing, client
  <1>5. Allocated'
    <2>1. rotor \in 1 .. Len(rotors) /\ (~mono => rotor_aux \in 1 .. Len(rotors))
      BY <1>0, <1>4 DEF OwnInv, Allocated, TypeOK, NULL
    <2> QED
      BY <1>1, <1>4, <2>1 DEF OwnInv, Allocated, mono
  <1>6. NoneLeft'
    <2>1. faultless' => faultless
      BY <1>0, <1>1, <1>4, SessionTypes DEF faultless, TypeOK
    <2> QED
      BY <1>0, <1>1, <1>2, <1>4, <2>1 DEF OwnInv, NoneLeft
  <1> QED
    BY <1>3, <1>5, <1>6 DEF OwnInv

(* The two halves of a write, told apart by the mode.                      *)
LEMMA WriteVideoStep ==
    ASSUME OwnInv, NEW ok \in BOOLEAN, write_video(ok)
    PROVE  /\ pc = "video" /\ UNCHANGED <<client, rotor, rotor_aux, file, call, aret>>
           /\ vret' \in BOOLEAN /\ (vret' <=> ok)
           /\ "video" \in call.frames => write_frame("video", ok)
           /\ "video" \notin call.frames => ok /\ NoFrame
           /\ OneFrame("video")
           /\ pc' \in {"audio", "rotate_video"} /\ (mono => pc' = "audio")
           /\ pc' = "rotate_video" => call.can_rotate
  <1>1. /\ pc = "video" /\ UNCHANGED <<client, rotor, rotor_aux, file, call, aret>>
        /\ pc' = IF rotates_between /\ call.can_rotate /\ need_rotate' THEN "rotate_video" ELSE "audio"
        /\ IF "video" \in call.frames
           THEN write_frame("video", ok) /\ vret' = ok
           ELSE ok /\ vret' = TRUE /\ NoFrame
    BY DEF write_video, NoFrame
  <1>2. /\ "video" \in call.frames => write_frame("video", ok) /\ vret' = ok
        /\ "video" \notin call.frames => ok /\ vret' = TRUE /\ NoFrame
    BY <1>1
  <1>3. ok = TRUE \/ ok = FALSE
    OBVIOUS
  <1>4. OneFrame("video") /\ vret' \in BOOLEAN /\ (vret' <=> ok)
    <2>1. CASE ok = TRUE
      <3>1. vret' = TRUE
        BY <1>2, <2>1
      <3> QED
        BY <1>2, <2>1, <3>1 DEF OneFrame
    <2>2. CASE ok = FALSE
      <3>1. vret' = FALSE
        BY <1>2, <2>2
      <3> QED
        BY <1>2, <2>2, <3>1 DEF OneFrame
    <2> QED
      BY <1>3, <2>1, <2>2
  <1>5. /\ pc' \in {"audio", "rotate_video"} /\ (mono => pc' = "audio")
        /\ pc' = "rotate_video" => call.can_rotate
    BY <1>1 DEF rotates_between, mono
  <1> QED
    BY <1>1, <1>2, <1>4, <1>5

LEMMA WriteAudioStep ==
    ASSUME OwnInv, NEW ok \in BOOLEAN, write_audio(ok)
    PROVE  /\ pc = "audio" /\ UNCHANGED <<client, rotor, rotor_aux, file, call, vret>>
           /\ aret' \in BOOLEAN /\ (aret' <=> ok)
           /\ "audio" \in call.frames => write_frame("audio", ok)
           /\ "audio" \notin call.frames => ok /\ NoFrame
           /\ OneFrame("audio")
           /\ pc' \in {"rotate", "rotate_audio", "return"}
           /\ (mono => pc' # "rotate_audio") /\ (~mono => pc' # "rotate")
           /\ pc' # "return" => call.can_rotate
           /\ mono => (pc' = "rotate" <=> call.can_rotate /\ need_rotate' /\ ok /\ vret)
  <1>1. /\ pc = "audio" /\ UNCHANGED <<client, rotor, rotor_aux, file, call, vret>>
        /\ pc' = IF call.can_rotate /\ need_rotate' /\ (session.dual \/ ~(~ok \/ ~vret))
                 THEN (IF session.dual THEN "rotate_audio" ELSE "rotate") ELSE "return"
        /\ IF "audio" \in call.frames
           THEN write_frame("audio", ok) /\ aret' = ok
           ELSE ok /\ aret' = TRUE /\ NoFrame
    BY DEF write_audio, NoFrame, rotates_now
  <1>2. /\ "audio" \in call.frames => write_frame("audio", ok) /\ aret' = ok
        /\ "audio" \notin call.frames => ok /\ aret' = TRUE /\ NoFrame
    BY <1>1
  <1>3. ok = TRUE \/ ok = FALSE
    OBVIOUS
  <1>4. OneFrame("audio") /\ aret' \in BOOLEAN /\ (aret' <=> ok)
    <2>1. CASE ok = TRUE
      <3>1. aret' = TRUE
        BY <1>2, <2>1
      <3> QED
        BY <1>2, <2>1, <3>1 DEF OneFrame
    <2>2. CASE ok = FALSE
      <3>1. aret' = FALSE
        BY <1>2, <2>2
      <3> QED
        BY <1>2, <2>2, <3>1 DEF OneFrame
    <2> QED
      BY <1>3, <2>1, <2>2
  <1>5. /\ pc' \in {"rotate", "rotate_audio", "return"}
        /\ (mono => pc' # "rotate_audio") /\ (~mono => pc' # "rotate")
        /\ pc' # "return" => call.can_rotate
        /\ mono => (pc' = "rotate" <=> call.can_rotate /\ need_rotate' /\ ok /\ vret)
    BY <1>1 DEF mono
  <1> QED
    BY <1>1, <1>2, <1>4, <1>5

LEMMA OwnWrite ==
    ASSUME OwnInv, NEW ok \in BOOLEAN, write_video(ok) \/ write_audio(ok)
    PROVE  OwnInv'
  <1>0. vret \in BOOLEAN /\ aret \in BOOLEAN /\ "video" \in Media /\ "audio" \in Media
    BY DEF OwnInv, TypeOK, Media
  <1>1. CASE write_video(ok)
    <2>1. /\ pc = "video" /\ UNCHANGED <<client, rotor, rotor_aux, file, call, aret>>
          /\ vret' \in BOOLEAN /\ OneFrame("video")
          /\ pc' \in {"audio", "rotate_video"} /\ (mono => pc' = "audio")
          /\ pc' = "rotate_video" => call.can_rotate
      BY <1>1, WriteVideoStep
    <2>2. Places'
      BY <2>1 DEF OwnInv, Places, Writing, mono, client
    <2> QED
      BY <1>0, <2>1, <2>2, OwnWritten
  <1>2. CASE write_audio(ok)
    <2>1. /\ pc = "audio" /\ UNCHANGED <<client, rotor, rotor_aux, file, call, vret>>
          /\ aret' \in BOOLEAN /\ OneFrame("audio")
          /\ pc' \in {"rotate", "rotate_audio", "return"}
          /\ (mono => pc' # "rotate_audio") /\ (~mono => pc' # "rotate")
          /\ pc' # "return" => call.can_rotate
      BY <1>2, WriteAudioStep
    <2>2. Places'
      BY <2>1 DEF OwnInv, Places, Writing, mono, client
    <2> QED
      BY <1>0, <2>1, <2>2, OwnWritten
  <1> QED
    BY <1>1, <1>2

(* A chunk that is kept has its name and its frames.                       *)
SameChunk(c, d) == d.unit = c.unit /\ d.name = c.name /\ Frames(d) = Frames(c)
Kept(s, t) == Len(t) >= Len(s) /\ \A k \in 1 .. Len(s) : SameChunk(s[k], t[k])

(* A rotation closes a chunk and opens the next one, or fails at either.   *)
LEMMA RotateStep ==
    ASSUME OwnInv, NEW m \in {MAIN, AUX}, NEW i \in 1 .. Len(rotors), NEW after,
           NEW closes \in BOOLEAN, NEW opens \in BOOLEAN, rotate(m, i, after, closes, opens)
    PROVE  /\ pc' = after /\ UNCHANGED <<client, rotor, rotor_aux, call, aret, need_rotate>>
           /\ vret' \in BOOLEAN
           /\ left' \in 0 .. session.failures /\ left' <= left
           /\ left' = left => closes /\ opens
           /\ rotors' \in Seq(RotorType) /\ SameBut(rotors, rotors', i)
           /\ closes => rotors'[i] = named(rotors[i])
           /\ ~closes => rotors' = rotors
           /\ chunks' \in Seq(ChunkType) /\ Kept(chunks, chunks')
           /\ file' \in [{MAIN, AUX} -> 0 .. Len(chunks')]
           /\ \A k \in 1 .. Len(chunks) :
                 chunks'[k].rotated <=> chunks[k].rotated \/ (closes /\ k = file[m])
           /\ closes /\ opens => /\ Len(chunks') = Len(chunks) + 1 /\ file'[m] = Len(chunks) + 1
                                 /\ chunks'[Len(chunks) + 1] = NewChunk(m, rotors[i])
           /\ ~(closes /\ opens) => Len(chunks') = Len(chunks)
  <1>0. /\ TypeOK /\ rotors \in Seq(RotorType) /\ rotors[i] \in RotorType
        /\ chunks \in Seq(ChunkType) /\ Len(chunks) \in Nat /\ DOMAIN chunks = 1 .. Len(chunks)
        /\ chunks \in [1 .. Len(chunks) -> ChunkType]
        /\ left \in 0 .. session.failures /\ session.failures \in Nat
        /\ file \in [{MAIN, AUX} -> 0 .. Len(chunks)]
    <2>1. /\ TypeOK /\ rotors \in Seq(RotorType) /\ chunks \in Seq(ChunkType)
          /\ left \in 0 .. session.failures /\ session \in Sessions
          /\ file \in [{MAIN, AUX} -> 0 .. Len(chunks)]
      BY DEF OwnInv, TypeOK
    <2>2. rotors[i] \in RotorType
      BY <2>1, LenProperties
    <2>3. /\ Len(chunks) \in Nat /\ DOMAIN chunks = 1 .. Len(chunks)
          /\ chunks \in [1 .. Len(chunks) -> ChunkType]
      BY <2>1, LenProperties
    <2> QED
      BY <2>1, <2>2, <2>3, SessionTypes
  <1> DEFINE old == IF file[m] = NULL THEN chunks ELSE [chunks EXCEPT ![file[m]].rotated = TRUE]
  <1>1. /\ pc' = after /\ UNCHANGED <<client, rotor, rotor_aux, call, aret, need_rotate>>
        /\ vret' = (closes /\ opens) /\ Answer(closes /\ opens) /\ (closes \/ opens)
        /\ ~closes => UNCHANGED <<rotors, file, chunks>>
        /\ closes => /\ rotors' = [rotors EXCEPT ![i] = named(rotors[i])]
                     /\ file' = [file EXCEPT ![m] = IF opens THEN Len(chunks') ELSE NULL]
                     /\ opens => chunks' = Append(old, NewChunk(m, rotors[i]))
                     /\ ~opens => chunks' = old
    BY DEF rotate, NewChunk
  <1>2. vret' \in BOOLEAN /\ left' \in 0 .. session.failures /\ left' <= left
        /\ (left' = left => closes /\ opens)
    <2>1. CASE closes /\ opens
      <3>1. vret' = TRUE /\ Answer(TRUE)
        BY <1>1, <2>1
      <3> QED
        BY <1>0, <2>1, <3>1 DEF Answer
    <2>2. CASE ~(closes /\ opens)
      <3>1. vret' = FALSE /\ Answer(FALSE)
        BY <1>1, <2>2
      <3>2. left > 0 /\ left' = left - 1
        BY <3>1 DEF Answer
      <3>3. left' \in 0 .. session.failures /\ left' <= left /\ left' # left
        BY <1>0, <3>2
      <3> QED
        BY <3>1, <3>3
    <2> QED
      BY <2>1, <2>2
  <1>3. /\ rotors' \in Seq(RotorType) /\ SameBut(rotors, rotors', i)
        /\ closes => rotors'[i] = named(rotors[i])
    <2>1. CASE closes
      <3>1. rotors' = [rotors EXCEPT ![i] = named(rotors[i])]
        BY <1>1, <2>1
      <3>2. named(rotors[i]) \in RotorType
        BY <1>0, NamedRotor
      <3> QED
        BY <1>0, <3>1, <3>2, SeqUpdate DEF SameBut
    <2>2. CASE ~closes
      BY <1>0, <1>1, <2>2 DEF SameBut
    <2> QED
      BY <2>1, <2>2
  <1>4. /\ old \in Seq(ChunkType) /\ Len(old) = Len(chunks)
        /\ \A k \in 1 .. Len(chunks) : /\ SameChunk(chunks[k], old[k])
                                       /\ old[k].rotated <=> chunks[k].rotated \/ k = file[m]
    <2>1. CASE file[m] = NULL
      <3>1. \A k \in 1 .. Len(chunks) : k # file[m]
        BY <1>0, <2>1 DEF NULL
      <3> QED
        BY <1>0, <2>1, <3>1 DEF SameChunk
    <2>2. CASE file[m] # NULL
      <3>1. file[m] \in 1 .. Len(chunks)
        BY <1>0, <2>2 DEF NULL
      <3>2. PICK c \in ChunkType, f \in 1 .. Len(chunks) : f = file[m] /\ c = chunks[f]
        BY <1>0, <3>1
      <3>3. PICK d : d = [c EXCEPT !.rotated = TRUE]
        OBVIOUS
      <3>4. /\ d \in ChunkType /\ d.rotated /\ SameChunk(c, d)
        BY <3>2, <3>3 DEF ChunkType, SameChunk, Frames
      <3>5. old = [chunks EXCEPT ![f] = d]
        BY <1>0, <2>2, <3>2, <3>3 DEF ChunkType
      <3> HIDE DEF old
      <3>6. /\ old \in Seq(ChunkType) /\ Len(old) = Len(chunks) /\ old[f] = d
            /\ \A k \in 1 .. Len(chunks) : k # f => old[k] = chunks[k]
        BY <1>0, <3>2, <3>4, <3>5, SeqUpdate
      <3> QED
        <4> SUFFICES ASSUME NEW k \in 1 .. Len(chunks)
                     PROVE  /\ SameChunk(chunks[k], old[k])
                            /\ old[k].rotated <=> chunks[k].rotated \/ k = file[m]
          BY <3>6
        <4>1. CASE k = f
          BY <3>2, <3>4, <3>6, <4>1
        <4>2. CASE k # f
          BY <3>2, <3>6, <4>2 DEF SameChunk
        <4> QED
          BY <4>1, <4>2
    <2> QED
      BY <2>1, <2>2
  <1> HIDE DEF old
  <1>5. /\ NewChunk(m, rotors[i]) \in ChunkType
    <2>1. unit \in Nat /\ output_name(rotors[i]) \in Bases \X Int
      BY SMTT(30), <1>0, NamedRotor, SessionTypes DEF TypeOK
    <2>2. <<>> \in Seq(Media \X Nat)
      BY EmptySeq
    <2> QED
      BY <2>1, <2>2 DEF NewChunk, ChunkType
  <1>6. CASE closes /\ opens
    <2>1. chunks' = Append(old, NewChunk(m, rotors[i])) /\ file' = [file EXCEPT ![m] = Len(chunks')]
      BY <1>1, <1>6
    <2>2. /\ chunks' \in Seq(ChunkType) /\ Len(chunks') = Len(chunks) + 1
          /\ chunks'[Len(chunks) + 1] = NewChunk(m, rotors[i])
          /\ \A k \in 1 .. Len(chunks) : chunks'[k] = old[k]
      BY <1>4, <1>5, <2>1, SeqAppend
    <2>3. file' \in [{MAIN, AUX} -> 0 .. Len(chunks')] /\ file'[m] = Len(chunks) + 1
      BY <1>0, <2>1, <2>2
    <2>4. Kept(chunks, chunks')
      <3>1. Len(chunks') >= Len(chunks)
        BY <1>0, <2>2
      <3>2. \A k \in 1 .. Len(chunks) : SameChunk(chunks[k], chunks'[k])
        BY <1>4, <2>2
      <3> QED
        BY <3>1, <3>2 DEF Kept
    <2> QED
      BY <1>1, <1>2, <1>3, <1>4, <1>6, <2>2, <2>3, <2>4
  <1>7. CASE closes /\ ~opens
    <2>1. chunks' = old /\ file' = [file EXCEPT ![m] = NULL]
      BY <1>1, <1>7
    <2>2. file' \in [{MAIN, AUX} -> 0 .. Len(chunks')]
      BY <1>0, <1>4, <2>1 DEF NULL
    <2>3. Kept(chunks, chunks')
      BY <1>0, <1>4, <2>1 DEF Kept
    <2> QED
      BY <1>1, <1>2, <1>3, <1>4, <1>7, <2>1, <2>2, <2>3
  <1>8. CASE ~closes
    <2>1. Kept(chunks, chunks')
      <3>0. chunks' = chunks
        BY <1>1, <1>8
      <3>1. Len(chunks') >= Len(chunks)
        BY <1>0, <3>0
      <3>2. \A k \in 1 .. Len(chunks) : SameChunk(chunks[k], chunks'[k])
        BY <3>0 DEF SameChunk
      <3> QED
        BY <3>1, <3>2 DEF Kept
    <2> QED
      BY <1>0, <1>1, <1>2, <1>3, <1>8, <2>1
  <1> QED
    BY <1>6, <1>7, <1>8

LEMMA OwnRotate ==
    ASSUME OwnInv, NEW closes \in BOOLEAN, NEW opens \in BOOLEAN,
           \/ mono_rotate(closes, opens)
           \/ rotate_video(closes, opens)
           \/ rotate_audio(closes, opens)
    PROVE  OwnInv'
  <1>0. /\ TypeOK /\ session \in Sessions /\ Len(rotors) \in Nat
        /\ DOMAIN rotors = 1 .. Len(rotors)
    BY LenProperties DEF OwnInv, TypeOK
  <1>1. /\ Open /\ rotor \in 1 .. Len(rotors) /\ (~mono => rotor_aux \in 1 .. Len(rotors))
        /\ call.can_rotate /\ pc \in {"rotate", "rotate_video", "rotate_audio"}
        /\ pc = "rotate_audio" => ~mono
    <2>1. pc \in {"rotate", "rotate_video", "rotate_audio"}
      BY DEF mono_rotate, rotate_video, rotate_audio
    <2> QED
      BY <1>0, <2>1 DEF OwnInv, Allocated, Places, Open, Writing, TypeOK, NULL
  <1>2. PICK m \in {MAIN, AUX}, i \in 1 .. Len(rotors), after \in {"return", "audio"} :
            rotate(m, i, after, closes, opens)
    BY <1>1 DEF mono_rotate, rotate_video, rotate_audio
  <1>3. /\ pc' = after /\ UNCHANGED <<client, rotor, rotor_aux, call, aret, need_rotate>>
        /\ vret' \in BOOLEAN /\ left' \in 0 .. session.failures /\ left' <= left
        /\ rotors' \in Seq(RotorType) /\ SameBut(rotors, rotors', i)
        /\ closes => rotors'[i] = named(rotors[i])
        /\ ~closes => rotors' = rotors
        /\ chunks' \in Seq(ChunkType)
        /\ file' \in [{MAIN, AUX} -> 0 .. Len(chunks')]
    BY ZenonT(40), <1>2, RotateStep
  <1>4. /\ DOMAIN rotors' = 1 .. Len(rotors) /\ Len(rotors') = Len(rotors)
        /\ \A j \in 1 .. Len(rotors) : rotors'[j].live <=> rotors[j].live
    <2>1. named(rotors[i]).live = rotors[i].live
      <3>1. rotors[i] \in RotorType
        BY <1>0, LenProperties DEF TypeOK
      <3> QED
        BY <3>1, NamedRotor
    <2> QED
      BY <1>0, <1>3, <2>1, LenProperties DEF SameBut
  <1>5. TypeOK'
    BY <1>3, <1>4 DEF OwnInv, TypeOK, client
  <1>6. Open' /\ ~Unused' /\ pc' # "open" /\ pc' # "close_aux" /\ session' = session
    BY <1>3 DEF Open, Unused, Writing, client
  <1>7. Places'
    BY <1>1, <1>3 DEF OwnInv, Places, Writing, mono, client
  <1>8. Allocated'
    BY <1>1, <1>3, <1>4, <1>6 DEF OwnInv, Allocated, mono
  <1>9. NoneLeft'
    <2>1. faultless' => faultless
      BY SMTT(30), <1>0, <1>3, <1>6, SessionTypes DEF faultless, TypeOK
    <2> QED
      BY <1>0, <1>3, <1>4, <1>6, <2>1 DEF OwnInv, NoneLeft
  <1> QED
    BY <1>5, <1>7, <1>8, <1>9 DEF OwnInv

(* An output is closed; a failure leaves its rotor.                        *)
LEMMA CloseStep ==
    ASSUME OwnInv, NEW m \in {MAIN, AUX}, NEW i, NEW ok \in BOOLEAN, muxer_close(m, i, ok)
    PROVE  /\ rotors' \in Seq(RotorType) /\ Len(rotors') = Len(rotors) /\ Len(rotors) \in Nat
           /\ DOMAIN rotors = 1 .. Len(rotors) /\ DOMAIN rotors' = 1 .. Len(rotors)
           /\ \A j \in 1 .. Len(rotors) : /\ rotors'[j].live => rotors[j].live
                                          /\ j # i => (rotors'[j].live <=> rotors[j].live)
                                          /\ ok /\ j = i => ~rotors'[j].live
           /\ file' \in [{MAIN, AUX} -> 0 .. Len(chunks)]
           /\ left' \in 0 .. session.failures
           /\ ok => left' = left
           /\ ~ok => left' < session.failures
  <1>1. rotors \in Seq(RotorType) /\ Len(rotors) \in Nat /\ DOMAIN rotors = 1 .. Len(rotors)
    BY LenProperties DEF OwnInv, TypeOK
  <1>2. /\ rotors' = IF ok THEN Freed(rotors, {i}) ELSE rotors
        /\ file' = IF ok THEN [file EXCEPT ![m] = NULL] ELSE file
        /\ Answer(ok)
    BY DEF muxer_close
  <1>3. /\ left' \in 0 .. session.failures /\ (ok => left' = left)
        /\ (~ok => left' < session.failures)
    BY <1>2, AnswerStep DEF OwnInv
  <1>4. file' \in [{MAIN, AUX} -> 0 .. Len(chunks)]
    <2>1. file \in [{MAIN, AUX} -> 0 .. Len(chunks)] /\ 0 \in 0 .. Len(chunks)
      BY LenProperties DEF OwnInv, TypeOK
    <2> QED
      BY <1>2, <2>1 DEF NULL
  <1>5. CASE ok
    <2>1. rotors' = Freed(rotors, {i})
      BY <1>2, <1>5
    <2> QED
      BY <1>1, <1>3, <1>4, <1>5, <2>1, FreedRotors
  <1>6. CASE ~ok
    BY <1>1, <1>2, <1>3, <1>4, <1>6
  <1> QED
    BY <1>5, <1>6

LEMMA UnitStep ==
    ASSUME TypeOK, pc' = NextUnit, unit' = (IF pc' = "open" THEN unit + 1 ELSE unit)
    PROVE  unit' \in 1 .. session.units /\ pc' \in {"open", "exit"} /\ unit' >= unit
  BY SMTT(30), SessionTypes DEF TypeOK, NextUnit

LEMMA OwnCloseMain ==
    ASSUME OwnInv, NEW ok \in BOOLEAN, close_main(ok)
    PROVE  OwnInv'
  <1>1. /\ pc = "close" /\ muxer_close(MAIN, rotor, ok)
        /\ rotor' = IF ok THEN NULL ELSE rotor
        /\ pc' = IF ok /\ session.dual THEN "close_aux" ELSE NextUnit
        /\ unit' = IF pc' = "open" THEN unit + 1 ELSE unit
        /\ UNCHANGED <<session, calls, pair, error_flag, done, local, rotor_aux, chunks>>
    BY DEF close_main
  <1>2. /\ rotors' \in Seq(RotorType) /\ Len(rotors') = Len(rotors) /\ Len(rotors) \in Nat
        /\ DOMAIN rotors = 1 .. Len(rotors) /\ DOMAIN rotors' = 1 .. Len(rotors)
        /\ \A j \in 1 .. Len(rotors) : /\ rotors'[j].live => rotors[j].live
                                       /\ j # rotor => (rotors'[j].live <=> rotors[j].live)
                                       /\ ok /\ j = rotor => ~rotors'[j].live
        /\ file' \in [{MAIN, AUX} -> 0 .. Len(chunks)]
        /\ left' \in 0 .. session.failures
        /\ ok => left' = left
        /\ ~ok => left' < session.failures
    BY <1>1, CloseStep
  <1>3. /\ unit' \in 1 .. session.units /\ pc' \in {"open", "exit", "close_aux"}
        /\ pc' = "close_aux" => ok /\ ~mono
        /\ ok /\ ~mono => pc' = "close_aux"
    <2>1. CASE ok /\ session.dual
      BY <1>1, <2>1 DEF OwnInv, TypeOK, mono
    <2>2. CASE ~(ok /\ session.dual)
      BY <1>1, <2>2, UnitStep DEF OwnInv, mono
    <2> QED
      BY <2>1, <2>2
  <1>4. TypeOK'
    <2>1. rotor' \in 0 .. Len(rotors')
      BY <1>1, <1>2 DEF OwnInv, TypeOK, NULL
    <2> QED
      BY <1>1, <1>2, <1>3, <2>1 DEF OwnInv, TypeOK, local
  <1>5. Places'
    BY <1>1, <1>3 DEF Places, Writing, mono
  <1>6. /\ ~mono => rotor_aux # NULL
        /\ mono => rotor_aux = rotor
    BY <1>1 DEF OwnInv, Allocated, Open
  <1>7. Allocated'
    BY <1>1, <1>3, <1>6 DEF Allocated, Open, Writing
  <1>8. NoneLeft'
    <2>1. CASE ~ok
      BY <1>1, <1>2, <2>1, SessionTypes DEF NoneLeft, faultless, OwnInv, TypeOK
    <2>2. CASE ok
      <3>1. (faultless' => faultless) /\ ~Unused'
        BY <1>1, <1>2, <1>3, <2>2 DEF faultless, Unused
      <3> SUFFICES ASSUME faultless, NEW j \in 1 .. Len(rotors), rotors'[j].live
                   PROVE  j \in {rotor', rotor_aux'} /\ pc' # "open"
        BY <1>2, <3>1 DEF NoneLeft
      <3>2. j # rotor /\ j \in {rotor, rotor_aux}
        BY <1>2, <2>2 DEF OwnInv, NoneLeft
      <3>3. ~mono
        BY <1>6, <3>2
      <3> QED
        BY <1>1, <1>3, <2>2, <3>2, <3>3
    <2> QED
      BY <2>1, <2>2
  <1> QED
    BY <1>4, <1>5, <1>7, <1>8 DEF OwnInv

LEMMA OwnCloseAux ==
    ASSUME OwnInv, NEW ok \in BOOLEAN, close_aux(ok)
    PROVE  OwnInv'
  <1>1. /\ pc = "close_aux" /\ muxer_close(AUX, rotor_aux, ok)
        /\ rotor_aux' = IF ok THEN NULL ELSE rotor_aux
        /\ pc' = NextUnit /\ unit' = IF pc' = "open" THEN unit + 1 ELSE unit
        /\ UNCHANGED <<session, calls, pair, error_flag, done, local, rotor, chunks>>
    BY DEF close_aux
  <1>2. /\ rotors' \in Seq(RotorType) /\ Len(rotors') = Len(rotors) /\ Len(rotors) \in Nat
        /\ DOMAIN rotors = 1 .. Len(rotors) /\ DOMAIN rotors' = 1 .. Len(rotors)
        /\ \A j \in 1 .. Len(rotors) : /\ rotors'[j].live => rotors[j].live
                                       /\ ok /\ j = rotor_aux => ~rotors'[j].live
        /\ file' \in [{MAIN, AUX} -> 0 .. Len(chunks)]
        /\ left' \in 0 .. session.failures
        /\ ok => left' = left
        /\ ~ok => left' < session.failures
    BY <1>1, CloseStep
  <1>3. unit' \in 1 .. session.units /\ pc' \in {"open", "exit"}
    BY <1>1, UnitStep DEF OwnInv
  <1>4. TypeOK'
    <2>1. rotor_aux' \in 0 .. Len(rotors')
      BY <1>1, <1>2 DEF OwnInv, TypeOK, NULL
    <2> QED
      BY <1>1, <1>2, <1>3, <2>1 DEF OwnInv, TypeOK, local
  <1>5. Places' /\ Allocated'
    BY <1>1, <1>3 DEF Places, Allocated, Open, Writing, mono
  <1>6. NoneLeft'
    <2>1. CASE ~ok
      BY <1>1, <1>2, <2>1, SessionTypes DEF NoneLeft, faultless, OwnInv, TypeOK
    <2>2. CASE ok
      <3>1. faultless' => faultless
        BY <1>1, <1>2, <2>2 DEF faultless
      <3> SUFFICES ASSUME faultless, NEW j \in 1 .. Len(rotors), rotors'[j].live
                   PROVE  FALSE
        BY <1>2, <3>1 DEF NoneLeft
      <3> QED
        BY <1>1, <1>2, <2>2 DEF OwnInv, NoneLeft, Allocated, NULL
    <2> QED
      BY <2>1, <2>2
  <1> QED
    BY <1>4, <1>5, <1>6 DEF OwnInv

LEMMA OwnNext == OwnInv /\ [Next]_vars => OwnInv'
  <1> SUFFICES ASSUME OwnInv, [Next]_vars PROVE OwnInv'
    OBVIOUS
  <1>1. CASE \E ok \in BOOLEAN : \/ mono_setup(ok) \/ dual_setup(ok) \/ dual_open_aux(ok)
                                \/ write_video(ok) \/ write_audio(ok)
                                \/ close_main(ok) \/ close_aux(ok)
    BY <1>1, OwnMonoSetup, OwnDualSetup, OwnDualAux, OwnWrite, OwnCloseMain, OwnCloseAux
  <1>2. CASE \E closes, opens \in BOOLEAN : \/ mono_rotate(closes, opens)
                                           \/ rotate_video(closes, opens)
                                           \/ rotate_audio(closes, opens)
    BY <1>2, OwnRotate
  <1>3. CASE UNCHANGED vars
    BY <1>3, OwnQuiet
  <1>4. CASE exited
    BY <1>4, OwnQuiet DEF exited
  <1> QED
    BY <1>1, <1>2, <1>3, <1>4, OwnQuiet, OwnBegin, OwnReturn, OwnLimit, OwnOpenFailed DEF Next

(* An open output has its rotors, the two of dual mode are not the same,   *)
(* and where nothing fails no rotor is left behind when a unit ends: for   *)
(* any number of units, rotations and failures.                            *)
THEOREM RotorsSafe == Spec => [](TypeOK /\ RotorsOwned)
  <1>1. OwnInv => TypeOK /\ RotorsOwned
    BY DEF OwnInv, Allocated, NoneLeft, RotorsOwned, Open, Writing, mono
  <1> QED
    BY OwnInit, OwnNext, <1>1, PTL DEF Spec

-----------------------------------------------------------------------------
(* What the files are called.                                              *)

LEMMA NameInit == Init => NameInv
  BY DEF Init, NameInv, Numbered, NothingOverwritten, Open, Writing

LEMMA ChunkTypes ==
    ASSUME OwnInv
    PROVE  /\ chunks \in Seq(ChunkType) /\ Len(chunks) \in Nat /\ DOMAIN chunks = 1 .. Len(chunks)
           /\ unit \in Nat
           /\ \A k \in 1 .. Len(chunks) :
                 chunks[k].unit \in Nat /\ chunks[k].name[2] \in Int /\ chunks[k].rotated \in BOOLEAN
  <1>1. chunks \in Seq(ChunkType) /\ unit \in Nat
    BY SessionTypes DEF OwnInv, TypeOK
  <1>2. \A k \in 1 .. Len(chunks) : chunks[k] \in ChunkType
    BY <1>1, LenProperties
  <1>3. \A k \in 1 .. Len(chunks) :
            chunks[k].unit \in Nat /\ chunks[k].name[2] \in Int /\ chunks[k].rotated \in BOOLEAN
    BY <1>2 DEF ChunkType
  <1> QED
    BY <1>1, <1>3, LenProperties

(* The steps that open no chunk.                                           *)
SameNames(s, t) ==
    Len(t) = Len(s) /\ \A k \in 1 .. Len(s) : t[k].unit = s[k].unit /\ t[k].name = s[k].name

LEMMA NameKept ==
    ASSUME OwnInv, NameInv, mono, session' = session, unit' >= unit, unit' \in Nat,
           chunks' \in Seq(ChunkType), SameNames(chunks, chunks'),
           Unused' => Unused,
           pc' = "open" => Unused \/ unit' > unit,
           Open' => /\ Open /\ unit' = unit
                    /\ rotors'[rotor'].base = rotors[rotor].base
                    /\ rotors'[rotor'].chunk_num >= rotors[rotor].chunk_num
                    /\ rotors'[rotor'].chunk_num \in Nat /\ rotors[rotor].chunk_num \in Nat,
           pc' \in {"video", "audio", "rotate"} /\ need_rotate' => rotors'[rotor'].policy # "never",
           pc' = "rotate" => need_rotate'
    PROVE  NameInv'
  <1>1. /\ chunks \in Seq(ChunkType) /\ DOMAIN chunks = 1 .. Len(chunks) /\ unit \in Nat
        /\ DOMAIN chunks' = 1 .. Len(chunks) /\ Len(chunks) \in Nat
        /\ \A k \in 1 .. Len(chunks) :
              /\ chunks[k].unit \in Nat /\ chunks[k].name[2] \in Int
              /\ chunks'[k].unit = chunks[k].unit /\ chunks'[k].name = chunks[k].name
    BY ChunkTypes, LenProperties DEF SameNames
  <1>2. Numbered /\ NothingOverwritten
    BY DEF NameInv
  <1>3. NothingOverwritten'
    BY <1>1, <1>2 DEF NothingOverwritten, mono
  <1>4. \A k \in DOMAIN chunks' : /\ chunks'[k].unit <= unit'
                                 /\ chunks'[k].name[1] = <<"video", chunks'[k].unit>>
    BY <1>1, <1>2 DEF Numbered
  <1>5. Unused' => chunks' = <<>>
    <2>1. Unused => chunks = <<>>
      BY <1>2 DEF Numbered
    <2> QED
      BY <1>1, <2>1, EmptySeq
  <1>6. pc' = "open" => \A k \in DOMAIN chunks' : chunks'[k].unit < unit'
    <2>1. Unused => Len(chunks) = 0
      BY <1>2 DEF Numbered
    <2> QED
      BY <1>1, <1>2, <2>1 DEF Numbered
  <1>7. Open' => /\ rotors'[rotor'].base = <<"video", unit'>>
                 /\ \A k \in DOMAIN chunks' :
                       chunks'[k].unit = unit' => chunks'[k].name[2] < rotors'[rotor'].chunk_num
    <2> SUFFICES ASSUME Open' PROVE /\ rotors'[rotor'].base = <<"video", unit>>
                                    /\ \A k \in 1 .. Len(chunks) :
                                          chunks[k].unit = unit => chunks[k].name[2] < rotors'[rotor'].chunk_num
      BY <1>1
    <2>1. rotors'[rotor'].base = <<"video", unit>>
      BY <1>2 DEF Numbered
    <2>2. ASSUME NEW k \in 1 .. Len(chunks), chunks[k].unit = unit
          PROVE  chunks[k].name[2] < rotors'[rotor'].chunk_num
      <3>1. chunks[k].name[2] < rotors[rotor].chunk_num
        BY <1>1, <1>2, <2>2 DEF Numbered
      <3> QED
        BY <1>1, <3>1
    <2> QED
      BY <2>1, <2>2
  <1> QED
    BY <1>3, <1>4, <1>5, <1>6, <1>7 DEF NameInv, Numbered

(* A chunk is opened with a name of its unit that is not below the next    *)
(* number.                                                                 *)
LEMMA NameOpened ==
    ASSUME OwnInv, NameInv, mono, session' = session, unit' = unit,
           chunks' \in Seq(ChunkType), Len(chunks') = Len(chunks) + 1,
           \A k \in 1 .. Len(chunks) : SameChunk(chunks[k], chunks'[k]),
           NEW n \in Int,
           chunks'[Len(chunks) + 1].unit = unit,
           chunks'[Len(chunks) + 1].name = <<<<"video", unit>>, n>>,
           \A k \in 1 .. Len(chunks) : chunks[k].unit = unit => chunks[k].name[2] < n,
           rotors'[rotor'].base = <<"video", unit>>, n < rotors'[rotor'].chunk_num,
           rotors'[rotor'].chunk_num \in Nat,
           Open', pc' \notin {"video", "audio", "rotate"}
    PROVE  NameInv'
  <1>1. /\ chunks \in Seq(ChunkType) /\ DOMAIN chunks = 1 .. Len(chunks) /\ unit \in Nat
        /\ DOMAIN chunks' = 1 .. (Len(chunks) + 1) /\ Len(chunks) \in Nat
        /\ \A k \in 1 .. Len(chunks) :
              /\ chunks[k].unit \in Nat /\ chunks[k].name[2] \in Int
              /\ chunks'[k].unit = chunks[k].unit /\ chunks'[k].name = chunks[k].name
    BY ChunkTypes, LenProperties DEF SameChunk
  <1>2. Numbered /\ NothingOverwritten
    BY DEF NameInv
  <1>3. NothingOverwritten'
    <2>1. ASSUME NEW k \in 1 .. Len(chunks)
          PROVE  chunks'[k].name # chunks'[Len(chunks) + 1].name
      <3>1. CASE chunks[k].unit = unit
        <4>1. chunks[k].name[2] < n
          BY <3>1
        <4>2. chunks'[k].name[2] # n
          BY <1>1, <4>1
        <4>3. chunks'[Len(chunks) + 1].name[2] = n
          OBVIOUS
        <4> QED
          BY <4>2, <4>3
      <3>2. CASE chunks[k].unit # unit
        <4>1. chunks'[k].name[1] = <<"video", chunks[k].unit>>
          BY <1>1, <1>2 DEF Numbered
        <4>2. chunks'[k].name[1] # <<"video", unit>>
          BY <3>2, <4>1
        <4>3. chunks'[Len(chunks) + 1].name[1] = <<"video", unit>>
          OBVIOUS
        <4> QED
          BY <4>2, <4>3
      <3> QED
        BY <3>1, <3>2
    <2>2. \A j, k \in 1 .. Len(chunks) : j # k => chunks'[j].name # chunks'[k].name
      BY <1>1, <1>2 DEF NothingOverwritten
    <2>3. \A k \in 1 .. (Len(chunks) + 1) : k \in 1 .. Len(chunks) \/ k = Len(chunks) + 1
      BY <1>1
    <2> QED
      BY <1>1, <2>1, <2>2, <2>3 DEF NothingOverwritten
  <1>4. \A k \in 1 .. (Len(chunks) + 1) : k \in 1 .. Len(chunks) \/ k = Len(chunks) + 1
    BY <1>1
  <1>5. \A k \in DOMAIN chunks' :
            /\ chunks'[k].unit <= unit'
            /\ chunks'[k].name[1] = <<"video", chunks'[k].unit>>
            /\ chunks'[k].unit = unit' => chunks'[k].name[2] < rotors'[rotor'].chunk_num
    <2>1. ASSUME NEW k \in 1 .. Len(chunks)
          PROVE  /\ chunks'[k].unit <= unit'
                 /\ chunks'[k].name[1] = <<"video", chunks'[k].unit>>
                 /\ chunks'[k].unit = unit' => chunks'[k].name[2] < rotors'[rotor'].chunk_num
      BY SMTT(30), <1>1, <1>2 DEF Numbered
    <2>2. LET k == Len(chunks) + 1
          IN  /\ chunks'[k].unit <= unit'
              /\ chunks'[k].name[1] = <<"video", chunks'[k].unit>>
              /\ chunks'[k].name[2] < rotors'[rotor'].chunk_num
      BY <1>1
    <2> QED
      BY <1>1, <1>4, <2>1, <2>2
  <1>6. ~Unused' /\ pc' # "open"
    BY DEF Open, Unused, Writing
  <1> QED
    BY <1>3, <1>5, <1>6 DEF NameInv, Numbered

LEMMA NamesSame ==
    ASSUME OwnInv, chunks' = chunks
    PROVE  chunks' \in Seq(ChunkType) /\ SameNames(chunks, chunks')
  BY DEF OwnInv, TypeOK, SameNames

(* The rotor of an open output.                                            *)
LEMMA OpenRotor ==
    ASSUME OwnInv, Open
    PROVE  /\ rotor \in 1 .. Len(rotors) /\ rotors[rotor] \in RotorType
           /\ rotors[rotor].chunk_num \in Nat
  <1>1. rotor \in 0 .. Len(rotors) /\ rotor # NULL /\ rotors \in Seq(RotorType) /\ Len(rotors) \in Nat
    BY LenProperties DEF OwnInv, TypeOK, Allocated
  <1>2. rotor \in 1 .. Len(rotors)
    BY <1>1 DEF NULL
  <1>3. rotors[rotor] \in RotorType
    BY <1>1, <1>2, LenProperties
  <1> QED
    BY <1>2, <1>3 DEF RotorType

LEMMA NameQuiet ==
    ASSUME OwnInv, NameInv, mono,
           \/ tc_multiplexor_init \/ limits_set \/ next_range \/ end_loop \/ flushed
           \/ UNCHANGED vars \/ return \/ tc_export_frames
           \/ \E frames \in SUBSET Media \ {{}} : tc_export_flush(frames)
    PROVE  NameInv'
  <1>1. UNCHANGED <<session, unit, rotors, rotor, chunks>>
    BY DEF tc_multiplexor_init, limits_set, next_range, end_loop, flushed, vars, return,
           tc_export_frames, tc_export_flush, begin_write, client
  <1>2. session.when \in {"init", "opened"} /\ unit \in Nat
    BY SessionTypes DEF OwnInv, TypeOK
  <1>3. /\ Unused' => Unused
        /\ pc' = "open" => Unused \/ pc = "open"
        /\ Open' => Open
        /\ pc' \in {"video", "audio", "rotate"} /\ need_rotate' => pc' = pc /\ need_rotate
        /\ pc' = "rotate" => UNCHANGED vars
    <2>1. CASE tc_multiplexor_init
      BY <1>1, <1>2, <2>1 DEF tc_multiplexor_init, Unused, Open, Writing
    <2>2. CASE limits_set
      BY <1>1, <1>2, <2>2 DEF limits_set, Unused, Open, Writing
    <2>3. CASE next_range \/ end_loop \/ flushed \/ return
      BY <2>3 DEF next_range, end_loop, flushed, return, Unused, Open, Writing
    <2>4. CASE UNCHANGED vars
      BY <2>4 DEF vars, Unused, Open, local
    <2>5. CASE tc_export_frames \/ \E frames \in SUBSET Media \ {{}} : tc_export_flush(frames)
      BY <2>5 DEF tc_export_frames, tc_export_flush, begin_write, Unused, Open, Writing
    <2> QED
      BY <2>1, <2>2, <2>3, <2>4, <2>5
  <1>4. CASE pc' = "open" /\ pc = "open"
    BY <1>1, <1>4 DEF NameInv, Numbered, NothingOverwritten, Open, Writing, mono, Unused
  <1>5. CASE ~(pc' = "open" /\ pc = "open")
    <2>1. Numbered
      BY DEF NameInv
    <2>2. Open => rotors[rotor].chunk_num \in Nat
      BY OpenRotor
    <2>3. pc' \in {"video", "audio", "rotate"} /\ need_rotate' => rotors'[rotor'].policy # "never"
      BY <1>1, <1>3, <2>1 DEF Numbered
    <2>4. pc' = "rotate" => need_rotate'
      BY <1>3, <2>1 DEF Numbered, vars, local
    <2> QED
      BY <1>1, <1>2, <1>3, <1>5, <2>2, <2>3, <2>4, NamesSame, NameKept
  <1> QED
    BY <1>4, <1>5

LEMMA NameLimit ==
    ASSUME OwnInv, NameInv, mono, tc_multiplexor_limit
    PROVE  NameInv'
  <1>1. /\ pc = "limit" /\ pc' = pc /\ UNCHANGED <<session, unit, rotor, chunks>>
    BY DEF tc_multiplexor_limit
  <1>2. unit \in Nat /\ (Open' => Open) /\ (Unused' => Unused)
    BY <1>1, SessionTypes DEF OwnInv, TypeOK, Open, Unused
  <1>3. Open => /\ rotors'[rotor].base = rotors[rotor].base
                /\ rotors'[rotor].chunk_num = rotors[rotor].chunk_num
                /\ rotors[rotor].chunk_num \in Nat
    <2>1. Open => rotor # NULL
      BY DEF OwnInv, Allocated
    <2> QED
      BY <2>1, LimitStep, OpenRotor
  <1> QED
    BY <1>1, <1>2, <1>3, NamesSame, NameKept

LEMMA NameMonoSetup ==
    ASSUME OwnInv, NameInv, NEW ok \in BOOLEAN, mono_setup(ok)
    PROVE  NameInv'
  <1>0. TypeOK /\ session \in Sessions /\ unit \in Nat /\ mono
    BY SessionTypes DEF OwnInv, TypeOK, mono_setup, mono
  <1>1. CASE ok = TRUE
    <2>1. /\ pc = "open" /\ mono /\ UNCHANGED <<client, local>>
          /\ pc' = Opened /\ rotors'[rotor'] = Fresh(MAIN)
          /\ chunks' \in Seq(ChunkType) /\ Longer(chunks, chunks')
          /\ chunks'[Len(chunks) + 1] = NewChunk(MAIN, Fresh(MAIN))
      BY <1>1, MonoSetupStep
    <2>2. session' = session /\ unit' = unit
      BY <2>1 DEF client
    <2>3. Open' /\ pc' \in {"limit", "loop"}
      BY <1>0, <2>1, <2>2, OpenedIsOpen
    <2>4. Fresh(MAIN).base = <<"video", unit>> /\ Fresh(MAIN).chunk_num = 0 /\ Fresh(MAIN).policy = "never"
      BY <1>0, FreshRotor
    <2>5. /\ chunks'[Len(chunks) + 1].unit = unit
          /\ chunks'[Len(chunks) + 1].name = <<<<"video", unit>>, -1>>
      BY <2>1, <2>4 DEF NewChunk, output_name
    <2>6. \A k \in 1 .. Len(chunks) : chunks[k].unit # unit
      <3>1. \A k \in DOMAIN chunks : chunks[k].unit < unit
        BY <2>1 DEF NameInv, Numbered
      <3>2. DOMAIN chunks = 1 .. Len(chunks) /\ \A k \in 1 .. Len(chunks) : chunks[k].unit \in Nat
        BY ChunkTypes
      <3> QED
        BY <1>0, <3>1, <3>2
    <2>7. \A k \in 1 .. Len(chunks) : SameChunk(chunks[k], chunks'[k])
      BY <2>1 DEF Longer, SameChunk
    <2>8. Len(chunks') = Len(chunks) + 1 /\ -1 \in Int /\ -1 < 0 /\ 0 \in Nat
      BY <2>1 DEF Longer
    <2>9. pc' \notin {"video", "audio", "rotate"}
      BY <2>3
    <2>10. PICK n \in Int : n = -1
      BY <2>8
    <2> QED
      BY <2>1, <2>2, <2>3, <2>4, <2>5, <2>6, <2>7, <2>8, <2>9, <2>10, NameOpened
  <1>2. CASE ok = FALSE
    <2>1. pc' = "exit" /\ UNCHANGED <<session, unit, chunks>>
      BY <1>2 DEF mono_setup, client
    <2>2. ~Open' /\ ~Unused'
      BY <2>1 DEF Open, Unused, Writing
    <2> QED
      BY <1>0, <2>1, <2>2, NamesSame, NameKept
  <1> QED
    BY <1>1, <1>2

(* Only a rotor that numbers its chunks asks for a rotation.               *)
LEMMA NeedsNumber ==
    ASSUME NEW r \in RotorType, needed(count(r))
    PROVE  r.policy # "never"
  <1>1. count(r).policy = r.policy
    BY CountedRotor DEF SameRotor
  <1> QED
    BY <1>1 DEF needed

LEMMA NameWrite ==
    ASSUME OwnInv, NameInv, mono, NEW ok \in BOOLEAN, write_video(ok) \/ write_audio(ok)
    PROVE  NameInv'
  <1>1. PICK medium \in Media :
           /\ OneFrame(medium) /\ pc \in {"video", "audio"} /\ pc' \in {"audio", "rotate", "return"}
           /\ UNCHANGED <<session, unit, rotor>>
           /\ pc' = "rotate" => need_rotate'
    <2>1. CASE write_video(ok)
      <3>1. /\ pc = "video" /\ pc' = "audio" /\ UNCHANGED <<client, rotor>>
            /\ OneFrame("video")
        BY <2>1, WriteVideoStep
      <3> QED
        BY <3>1 DEF client, Media
    <2>2. CASE write_audio(ok)
      <3>1. /\ pc = "audio" /\ pc' \in {"rotate", "return"} /\ UNCHANGED <<client, rotor>>
            /\ OneFrame("audio") /\ (pc' = "rotate" => need_rotate')
        BY <2>2, WriteAudioStep
      <3> QED
        BY <3>1 DEF client, Media
    <2> QED
      BY <2>1, <2>2
  <1>2. /\ Open /\ ~Unused' /\ pc' # "open" /\ unit \in Nat
        /\ rotor \in 1 .. Len(rotors) /\ rotors[rotor] \in RotorType
        /\ rotors[rotor].chunk_num \in Nat
    BY <1>1, OpenRotor, ChunkTypes DEF Open, Unused, Writing
  <1>3. need_rotate => rotors[rotor].policy # "never"
    BY <1>1 DEF NameInv, Numbered
  <1>4. /\ chunks' \in Seq(ChunkType) /\ SameNames(chunks, chunks')
        /\ SameRotor(rotors[rotor], rotors'[rotor])
        /\ rotors'[rotor].chunk_num = rotors[rotor].chunk_num
        /\ need_rotate' => rotors[rotor].policy # "never"
    <2>1. CASE write_frame(medium, TRUE)
      <3>1. /\ rotors'[rotor] = count(rotors[rotor])
            /\ chunks' \in Seq(ChunkType) /\ SameBut(chunks, chunks', file[MAIN])
            /\ chunks'[file[MAIN]].unit = chunks[file[MAIN]].unit
            /\ chunks'[file[MAIN]].name = chunks[file[MAIN]].name
            /\ need_rotate' = needed(count(rotors[rotor]))
        BY <1>1, <2>1, FrameTaken
      <3>2. SameNames(chunks, chunks')
        BY <3>1 DEF SameNames, SameBut
      <3> QED
        BY <1>2, <3>1, <3>2, CountedRotor, NeedsNumber
    <2>2. CASE write_frame(medium, FALSE)
      <3>1. chunks' = chunks /\ rotors' = rotors /\ (need_rotate' => need_rotate)
        BY <2>2, FrameRefused
      <3> QED
        BY <1>3, <3>1, NamesSame DEF SameRotor
    <2>3. CASE NoFrame
      <3>1. chunks' = chunks /\ rotors' = rotors /\ need_rotate' = need_rotate
        BY <2>3 DEF NoFrame
      <3> QED
        BY <1>3, <3>1, NamesSame DEF SameRotor
    <2> QED
      BY <1>1, <2>1, <2>2, <2>3 DEF OneFrame
  <1> QED
    BY <1>1, <1>2, <1>4, NameKept DEF SameRotor

LEMMA NameRotate ==
    ASSUME OwnInv, NameInv, mono, NEW closes \in BOOLEAN, NEW opens \in BOOLEAN,
           mono_rotate(closes, opens)
    PROVE  NameInv'
  <1>1. /\ pc = "rotate" /\ Open /\ rotor \in 1 .. Len(rotors) /\ rotors[rotor] \in RotorType
        /\ rotors[rotor].chunk_num \in Nat /\ unit \in Nat
        /\ rotate(MAIN, rotor, "return", closes, opens)
    BY OpenRotor, ChunkTypes DEF mono_rotate, Open, Writing
  <1>2. /\ rotors[rotor].policy # "never" /\ rotors[rotor].base = <<"video", unit>>
        /\ \A k \in 1 .. Len(chunks) :
              chunks[k].unit = unit => chunks[k].name[2] < rotors[rotor].chunk_num
    BY <1>1, ChunkTypes DEF NameInv, Numbered
  <1>3. /\ pc' = "return" /\ UNCHANGED <<client, rotor>>
        /\ closes => rotors'[rotor] = named(rotors[rotor])
        /\ ~closes => rotors' = rotors
        /\ chunks' \in Seq(ChunkType) /\ Kept(chunks, chunks')
        /\ closes /\ opens => /\ Len(chunks') = Len(chunks) + 1
                              /\ chunks'[Len(chunks) + 1] = NewChunk(MAIN, rotors[rotor])
        /\ ~(closes /\ opens) => Len(chunks') = Len(chunks)
    BY <1>1, RotateStep
  <1>4. session' = session /\ unit' = unit /\ Open' /\ ~Unused'
    BY <1>3 DEF client, Open, Unused, Writing
  <1>5. /\ named(rotors[rotor]).base = rotors[rotor].base
        /\ named(rotors[rotor]).chunk_num = rotors[rotor].chunk_num + 1
    BY <1>1, <1>2, NamedRotor DEF SameRotor
  <1>6. CASE closes /\ opens
    <2>1. PICK n \in Nat : n = rotors[rotor].chunk_num
      BY <1>1
    <2>2. /\ chunks'[Len(chunks) + 1].unit = unit
          /\ chunks'[Len(chunks) + 1].name = <<<<"video", unit>>, n>>
      BY <1>2, <1>3, <1>6, <2>1 DEF NewChunk, output_name
    <2>3. /\ rotors'[rotor'].base = <<"video", unit>> /\ rotors'[rotor'].chunk_num = n + 1
          /\ n + 1 \in Nat /\ n < n + 1 /\ n \in Int
      BY <1>2, <1>3, <1>5, <1>6, <2>1
    <2>4. \A k \in 1 .. Len(chunks) : SameChunk(chunks[k], chunks'[k])
      BY <1>3 DEF Kept
    <2> QED
      BY <1>2, <1>3, <1>4, <1>6, <2>1, <2>2, <2>3, <2>4, NameOpened
  <1>7. CASE ~(closes /\ opens)
    <2>1. SameNames(chunks, chunks')
      BY <1>3, <1>7 DEF Kept, SameChunk, SameNames
    <2>2. /\ rotors'[rotor'].base = rotors[rotor].base
          /\ rotors'[rotor'].chunk_num >= rotors[rotor].chunk_num
          /\ rotors'[rotor'].chunk_num \in Nat
      BY <1>1, <1>3, <1>5
    <2> QED
      BY <1>1, <1>3, <1>4, <2>1, <2>2, NameKept
  <1> QED
    BY <1>6, <1>7

LEMMA NameClose ==
    ASSUME OwnInv, NameInv, mono, NEW ok \in BOOLEAN, close_main(ok)
    PROVE  NameInv'
  <1>1. /\ UNCHANGED <<session, chunks>> /\ pc' = NextUnit
        /\ unit' = IF pc' = "open" THEN unit + 1 ELSE unit
    BY DEF close_main, mono
  <1>2. /\ pc' \in {"open", "exit"} /\ unit' >= unit /\ unit' \in Nat
        /\ pc' = "open" => unit' > unit
    BY SMTT(30), <1>1, UnitStep, ChunkTypes, SessionTypes DEF OwnInv, TypeOK
  <1>3. ~Open' /\ ~Unused'
    BY <1>2 DEF Open, Unused, Writing
  <1>4. pc' \notin {"video", "audio", "rotate"}
    BY <1>2
  <1> QED
    BY <1>1, <1>2, <1>3, <1>4, NamesSame, NameKept

(* The actions of dual mode.                                               *)
LEMMA DualOnly ==
    ASSUME OwnInv, mono, NEW ok, NEW closes, NEW opens
    PROVE  /\ ~dual_setup(ok) /\ ~dual_open_aux(ok) /\ ~close_aux(ok) /\ ~dual_open_failed
           /\ ~rotate_video(closes, opens) /\ ~rotate_audio(closes, opens)
  BY DEF OwnInv, Places, mono, dual_setup, dual_open_aux, close_aux, dual_open_failed,
         rotate_video, rotate_audio

(* The steps of mono mode.                                                 *)
Quiet ==
    \/ tc_multiplexor_init \/ limits_set \/ next_range \/ end_loop \/ flushed
    \/ UNCHANGED vars \/ return \/ tc_export_frames
    \/ \E frames \in SUBSET Media \ {{}} : tc_export_flush(frames)

LEMMA MonoNext ==
    ASSUME OwnInv, mono, [Next]_vars
    PROVE  \/ Quiet \/ tc_multiplexor_limit
           \/ \E ok \in BOOLEAN : \/ mono_setup(ok) \/ close_main(ok)
                                  \/ write_video(ok) \/ write_audio(ok)
           \/ \E closes, opens \in BOOLEAN : mono_rotate(closes, opens)
  BY DualOnly DEF Next, Quiet, exited

LEMMA SessionKept == [Next]_vars => session' = session
  BY DEF Next, vars, client, local, exited, tc_multiplexor_init, tc_multiplexor_limit, limits_set,
         mono_setup, dual_setup, dual_open_aux, dual_open_failed, write_video, write_audio,
         close_main, close_aux, tc_export_frames, next_range, end_loop, return, flushed,
         tc_export_flush, mono_rotate, rotate_video, rotate_audio, rotate

LEMMA NameNext == OwnInv /\ NameInv /\ [Next]_vars => NameInv'
  <1> SUFFICES ASSUME OwnInv, NameInv, [Next]_vars PROVE NameInv'
    OBVIOUS
  <1>1. CASE mono
    BY <1>1, MonoNext, NameQuiet, NameLimit, NameMonoSetup, NameWrite, NameRotate, NameClose DEF Quiet
  <1>2. CASE ~mono
    <2>1. session' = session
      BY SessionKept
    <2> QED
      BY <1>2, <2>1 DEF NameInv, mono
  <1> QED
    BY <1>1, <1>2

(* No file is opened twice, neither by a rotation nor for the next unit,   *)
(* however long the session, whatever its limit and whatever fails.        *)
THEOREM NeverOverwritten == Spec => []NothingOverwritten
  <1>1. Init => OwnInv /\ NameInv
    BY OwnInit, NameInit
  <1>2. (OwnInv /\ NameInv) /\ [Next]_vars => (OwnInv /\ NameInv)'
    BY OwnNext, NameNext
  <1>3. NameInv => NothingOverwritten
    BY DEF NameInv, NothingOverwritten
  <1> QED
    BY <1>1, <1>2, <1>3, PTL DEF Spec

-----------------------------------------------------------------------------
(* Where the frames of a pair go: a chunk never loses a frame.             *)

Grown(s, t) == Len(t) >= Len(s) /\ \A k \in 1 .. Len(s) : Frames(s[k]) \subseteq Frames(t[k])

LEMMA WholeGrown ==
    ASSUME OwnInv, chunks' \in Seq(ChunkType), Grown(chunks, chunks'), NEW p, Whole(p)
    PROVE  Whole(p)'
  <1>1. /\ DOMAIN chunks = 1 .. Len(chunks) /\ DOMAIN chunks' = 1 .. Len(chunks')
        /\ Len(chunks) \in Nat /\ Len(chunks') \in Nat
    BY ChunkTypes, LenProperties
  <1>2. PICK k \in 1 .. Len(chunks) : {<<"video", p>>, <<"audio", p>>} \subseteq Frames(chunks[k])
    BY <1>1 DEF Whole
  <1>3. k \in DOMAIN chunks' /\ Frames(chunks[k]) \subseteq Frames(chunks'[k])
    BY <1>1 DEF Grown
  <1> QED
    BY <1>2, <1>3 DEF Whole

LEMMA GrownSame ==
    ASSUME OwnInv, chunks' = chunks
    PROVE  chunks' \in Seq(ChunkType) /\ Grown(chunks, chunks')
  <1>1. chunks \in Seq(ChunkType) /\ Len(chunks) \in Nat
    BY ChunkTypes
  <1> QED
    BY <1>1 DEF Grown

(* The steps that finish no pair.                                          *)
LEMMA WholeKept ==
    ASSUME OwnInv, WholeInv, mono, session' = session, done' = done,
           chunks' \in Seq(ChunkType), Grown(chunks, chunks'), pc' \notin {"audio", "rotate", "return"}
    PROVE  WholeInv'
  <1>1. \A p \in done : Whole(p)
    BY DEF WholeInv
  <1> QED
    BY <1>1, WholeGrown DEF WholeInv

LEMMA WholeQuiet ==
    ASSUME OwnInv, WholeInv, mono, Quiet \/ tc_multiplexor_limit
    PROVE  WholeInv'
  <1>1. UNCHANGED <<session, chunks>>
    BY DEF Quiet, tc_multiplexor_init, limits_set, next_range, end_loop, flushed, vars, return,
           tc_export_frames, tc_export_flush, begin_write, client, tc_multiplexor_limit
  <1>2. CASE UNCHANGED vars
    <2>1. UNCHANGED <<session, pc, call, vret, aret, file, chunks, pair, done>>
      BY <1>2 DEF vars, local
    <2>2. \A p : Whole(p)' <=> Whole(p)
      BY <2>1 DEF Whole
    <2> QED
      BY <2>1, <2>2 DEF WholeInv, mono
  <1>3. CASE return
    <2>1. /\ pc = "return" /\ pc' \in {"loop", "close"}
          /\ call.can_rotate => done' = IF vret /\ aret THEN done \union {pair} ELSE done
          /\ ~call.can_rotate => done' = done
      BY <1>3 DEF return
    <2>2. \A p \in done' : Whole(p)
      BY <2>1 DEF WholeInv
    <2>3. \A p \in done' : Whole(p)'
      BY <1>1, <2>2, GrownSame, WholeGrown
    <2> QED
      BY <2>1, <2>3 DEF WholeInv
  <1>4. CASE ~return /\ ~UNCHANGED vars
    <2>1. done' = done /\ pc' \notin {"audio", "rotate", "return"}
      BY <1>4 DEF Quiet, tc_multiplexor_init, limits_set, next_range, end_loop, flushed,
             tc_export_frames, tc_export_flush, begin_write, client, tc_multiplexor_limit
    <2> QED
      BY <1>1, <2>1, GrownSame, WholeKept
  <1> QED
    BY <1>2, <1>3, <1>4

LEMMA WholeSetup ==
    ASSUME OwnInv, WholeInv, mono, NEW ok \in BOOLEAN, mono_setup(ok)
    PROVE  WholeInv'
  <1>1. CASE ok = TRUE
    <2>1. /\ UNCHANGED <<client, local>> /\ pc' = Opened
          /\ chunks' \in Seq(ChunkType) /\ Longer(chunks, chunks')
      BY <1>1, MonoSetupStep
    <2>2. session' = session /\ done' = done
      BY <2>1 DEF client
    <2>3. pc' \notin {"audio", "rotate", "return"}
      BY <2>1 DEF Opened
    <2>4. Grown(chunks, chunks')
      BY <2>1, ChunkTypes DEF Longer, Grown
    <2> QED
      BY <2>1, <2>2, <2>3, <2>4, WholeKept
  <1>2. CASE ok = FALSE
    <2>1. pc' = "exit" /\ UNCHANGED <<session, done, chunks>>
      BY <1>2 DEF mono_setup, client
    <2> QED
      BY <2>1, GrownSame, WholeKept
  <1> QED
    BY <1>1, <1>2

(* The chunk a frame is appended to grows, the others are kept.            *)
LEMMA GrownWritten ==
    ASSUME OwnInv, pc \in {"video", "audio"}, NEW medium \in Media, OneFrame(medium)
    PROVE  chunks' \in Seq(ChunkType) /\ Grown(chunks, chunks')
  <1>1. CASE write_frame(medium, TRUE)
    <2>1. /\ chunks' \in Seq(ChunkType) /\ SameBut(chunks, chunks', file[MAIN])
          /\ Frames(chunks[file[MAIN]]) \subseteq Frames(chunks'[file[MAIN]])
      BY <1>1, FrameTaken
    <2>2. \A k \in 1 .. Len(chunks) : Frames(chunks[k]) \subseteq Frames(chunks'[k])
      BY <2>1 DEF SameBut
    <2>3. Len(chunks') >= Len(chunks)
      BY <2>1, ChunkTypes DEF SameBut
    <2> QED
      BY <2>1, <2>2, <2>3 DEF Grown
  <1>2. CASE write_frame(medium, FALSE)
    BY <1>2, FrameRefused, GrownSame
  <1>3. CASE NoFrame
    BY <1>3, GrownSame DEF NoFrame
  <1> QED
    BY <1>1, <1>2, <1>3 DEF OneFrame

LEMMA WholeWriteVideo ==
    ASSUME OwnInv, WholeInv, mono, NEW ok \in BOOLEAN, write_video(ok)
    PROVE  WholeInv'
  <1>1. /\ pc = "video" /\ UNCHANGED <<client, rotor, rotor_aux, file, call, aret>>
        /\ vret' <=> ok
        /\ "video" \in call.frames => write_frame("video", ok)
        /\ OneFrame("video") /\ pc' = "audio"
    BY WriteVideoStep
  <1>2. session' = session /\ pair' = pair /\ done' = done /\ "video" \in Media
    BY <1>1 DEF client, Media
  <1>3. \A p \in done : Whole(p)'
    BY <1>1, <1>2, GrownWritten, WholeGrown DEF WholeInv
  <1>4. ASSUME call.can_rotate, vret'
        PROVE  file[MAIN] # NULL /\ <<"video", pair>> \in Frames(chunks'[file[MAIN]])
    <2>1. write_frame("video", TRUE)
      <3>1. ok = TRUE
        BY <1>1, <1>4
      <3>2. "video" \in call.frames
        BY <1>1, <1>2, <1>4 DEF OwnInv, Places, Writing
      <3> QED
        BY <1>1, <3>1, <3>2
    <2>2. Frame("video") = <<"video", pair>>
      BY <1>4 DEF Frame
    <2> QED
      <3>1. PICK f \in 1 .. Len(chunks) :
               f = file[MAIN] /\ Frames(chunks'[f]) = Frames(chunks[f]) \union {<<"video", pair>>}
        BY <1>1, <1>2, <2>1, <2>2, FrameTaken
      <3>2. f # 0
        OBVIOUS
      <3> QED
        BY <3>1, <3>2 DEF NULL
  <1> QED
    BY <1>1, <1>2, <1>3, <1>4 DEF WholeInv

LEMMA WholeWriteAudio ==
    ASSUME OwnInv, WholeInv, mono, NEW ok \in BOOLEAN, write_audio(ok)
    PROVE  WholeInv'
  <1>1. /\ pc = "audio" /\ UNCHANGED <<client, rotor, rotor_aux, file, call, vret>>
        /\ aret' <=> ok
        /\ "audio" \in call.frames => write_frame("audio", ok)
        /\ OneFrame("audio") /\ pc' \in {"rotate", "return"}
        /\ pc' = "rotate" => call.can_rotate /\ ok /\ vret
    BY WriteAudioStep
  <1>2. session' = session /\ pair' = pair /\ done' = done /\ "audio" \in Media
    BY <1>1 DEF client, Media
  <1>3. \A p \in done : Whole(p)'
    BY <1>1, <1>2, GrownWritten, WholeGrown DEF WholeInv
  <1>4. ASSUME call.can_rotate, ok, vret
        PROVE  Whole(pair)'
    <2>1. write_frame("audio", TRUE)
      <3>1. ok = TRUE
        BY <1>4
      <3>2. "audio" \in call.frames
        BY <1>1, <1>2, <1>4 DEF OwnInv, Places, Writing
      <3> QED
        BY <1>1, <3>1, <3>2
    <2>2. Frame("audio") = <<"audio", pair>>
      BY <1>4 DEF Frame
    <2>3. <<"video", pair>> \in Frames(chunks[file[MAIN]])
      BY <1>1, <1>4 DEF WholeInv
    <2>4. PICK k \in 1 .. Len(chunks) :
             /\ k = file[MAIN] /\ chunks' \in Seq(ChunkType) /\ Len(chunks') = Len(chunks)
             /\ Frames(chunks'[k]) = Frames(chunks[k]) \union {<<"audio", pair>>}
      BY <1>1, <1>2, <2>1, <2>2, FrameTaken DEF SameBut
    <2>5. k \in DOMAIN chunks' /\ {<<"video", pair>>, <<"audio", pair>>} \subseteq Frames(chunks'[k])
      BY <2>3, <2>4, LenProperties
    <2> QED
      BY <1>2, <2>5 DEF Whole
  <1> QED
    BY <1>1, <1>2, <1>3, <1>4 DEF WholeInv

LEMMA WholeRotate ==
    ASSUME OwnInv, WholeInv, mono, NEW closes \in BOOLEAN, NEW opens \in BOOLEAN,
           mono_rotate(closes, opens)
    PROVE  WholeInv'
  <1>1. pc = "rotate" /\ rotor \in 1 .. Len(rotors) /\ rotate(MAIN, rotor, "return", closes, opens)
    BY OpenRotor DEF mono_rotate, Open, Writing
  <1>2. /\ pc' = "return" /\ UNCHANGED client
        /\ chunks' \in Seq(ChunkType) /\ Kept(chunks, chunks')
    BY <1>1, RotateStep
  <1>3. session' = session /\ pair' = pair /\ done' = done
    BY <1>2 DEF client
  <1>4. Grown(chunks, chunks')
    BY <1>2 DEF Kept, SameChunk, Grown
  <1>5. Whole(pair) /\ \A p \in done : Whole(p)
    BY <1>1 DEF WholeInv
  <1>6. Whole(pair)' /\ \A p \in done : Whole(p)'
    <2>1. \A p : Whole(p) => Whole(p)'
      BY <1>2, <1>4, WholeGrown
    <2>2. PICK q : q = pair
      OBVIOUS
    <2>3. Whole(q)'
      BY <1>5, <2>1, <2>2
    <2> QED
      BY <1>3, <1>5, <2>1, <2>2, <2>3
  <1> QED
    BY <1>2, <1>3, <1>6 DEF WholeInv

LEMMA WholeNext == OwnInv /\ WholeInv /\ [Next]_vars => WholeInv'
  <1> SUFFICES ASSUME OwnInv, WholeInv, [Next]_vars PROVE WholeInv'
    OBVIOUS
  <1>1. CASE mono
    <2>1. ASSUME NEW ok \in BOOLEAN, close_main(ok) PROVE WholeInv'
      <3>1. UNCHANGED <<session, chunks, done>> /\ pc' \in {"open", "exit"}
        BY <1>1, <2>1 DEF close_main, NextUnit, mono
      <3> QED
        BY <1>1, <3>1, GrownSame, WholeKept
    <2> QED
      BY <1>1, <2>1, MonoNext, WholeQuiet, WholeSetup, WholeWriteVideo, WholeWriteAudio, WholeRotate
  <1>2. CASE ~mono
    <2>1. session' = session
      BY SessionKept
    <2> QED
      BY <1>2, <2>1 DEF WholeInv, mono
  <1> QED
    BY <1>1, <1>2

(* A pair whose export answered TC_OK has both of its frames in the same   *)
(* file: whatever failed before and after, and wherever the output was     *)
(* rotated.                                                                *)
THEOREM PairsInOneFile == Spec => []PairsWhole
  <1>1. Init => OwnInv /\ WholeInv
    BY OwnInit DEF Init, WholeInv
  <1>2. (OwnInv /\ WholeInv) /\ [Next]_vars => (OwnInv /\ WholeInv)'
    BY OwnNext, WholeNext
  <1>3. WholeInv => PairsWhole
    BY DEF WholeInv, PairsWhole, Whole
  <1> QED
    BY <1>1, <1>2, <1>3, PTL DEF Spec

=============================================================================
