---------------------------- MODULE Multiplexor ----------------------------
(***************************************************************************)
(* libtcexport/multiplexor.c: the frames of an encoded pair are written    *)
(* through one module (mono) or two (dual) into files, the chunks, and the *)
(* rotor of a module decides when it goes on to the next chunk.            *)
(*                                                                         *)
(* The client is export.c as the modes of transcode.c call it.  The program*)
(* sets the limits of a chunk before the first open, as multiplexor.h:47-48*)
(* requires, and loses them (LimitHonoured).  A rotor that has a limit when*)
(* frames are written, so that the code of the rotation runs at all, is    *)
(* only reached against that requirement, by a limit set when the output is*)
(* open: sessions with when = "opened".  What is checked on them is that   *)
(* the rotation itself loses no pair, no file and no rotor, never where it *)
(* takes place.                                                            *)
(*                                                                         *)
(* Bytes are counted in units of a megabyte, a frame is Size of them.      *)
(***************************************************************************)
EXTENDS Integers, Sequences, FiniteSets

CONSTANTS Sessions,  \* the sessions: see SessionType
          Size       \* what a write answers, in megabytes

(* How many units (PSUs, chapters) are written, each to files of its own,  *)
(* how many pairs of frames each has, which calls may fail in total, and   *)
(* the calls that set a limit: at "init" like transcode.c, or when "opened".*)
SessionType == [dual : BOOLEAN, null : BOOLEAN, units : Nat \ {0}, pairs : Nat,
                failures : Nat, limits : Seq({"frames", "megabytes"} \X (Nat \ {0})),
                when : {"init", "opened"}]

ASSUME SizeAssumption    == Size \in Nat
ASSUME SessionAssumption == \A s \in Sessions : s \in SessionType

VARIABLES
    session, pc,
    calls,              \* how many of the limits are set
    unit, pair,         \* what the client writes
    left,               \* how many calls may still fail
    rotors,             \* every rotor that was ever allocated
    rotor, rotor_aux,   \* mux->rotor and mux->rotor_aux: indices of rotors
    file,               \* the chunk each module has open, an index of chunks
    chunks,             \* history: the files, in the order they were opened
    call,               \* the frames and the flag can_rotate of the write
    vret, aret, need_rotate,
    error_flag,
    done                \* history: the pairs whose export answered TC_OK

vars == <<session, pc, calls, unit, pair, left, rotors, rotor, rotor_aux, file, chunks,
          call, vret, aret, need_rotate, error_flag, done>>
client == <<session, calls, unit, pair, error_flag, done>>
local  == <<call, vret, aret, need_rotate>>

NULL    == 0
FLUSHED == 0          \* in place of the number of a pair
Media == {"video", "audio"}
MAIN  == "main"
AUX   == "aux"

Init ==
    /\ session \in Sessions
    /\ pc = "init" /\ calls = 0 /\ unit = 1 /\ pair = 0 /\ left = session.failures
    /\ rotors = <<>> /\ rotor = NULL /\ rotor_aux = NULL
    /\ file = [m \in {MAIN, AUX} |-> NULL] /\ chunks = <<>>
    /\ call = [frames |-> {}, can_rotate |-> FALSE]
    /\ vret = TRUE /\ aret = TRUE /\ need_rotate = FALSE
    /\ error_flag = FALSE /\ done = {}

(* The answer of a module, TC_OK or TC_ERROR, while failures are left. *)
Answer(ok) ==
    /\ ok \/ left > 0
    /\ left' = IF ok THEN left ELSE left - 1

-----------------------------------------------------------------------------
(* The rotors. *)

tc_rotate_init(base, null) ==
    [base |-> base, null_flag |-> null, chunk_num |-> 0, policy |-> "never",
     limit |-> 0, encoded_frames |-> 0, encoded_bytes |-> 0, live |-> TRUE]

(* tc_rotate_set_frames_limit and tc_rotate_set_bytes_limit: the 32 bits   *)
(* of megabytes * 1024 * 1024 hold less than 4096 megabytes.               *)
LimitOf(kind, n) == IF kind = "frames" THEN n ELSE n % 4096

set_limit(kind, n) ==
    IF rotor = NULL \/ rotors[rotor].null_flag THEN UNCHANGED rotors
    ELSE rotors' = [rotors EXCEPT ![rotor].limit = LimitOf(kind, n), ![rotor].policy = kind]

(* tc_rotate_output_name: the name, and the rotor after the call. *)
output_name(r) == <<r.base, IF r.policy = "never" THEN -1 ELSE r.chunk_num>>

(* Mutant: the number of the chunk stays. *)
Mut_named(r) ==
    IF r.policy = "never" THEN r
    ELSE [r EXCEPT !.encoded_frames = 0, !.encoded_bytes = 0]

named(r) ==
    IF r.policy = "never" THEN r
    ELSE [r EXCEPT !.encoded_frames = 0, !.encoded_bytes = 0, !.chunk_num = @ + 1]

count(r) == [r EXCEPT !.encoded_frames = @ + 1, !.encoded_bytes = @ + Size]

needed(r) ==
    CASE r.policy = "frames"    -> r.encoded_frames >= r.limit
      [] r.policy = "megabytes" -> r.encoded_bytes >= r.limit
      [] OTHER                  -> FALSE

(* muxer_open of module m with rotor i of the rotors rs. *)
muxer_open(m, rs, i, ok) ==
    /\ rotors' = [rs EXCEPT ![i] = named(rs[i])]
    /\ IF ok
       THEN /\ chunks' = Append(chunks, [mux |-> m, unit |-> unit, name |-> output_name(rs[i]),
                                         frames |-> <<>>, rotated |-> FALSE])
            /\ file' = [file EXCEPT ![m] = Len(chunks')]
       ELSE UNCHANGED <<chunks, file>>

-----------------------------------------------------------------------------
(* Setting up, as transcode_init and the modes call it. *)

(* The calls that set a limit, in turn, so that the last one is used: in   *)
(* transcode_init, or by a client that has opened the output.              *)
tc_multiplexor_limit ==
    /\ pc = "limit"
    /\ calls < Len(session.limits)
    /\ set_limit(session.limits[calls + 1][1], session.limits[calls + 1][2])
    /\ calls' = calls + 1
    /\ UNCHANGED <<session, unit, pair, error_flag, done, pc, local, left, rotor,
                   rotor_aux, file, chunks>>

limits_set ==
    /\ pc = "limit" /\ calls = Len(session.limits)
    /\ pc' = IF session.when = "init" THEN "open" ELSE "loop"
    /\ calls' = 0
    /\ UNCHANGED <<session, unit, pair, error_flag, done, local, left, rotors, rotor,
                   rotor_aux, file, chunks>>

tc_multiplexor_init ==
    /\ pc = "init"
    /\ pc' = IF session.when = "init" THEN "limit" ELSE "open"
    /\ UNCHANGED <<client, local, left, rotors, rotor, rotor_aux, file, chunks>>

Opened == IF session.when = "opened" THEN "limit" ELSE "loop"
Fresh(i) == IF i = MAIN THEN tc_rotate_init(<<"video", unit>>, session.null)
            ELSE tc_rotate_init(<<"audio">>, session.null)
Freed(rs, S) == [i \in DOMAIN rs |-> [rs[i] EXCEPT !.live = @ /\ i \notin S]]

(* tc_multiplexor_open without an auxiliary module: the aux rotor is an    *)
(* alias.  A failure ends the program (tc_error).                          *)
mono_setup(ok) ==
    LET rs == Append(rotors, Fresh(MAIN))
        i  == Len(rs)
    IN /\ pc = "open" /\ ~session.dual
       /\ Answer(ok)
       /\ IF ok
          THEN /\ muxer_open(MAIN, rs, i, TRUE)
               /\ rotor' = i /\ rotor_aux' = i /\ pc' = Opened
          ELSE /\ rotors' = Freed(rs, {i})
               /\ rotor' = NULL /\ pc' = "exit"
               /\ UNCHANGED <<rotor_aux, file, chunks>>
       /\ UNCHANGED <<client, local>>

(* With one: two rotors, and the two opens of dual_open. *)
dual_setup(ok) ==
    LET rs == Append(Append(rotors, Fresh(MAIN)), Fresh(AUX))
        i  == Len(rs) - 1
    IN /\ pc = "open" /\ session.dual
       /\ Answer(ok)
       /\ rotor' = i /\ rotor_aux' = i + 1
       /\ muxer_open(MAIN, rs, i, ok)
       /\ pc' = IF ok THEN "open_aux" ELSE "open_failed"
       /\ UNCHANGED <<client, local>>

dual_open_aux(ok) ==
    /\ pc = "open_aux"
    /\ Answer(ok)
    /\ muxer_open(AUX, rotors, rotor_aux, ok)
    /\ pc' = IF ok THEN Opened ELSE "open_failed"
    /\ UNCHANGED <<client, local, rotor, rotor_aux>>

dual_open_failed ==
    /\ pc = "open_failed"
    /\ rotors' = Freed(rotors, {rotor, rotor_aux})
    /\ rotor' = NULL /\ rotor_aux' = NULL
    /\ pc' = "exit"
    /\ UNCHANGED <<client, local, left, file, chunks>>

-----------------------------------------------------------------------------
(* The client: tc_export_frames, tc_export_loop, tc_export_flush. *)

begin_write(frames, can_rotate) ==
    /\ call' = [frames |-> frames, can_rotate |-> can_rotate]
    /\ vret' = TRUE /\ aret' = TRUE /\ need_rotate' = FALSE
    /\ pc' = "video"
    /\ UNCHANGED <<left, rotors, rotor, rotor_aux, file, chunks>>

(* tc_multiplexor_export: always with both frames. *)
tc_export_frames ==
    /\ pc = "loop" /\ ~error_flag
    /\ pair < unit * session.pairs
    /\ pair' = pair + 1
    /\ begin_write(Media, TRUE)
    /\ UNCHANGED <<session, calls, unit, error_flag, done>>

(* An error ends the loop; the next range of the default mode begins with  *)
(* the flag reset.                                                         *)
next_range ==
    /\ pc = "loop" /\ error_flag
    /\ session.units = 1
    /\ error_flag' = FALSE
    /\ UNCHANGED <<session, calls, unit, pair, done, pc, local, left, rotors, rotor,
                   rotor_aux, file, chunks>>

end_loop ==
    /\ pc = "loop"
    /\ pc' = "flush" /\ error_flag' = FALSE
    /\ UNCHANGED <<session, calls, unit, pair, done, local, left, rotors, rotor,
                   rotor_aux, file, chunks>>

(* What the encoder still holds, by tc_multiplexor_write: one write stands *)
(* for the loop.                                                           *)
tc_export_flush(frames) ==
    /\ pc = "flush"
    /\ begin_write(frames, FALSE)
    /\ UNCHANGED client

flushed ==
    /\ pc = "flush"
    /\ pc' = "close"
    /\ UNCHANGED <<client, local, left, rotors, rotor, rotor_aux, file, chunks>>

-----------------------------------------------------------------------------
(* mono_write and dual_write *)

Frame(medium) == IF call.can_rotate THEN <<medium, pair>> ELSE <<medium, FLUSHED>>

(* A frame of the medium goes to the main module (in both modes), and is   *)
(* counted by the main rotor if the module takes it.  A module that has no *)
(* file open fails.                                                        *)
write_frame(medium, ok) ==
    IF ok
    THEN /\ file[MAIN] # NULL
         /\ chunks' = [chunks EXCEPT ![file[MAIN]].frames = Append(@, Frame(medium))]
         /\ rotors' = [rotors EXCEPT ![rotor] = count(@)]
         /\ need_rotate' = needed(count(rotors[rotor]))
         /\ UNCHANGED left
    ELSE /\ file[MAIN] = NULL \/ left > 0
         /\ left' = IF file[MAIN] = NULL THEN left ELSE left - 1
         /\ UNCHANGED <<chunks, rotors>>
         /\ need_rotate' = (need_rotate /\ ~session.dual)

(* Only dual_write rotates between the two frames.  Mutant: mono_write,    *)
(* too.                                                                    *)
Mut_rotates_between == TRUE
rotates_between == session.dual

write_video(ok) ==
    /\ pc = "video"
    /\ IF "video" \in call.frames
       THEN write_frame("video", ok) /\ vret' = ok
       ELSE ok /\ vret' = TRUE /\ UNCHANGED <<left, chunks, rotors, need_rotate>>
    /\ pc' = IF rotates_between /\ call.can_rotate /\ need_rotate' THEN "rotate_video" ELSE "audio"
    /\ UNCHANGED <<client, rotor, rotor_aux, file, call, aret>>

(* Mutant: the decision of the video frame alone, without its audio. *)
Mut_rotates_now(failed) == need_rotate

(* In mono mode a pair of frames is an atomic unit: the last decision      *)
(* counts, and none is carried out after an error.                         *)
rotates_now(failed) == need_rotate' /\ (session.dual \/ ~failed)

write_audio(ok) ==
    /\ pc = "audio"
    /\ IF "audio" \in call.frames
       THEN write_frame("audio", ok) /\ aret' = ok
       ELSE ok /\ aret' = TRUE /\ UNCHANGED <<left, chunks, rotors, need_rotate>>
    /\ pc' = IF call.can_rotate /\ rotates_now(~ok \/ ~vret)
             THEN (IF session.dual THEN "rotate_audio" ELSE "rotate") ELSE "return"
    /\ UNCHANGED <<client, rotor, rotor_aux, file, call, vret>>

(* mono_rotate and stream_rotate: close without freeing the rotor, and     *)
(* open the next chunk.  The answer replaces the one of the video frame.   *)
rotate(m, i, after, closes, opens) ==
    /\ Answer(closes /\ opens)
    /\ closes \/ opens
    /\ vret' = (closes /\ opens)
    /\ IF ~closes
       THEN UNCHANGED <<rotors, file, chunks>>
       ELSE /\ rotors' = [rotors EXCEPT ![i] = named(@)]
            /\ LET old == IF file[m] = NULL THEN chunks
                          ELSE [chunks EXCEPT ![file[m]].rotated = TRUE]
               IN /\ chunks' = IF opens
                               THEN Append(old, [mux |-> m, unit |-> unit,
                                                 name |-> output_name(rotors[i]),
                                                 frames |-> <<>>, rotated |-> FALSE])
                               ELSE old
                  /\ file' = [file EXCEPT ![m] = IF opens THEN Len(chunks') ELSE NULL]
    /\ pc' = after
    /\ UNCHANGED <<client, rotor, rotor_aux, call, aret, need_rotate>>

mono_rotate(closes, opens) ==
    pc = "rotate" /\ rotate(MAIN, rotor, "return", closes, opens)
rotate_video(closes, opens) ==
    pc = "rotate_video" /\ rotate(MAIN, rotor, "audio", closes, opens)
rotate_audio(closes, opens) ==
    pc = "rotate_audio" /\ rotate(AUX, rotor_aux, "return", closes, opens)

(* The write returns to tc_export_frames or to tc_export_flush. *)
return ==
    /\ pc = "return"
    /\ IF call.can_rotate
       THEN /\ error_flag' = (~vret \/ ~aret)
            /\ done' = IF vret /\ aret THEN done \union {pair} ELSE done
            /\ pc' = "loop"
       ELSE /\ pc' = "close"
            /\ UNCHANGED <<error_flag, done>>
    /\ UNCHANGED <<session, calls, unit, pair, local, left, rotors, rotor, rotor_aux, file, chunks>>

-----------------------------------------------------------------------------
(* muxer_close: the rotor goes only if the module closes.  In mono mode    *)
(* rotor_aux keeps its value.  Mutant: the rotor is not freed.             *)
Mut_muxer_close(m, i, ok) ==
    /\ Answer(ok)
    /\ file' = IF ok THEN [file EXCEPT ![m] = NULL] ELSE file
    /\ UNCHANGED rotors

muxer_close(m, i, ok) ==
    /\ Answer(ok)
    /\ file' = IF ok THEN [file EXCEPT ![m] = NULL] ELSE file
    /\ rotors' = IF ok THEN Freed(rotors, {i}) ELSE rotors

NextUnit == IF unit < session.units THEN "open" ELSE "exit"

close_main(ok) ==
    /\ pc = "close"
    /\ muxer_close(MAIN, rotor, ok)
    /\ rotor' = IF ok THEN NULL ELSE rotor
    /\ pc' = IF ok /\ session.dual THEN "close_aux" ELSE NextUnit
    /\ unit' = IF pc' = "open" THEN unit + 1 ELSE unit
    /\ UNCHANGED <<session, calls, pair, error_flag, done, local, rotor_aux, chunks>>

close_aux(ok) ==
    /\ pc = "close_aux"
    /\ muxer_close(AUX, rotor_aux, ok)
    /\ rotor_aux' = IF ok THEN NULL ELSE rotor_aux
    /\ pc' = NextUnit
    /\ unit' = IF pc' = "open" THEN unit + 1 ELSE unit
    /\ UNCHANGED <<session, calls, pair, error_flag, done, local, rotor, chunks>>

exited == pc = "exit" /\ UNCHANGED vars

Next ==
    \/ tc_multiplexor_init \/ tc_multiplexor_limit \/ limits_set
    \/ \E ok \in BOOLEAN : \/ mono_setup(ok) \/ dual_setup(ok) \/ dual_open_aux(ok)
                           \/ write_video(ok) \/ write_audio(ok)
                           \/ close_main(ok) \/ close_aux(ok)
    \/ dual_open_failed \/ exited
    \/ tc_export_frames \/ next_range \/ end_loop \/ return \/ flushed
    \/ \E frames \in SUBSET Media \ {{}} : tc_export_flush(frames)
    \/ \E closes, opens \in BOOLEAN : \/ mono_rotate(closes, opens)
                                      \/ rotate_video(closes, opens)
                                      \/ rotate_audio(closes, opens)

Spec == Init /\ [][Next]_vars

-----------------------------------------------------------------------------
Bases     == ({"video"} \X Nat) \union {<<"audio">>}
RotorType == [base : Bases, null_flag : BOOLEAN, chunk_num : Nat,
              policy : {"never", "frames", "megabytes"}, limit : Nat,
              encoded_frames : Nat, encoded_bytes : Nat, live : BOOLEAN]
ChunkType == [mux : {MAIN, AUX}, unit : Nat, name : Bases \X Int,
              frames : Seq(Media \X Nat), rotated : BOOLEAN]

TypeOK ==
    /\ session \in Sessions
    /\ pc \in {"init", "limit", "open", "open_aux", "open_failed", "loop", "flush", "video",
               "audio", "rotate", "rotate_video", "rotate_audio", "return", "close",
               "close_aux", "exit"}
    /\ unit \in 1 .. session.units /\ pair \in 0 .. session.units * session.pairs
    /\ calls \in 0 .. Len(session.limits) /\ left \in 0 .. session.failures
    /\ rotors \in Seq(RotorType) /\ chunks \in Seq(ChunkType)
    /\ rotor \in 0 .. Len(rotors) /\ rotor_aux \in 0 .. Len(rotors)
    /\ file \in [{MAIN, AUX} -> 0 .. Len(chunks)]
    /\ call \in [frames : SUBSET Media, can_rotate : BOOLEAN]
    /\ vret \in BOOLEAN /\ aret \in BOOLEAN /\ need_rotate \in BOOLEAN
    /\ error_flag \in BOOLEAN
    /\ done \subseteq 1 .. pair

mono     == ~session.dual
faultless == left = session.failures
Frames(c) == {c.frames[k] : k \in DOMAIN c.frames}

(* A pair is an atomic unit in mono mode: when the export of a pair        *)
(* answered TC_OK, both of its frames are in the same file, whatever       *)
(* failed before and after it.                                             *)
PairsWhole ==
    mono => \A p \in done : \E k \in DOMAIN chunks :
                {<<"video", p>>, <<"audio", p>>} \subseteq Frames(chunks[k])

(* No file is opened twice, which would truncate it: neither by a rotation *)
(* nor for the next unit.                                                  *)
NothingOverwritten ==
    mono => \A j, k \in DOMAIN chunks : j # k => chunks[j].name # chunks[k].name

(* A rotor that is used is allocated, the two of dual mode are not the     *)
(* same, and where nothing fails no rotor is left behind when a unit ends. *)
RotorsOwned ==
    /\ pc \in {"loop", "video", "audio", "rotate", "rotate_video", "rotate_audio", "flush"} =>
           /\ rotor # NULL /\ rotors[rotor].live
           /\ session.dual => rotor_aux \notin {NULL, rotor} /\ rotors[rotor_aux].live
    /\ faultless => \A i \in DOMAIN rotors : rotors[i].live => i \in {rotor, rotor_aux}

(* multiplexor.h:84 of tc_multiplexor_limit_frames: "rotate output file(s) *)
(* every given amount of encoded frames", cmdline_def.h:251 of the option: *)
(* "split output file after n frames".  Counted in pairs, no file has more *)
(* than the limit set last, before the output was opened, in the order     *)
(* that multiplexor.h:47-48 requires.                                      *)
LimitHonoured ==
    session.when = "init" =>
        \A k \in DOMAIN chunks :
            Cardinality({f \in Frames(chunks[k]) : f[1] = "video" /\ f[2] # FLUSHED})
                <= session.limits[Len(session.limits)][2]

=============================================================================
