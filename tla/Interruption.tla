---------------------------- MODULE Interruption ----------------------------
(***************************************************************************)
(* How the program is interrupted: the run status (runcontrol.c), the      *)
(* event thread with its socket and its signal handler (transcode.c,       *)
(* socket.c), and what an interruption has to bring to its end: the import *)
(* thread, the frame threads and the export loop of the main thread, which *)
(* wait in the pools of one ring (framebuffer.c), and the shutdown.        *)
(*                                                                         *)
(* The source is longer than the job and a pool is the number of frames in *)
(* it: order, marks of the end and clones are the business of              *)
(* FramePipeline.  A test of the run status and the claim that follows are *)
(* two steps.  Only the event thread takes signals, so that it alone holds *)
(* a mutex from one step to the next; what another thread does inside one  *)
(* is a single step, which waits while the event thread is in there.       *)
(***************************************************************************)
EXTENDS Naturals, Sequences, FiniteSets

CONSTANTS Workers,     \* the frame threads there may be
          Size,        \* frames in the ring
          Sessions     \* see SessionType

ASSUME RingAssumption == Size \in Nat \ {0} /\ IsFiniteSet(Workers)

(* The frame threads, whether there is a socket, how many commands come,   *)
(* and when a signal may come: never, while the event thread waits, or at  *)
(* any time.                                                               *)
SessionType == [team : SUBSET Workers, socket : BOOLEAN, commands : Nat,
                signal : {"none", "waiting", "any"}]
ASSUME SessionAssumption == \A s \in Sessions : s \in SessionType

VARIABLES
    session,
    tc_run_status, pause_flag,
    active,      \* the running flags of the import thread and the frame threads
    pool,        \* how many frames each pool holds
    pc,
    held,        \* the mutex that the event thread is in, or "none"
    serving,     \* where a command of the event thread is in Interrupt, 0 if in none
    handling,    \* the same of the signal handler
    commands, signals,   \* how many are left
    late         \* history: who sleeps since a test of the status that is outdated

control == <<tc_run_status, pause_flag, active>>
input   == <<session, commands, signals>>
place   == <<held, serving, handling>>
vars == <<control, input, place, pool, pc, late>>

tc_running == tc_run_status = "RUNNING"

Pools == {"null", "wait", "ready"}
Threads == Workers \union {"main", "import", "event"}

(* tc_interrupt and then tc_framebuffer_interrupt, in the order in which   *)
(* they take the mutexes.  Mutant: the sleepers are woken first.           *)
Mut_Interrupt == <<"null", "wait", "ready", "status">>
Interrupt == <<"status", "null", "wait", "ready">>

Init ==
    /\ session \in Sessions
    /\ tc_run_status = "RUNNING" /\ pause_flag = FALSE
    /\ active = [import |-> TRUE, frames |-> TRUE]
    /\ pool = [s \in Pools |-> IF s = "null" THEN Size ELSE 0]
    /\ pc = [t \in Threads |-> IF t = "event" THEN "wait"
                               ELSE IF t \in Workers \ session.team THEN "end" ELSE "status"]
    /\ held = "none" /\ serving = 0 /\ handling = 0
    /\ commands = session.commands
    /\ signals = IF session.signal = "none" THEN 0 ELSE 1
    /\ late = {}

-----------------------------------------------------------------------------
(* Steps.  A thread goes on and those of a set wake up.                    *)

go_waking(t, from, to, woken) ==
    /\ pc[t] = from
    /\ pc' = [u \in Threads |-> IF u = t THEN to ELSE IF u \in woken THEN "woken" ELSE pc[u]]
go(t, from, to) == go_waking(t, from, to, {})

Elsewhere == UNCHANGED <<input, place>>

(* What a thread claims from, and where it passes a frame on to. *)
Claims(t) == CASE t = "import" -> "null" [] t = "main" -> "ready" [] OTHER -> "wait"
Passes(t) == CASE t = "main" -> "null"
               [] t = "import" -> IF session.team = {} THEN "ready" ELSE "wait"
               [] OTHER -> "ready"

Asleep(s) == {t \in Threads \ {"event"} : pc[t] = "asleep" /\ Claims(t) = s}

(* pthread_cond_signal wakes one sleeper if there is any; an interruption  *)
(* of WAIT is a broadcast.                                                 *)
Signalled(s) == IF Asleep(s) = {} THEN {{}} ELSE {{t} : t \in Asleep(s)}
WokenUp(s) == IF s = "wait" THEN {Asleep(s)} ELSE Signalled(s)

(* The claim is refused to an interrupted thread; a frame thread tells the *)
(* others.                                                                 *)
Refused(t) == IF t = "main" THEN "stop" ELSE "end"
tells_others(t) == active' = IF t \in Workers THEN [active EXCEPT !.frames = FALSE] ELSE active

-----------------------------------------------------------------------------
(* The threads that claim frames.                                          *)

(* The main thread's need_stop, and tc_running in the loops of the others. *)
status_test(t) ==
    /\ held # "status"
    /\ go(t, "status", IF ~tc_running THEN Refused(t)
                       ELSE IF t = "main" THEN "pause" ELSE "active")
    /\ UNCHANGED <<control, pool, late>> /\ Elsewhere

pause == go("main", "pause", "claim") /\ ~pause_flag /\ UNCHANGED <<control, pool, late>> /\ Elsewhere

active_test(t) ==
    /\ go(t, "active", IF active[IF t = "import" THEN "import" ELSE "frames"] THEN "claim" ELSE "end")
    /\ UNCHANGED <<control, pool, late>> /\ Elsewhere

(* tc_frame_pool_get_frame: a frame, whatever the run status is, ... *)
take(t, from) ==
    /\ pool[Claims(t)] > 0
    /\ go(t, from, "has")
    /\ pool' = [pool EXCEPT ![Claims(t)] = @ - 1]
    /\ UNCHANGED <<control, late>> /\ Elsewhere

(* ... or sleep without a look at it. *)
sleep(t, from) ==
    /\ pool[Claims(t)] = 0
    /\ go(t, from, "asleep")
    /\ late' = IF tc_running THEN late ELSE late \union {t}
    /\ UNCHANGED <<control, pool>> /\ Elsewhere

claim(t) == held # Claims(t) /\ (take(t, "claim") \/ sleep(t, "claim"))

(* A thread that wakes up looks at the run status first. *)
resume(t) ==
    /\ held \notin {Claims(t), "status"}
    /\ \/ tc_running /\ (take(t, "woken") \/ sleep(t, "woken"))
       \/ /\ ~tc_running
          /\ go(t, "woken", Refused(t))
          /\ tells_others(t)
          /\ UNCHANGED <<tc_run_status, pause_flag, pool, late>> /\ Elsewhere

(* The frame is filled, filtered or encoded, and passed on. *)
pass_on(t) ==
    /\ held # Passes(t)
    /\ \E woken \in Signalled(Passes(t)) :
        go_waking(t, "has", "status", woken) /\ late' = late \ woken
    /\ pool' = [pool EXCEPT ![Passes(t)] = @ + 1]
    /\ UNCHANGED control /\ Elsewhere

looping(t) ==
    \/ status_test(t) \/ claim(t) \/ resume(t) \/ pass_on(t)
    \/ t # "main" /\ active_test(t)

-----------------------------------------------------------------------------
(* The end of the job, by the main thread.                                 *)

(* The last frame of the job may have been encoded. *)
main_eos ==
    /\ go("main", "status", "stop")
    /\ tc_running
    /\ UNCHANGED <<control, pool, late>> /\ Elsewhere

wake_up(s, from, to) ==
    /\ held # s
    /\ \E woken \in WokenUp(s) : go_waking("main", from, to, woken)
    /\ late' = late \ Asleep(s)
    /\ UNCHANGED <<input, place, pool>>

(* tc_stop_all, ... *)
tc_stop_all ==
    \/ /\ held # "status"
       /\ go("main", "stop", "wake_null")
       /\ tc_run_status' = IF tc_running THEN "STOPPED" ELSE tc_run_status
       /\ UNCHANGED <<pause_flag, active, pool, late>> /\ Elsewhere
    \/ /\ \/ wake_up("null", "wake_null", "wake_wait")
          \/ wake_up("wait", "wake_wait", "wake_ready")
          \/ wake_up("ready", "wake_ready", "cancel_import")
       /\ UNCHANGED control

(* ... tc_import_threads_cancel, tc_frame_threads_close, ... *)
cancel_threads ==
    \/ /\ go("main", "cancel_import", "wake_import")
       /\ active' = [active EXCEPT !.import = FALSE]
       /\ UNCHANGED <<tc_run_status, pause_flag, pool, late>> /\ Elsewhere
    \/ wake_up("null", "wake_import", "join_import") /\ UNCHANGED control
    \/ /\ go("main", "join_import", "join_frames")
       /\ pc["import"] = "end"
       /\ active' = [active EXCEPT !.frames = FALSE]
       /\ UNCHANGED <<tc_run_status, pause_flag, pool, late>> /\ Elsewhere
    \/ /\ go("main", "join_frames", "cancel_event")
       /\ \A t \in Workers : pc[t] = "end"
       /\ UNCHANGED <<control, pool, late>> /\ Elsewhere

(* ... and stop_event_thread, where the event thread can be cancelled. *)
stop_event_thread ==
    /\ pc["main"] = "cancel_event" /\ pc["event"] \in {"wait", "accept"} /\ handling = 0
    /\ pc' = [pc EXCEPT !["main"] = "end", !["event"] = "end"]
    /\ UNCHANGED <<control, pool, late>> /\ Elsewhere

shutdown == tc_stop_all \/ cancel_threads \/ stop_event_thread

-----------------------------------------------------------------------------
(* The event thread.                                                       *)

command(to) ==
    /\ session.socket /\ commands > 0 /\ handling = 0
    /\ go("event", "wait", to)
    /\ commands' = commands - 1
    /\ UNCHANGED <<session, signals, held, handling, tc_run_status, active, pool, late>>

tc_pause_request == command("status") /\ pause_flag' = ~pause_flag /\ UNCHANGED serving

(* The comparison with "stop" lacks its == 0: every command that is none   *)
(* of the others interrupts, and "stop" does nothing.                      *)
handle_unknown == command("interrupt") /\ serving' = 1 /\ UNCHANGED pause_flag
handle_other   == command("status") /\ UNCHANGED <<pause_flag, serving>>

(* One mutex of an interruption: the status is set, or a pool is woken up. *)
interruption(mutex, from, to) ==
    /\ IF mutex = "status"
       THEN /\ tc_run_status' = "INTERRUPTED"
            /\ go("event", from, to)
            /\ UNCHANGED late
       ELSE /\ \E woken \in WokenUp(mutex) : go_waking("event", from, to, woken)
            /\ late' = late \ Asleep(mutex)
            /\ UNCHANGED tc_run_status
    /\ UNCHANGED <<session, commands, signals, pause_flag, active, pool>>

following(i) == IF i = Len(Interrupt) THEN 0 ELSE i + 1

enter(mutex) ==
    /\ handling = 0 /\ held = "none"
    /\ held' = mutex
    /\ UNCHANGED <<control, input, pool, pc, serving, handling, late>>

(* A command interrupts; then, as after every event, tc_interrupted. *)
event ==
    \/ pc["event"] = "interrupt" /\ enter(Interrupt[serving])
    \/ pc["event"] = "status" /\ enter("status")
    \/ /\ handling = 0 /\ held # "none"
       /\ pc["event"] = "interrupt"
       /\ interruption(held, "interrupt", IF following(serving) = 0 THEN "status" ELSE "interrupt")
       /\ serving' = following(serving)
       /\ held' = "none" /\ UNCHANGED handling
    \/ /\ handling = 0 /\ held # "none"
       /\ go("event", "status", "wait")
       /\ held' = "none"
       /\ UNCHANGED <<control, input, pool, serving, handling, late>>

(* The handler of the signal runs on the event thread, wherever it is.     *)
(* After it the select of the wait has failed (EINTR) with the sets of     *)
(* sockets unchanged, so that the thread accepts a connection: one that    *)
(* has to come first.                                                      *)
signal ==
    /\ signals > 0 /\ handling = 0 /\ pc["event"] # "end"
    /\ session.signal = "waiting" => pc["event"] = "wait"
    /\ signals' = signals - 1
    /\ handling' = 1
    /\ pc' = [pc EXCEPT !["event"] = IF @ # "wait" THEN @
                                     ELSE IF session.socket THEN "accept" ELSE "status"]
    /\ UNCHANGED <<session, commands, control, held, serving, pool, late>>

(* It waits when its own thread is in the mutex. *)
event_handler ==
    /\ handling # 0 /\ held # Interrupt[handling]
    /\ interruption(Interrupt[handling], pc["event"], pc["event"])
    /\ handling' = following(handling)
    /\ UNCHANGED <<held, serving>>

accept ==
    /\ handling = 0
    /\ go("event", "accept", "status")
    /\ UNCHANGED <<control, pool, late>> /\ Elsewhere

-----------------------------------------------------------------------------
main == looping("main") \/ pause \/ shutdown

Next ==
    \/ main \/ main_eos
    \/ \E t \in Workers \union {"import"} : looping(t)
    \/ tc_pause_request \/ handle_unknown \/ handle_other
    \/ event \/ signal \/ event_handler \/ accept

(* Threads go on; nobody promises commands, signals, connections or the    *)
(* end of the job.                                                         *)
Fairness ==
    /\ WF_vars(main)
    /\ \A t \in Workers \union {"import"} : WF_vars(looping(t))
    /\ WF_vars(event) /\ WF_vars(event_handler)

Spec == Init /\ [][Next]_vars /\ Fairness

-----------------------------------------------------------------------------
Loop     == {"status", "active", "claim", "asleep", "woken", "has", "end"}
Shutdown == {"pause", "stop", "wake_null", "wake_wait", "wake_ready", "cancel_import",
             "wake_import", "join_import", "join_frames", "cancel_event"}

TypeOK ==
    /\ session \in Sessions
    /\ tc_run_status \in {"RUNNING", "STOPPED", "INTERRUPTED"} /\ pause_flag \in BOOLEAN
    /\ active \in [{"import", "frames"} -> BOOLEAN]
    /\ pool \in [Pools -> 0 .. Size]
    /\ \A t \in Threads : pc[t] \in Loop \union
        (CASE t = "main" -> Shutdown
           [] t = "event" -> {"wait", "accept", "interrupt"} [] OTHER -> {})
    /\ held \in Pools \union {"none", "status"}
    /\ {serving, handling} \subseteq 0 .. Len(Interrupt)
    /\ commands \in 0 .. session.commands /\ signals \in 0 .. 1
    /\ late \subseteq Threads

(* tc_pause does not look at the run status. *)
Paused == pc["main"] = "pause" /\ pause_flag

(* The handler waits for a mutex that its own thread is in. *)
SelfDeadlock == handling # 0 /\ held = Interrupt[handling]

(* The thread had tested the run status before it changed, has fallen      *)
(* asleep afterwards, and no wake-up of its pool has come since.           *)
Missed(t) == t \in late

(* After an interruption, or the end of the job, the program ends, and     *)
(* only three things can keep it from that: a pause, a signal that came    *)
(* while the event thread was in a mutex that the handler takes too        *)
(* (runcontrol.c:105, framebuffer.c:563), and a thread that slipped        *)
(* between the test of the run status and the wake-up                      *)
(* (framebuffer.c:517).                                                    *)
InterruptEnds ==
    ~tc_running ~> \/ pc["main"] = "end"
                   \/ Paused \/ SelfDeadlock \/ \E t \in Threads : Missed(t)

=============================================================================
