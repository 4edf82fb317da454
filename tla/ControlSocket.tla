--------------------------- MODULE ControlSocket ---------------------------
(***************************************************************************)
(* The commands of the control socket (socket.c) that work on the filters: *)
(* the event thread serves them while a frame thread sends frames through  *)
(* the filters and the main thread stops the program and unloads them.     *)
(* The table is in FilterTable.                                            *)
(*                                                                         *)
(* Frames and their rings are left out (FramePipeline has them): the frame *)
(* thread always has a frame to process until the program stops.  What the *)
(* event thread does to the run status, by a command or a signal, is in    *)
(* Interruption; here the program stops when the main thread says so.      *)
(***************************************************************************)
EXTENDS FilterTable

CONSTANTS Commands   \* the number of commands that come

ASSUME CommandsAssumption == Commands \in Nat

VARIABLES
    running,       \* tc_running()
    pc,            \* of "main", "frame" and "event"
    commands,      \* how many commands are left
    reconfigured,  \* history: a config command was served
    steady         \* history: enabled since the frame entered the chain

vars == <<running, pc, commands, reconfigured, steady, filtervars>>

Init ==
    /\ FilterTableInit
    /\ running = TRUE
    /\ pc = [main |-> "export", frame |-> "status", event |-> "wait"]
    /\ commands = Commands
    /\ reconfigured = FALSE /\ steady = {}

go(t, from, to) == pc[t] = from /\ pc' = [pc EXCEPT ![t] = to]

(* A step of a thread on the table, or on nothing but its place. *)
OnTable   == UNCHANGED <<running, commands, reconfigured>>
Elsewhere == UNCHANGED filtervars /\ OnTable

-----------------------------------------------------------------------------
(* The main thread: the export loop ends, tc_frame_threads_close waits for *)
(* the frame thread, tc_filter_fini unloads the filters, and only then     *)
(* stop_event_thread ends the event thread, where it can be cancelled.     *)

stop ==
    /\ go("main", "export", "close")
    /\ running' = FALSE
    /\ UNCHANGED <<commands, reconfigured, filtervars>>

(* Mutant: the frame thread is not waited for. *)
Mut_frame_threads_closed == TRUE
frame_threads_closed == pc["frame"] = "end"

shutdown ==
    \/ /\ go("main", "close", "fini") /\ frame_threads_closed /\ Elsewhere
    \/ /\ go("main", "fini", "fini") /\ fini_skip /\ OnTable
    \/ /\ fini_remove /\ OnTable
       /\ go("main", "fini", IF filters[cursor].loaded THEN "remove_close" ELSE "remove_clear")
    \/ /\ go("main", "remove_close", "remove_unload") /\ remove_close("main", cursor) /\ OnTable
    \/ /\ go("main", "remove_unload", "remove_clear") /\ remove_unload("main", cursor) /\ OnTable
    \/ /\ go("main", "remove_clear", "fini") /\ fini_cleared /\ OnTable
    \/ /\ go("main", "fini", "cancel") /\ fini_done /\ OnTable
    \/ /\ pc["main"] = "cancel" /\ pc["event"] = "wait"
       /\ pc' = [pc EXCEPT !["main"] = "end", !["event"] = "end"] /\ Elsewhere

-----------------------------------------------------------------------------
(* The frame thread *)

frame_thread ==
    \/ /\ go("frame", "status", IF running THEN "process" ELSE "end") /\ Elsewhere
    \/ /\ go("frame", "process", "id") /\ process_begin /\ OnTable
    \/ /\ process_id /\ OnTable
       /\ go("frame", "id", IF filters[walk.i].id <= walk.last_id THEN "id" ELSE "enabled")
    \/ /\ pc["frame"] = "enabled" /\ process_enabled /\ OnTable
       /\ go("frame", "enabled", IF filters[walk.i].enabled /\ walk.next_filter # 0
                                 THEN "compare" ELSE "id")
    \/ /\ go("frame", "compare", "id") /\ process_compare /\ OnTable
    \/ /\ go("frame", "id", "processed") /\ none_left /\ Elsewhere
    \/ /\ go("frame", "id", "entry") /\ process_last_id /\ OnTable
    \/ /\ go("frame", "entry", "id") /\ process_no_entry /\ OnTable
    \/ /\ go("frame", "entry", "call") /\ process_entry /\ OnTable
    \/ /\ go("frame", "call", "id") /\ process_call /\ OnTable
    \/ /\ go("frame", "processed", "status") /\ Elsewhere

-----------------------------------------------------------------------------
(* The event thread: the commands of handle().  One that names no filter,  *)
(* finds no free slot or comes after tc_filter_fini fails at once.         *)

command ==
    /\ commands > 0
    /\ commands' = commands - 1
    /\ UNCHANGED running

serve_load ==
    \E name \in Names :
        /\ go("event", "wait", "load") /\ command /\ add_reserve(name)
        /\ UNCHANGED reconfigured

serve_enable ==
    \E name \in Names, on \in BOOLEAN :
        /\ go("event", "wait", "wait") /\ command /\ set_enabled(name, on)
        /\ UNCHANGED reconfigured

serve_config ==
    \E name \in Names :
        /\ command
        /\ \/ go("event", "wait", "config_close") /\ configure_begin(name)
           \/ go("event", "wait", "wait") /\ configure_no_entry(name)
        /\ reconfigured' = TRUE

handle ==
    \/ \E ok \in BOOLEAN :
        \/ /\ go("event", "load", IF ok THEN "load_id" ELSE "wait")
           /\ IF ok THEN add_entry ELSE UNCHANGED filtervars
           /\ OnTable
        \/ /\ go("event", "load_init", IF ok THEN "load_enable" ELSE "remove")
           /\ add_init(ok) /\ OnTable
        \/ /\ go("event", "config_init", "wait") /\ configure_init(ok) /\ OnTable
    \/ /\ go("event", "load_id", "load_init") /\ add_id /\ OnTable
    \/ /\ go("event", "remove", IF ~add_remove_finds THEN "load_enable"
                                ELSE IF filters[call.slot].loaded THEN "remove_close"
                                ELSE "remove_clear")
       /\ Elsewhere
    \/ /\ go("event", "remove_close", "remove_unload")
       /\ remove_close("event", call.slot) /\ OnTable
    \/ /\ go("event", "remove_unload", "remove_clear")
       /\ remove_unload("event", call.slot) /\ OnTable
    \/ /\ go("event", "remove_clear", "load_enable")
       /\ remove_clear(call.slot) /\ UNCHANGED cursor /\ OnTable
    \/ /\ go("event", "load_enable", "wait") /\ add_enable /\ OnTable
    \/ /\ go("event", "config_close", "config_init") /\ configure_close /\ OnTable

-----------------------------------------------------------------------------
(* The filters that stay enabled while the frame is in the chain. *)
watch == steady' = IF pc["frame"] = "process" THEN EnabledIds' ELSE steady \intersect EnabledIds'

(* A call into an unloaded filter ends the program. *)
Next ==
    /\ crashed = "no"
    /\ \/ stop \/ shutdown
       \/ frame_thread
       \/ serve_load \/ serve_enable \/ serve_config \/ handle
    /\ watch

Spec == Init /\ [][Next]_vars

-----------------------------------------------------------------------------
Removing    == {"remove_close", "remove_unload", "remove_clear"}
MainPlaces  == Removing \union {"export", "close", "fini", "cancel", "end"}
Chain       == {"id", "enabled", "compare", "entry", "call"}
FramePlaces == Chain \union {"status", "process", "processed", "end"}
EventPlaces == Removing \union {"wait", "load", "load_id", "load_init", "remove",
                                "load_enable", "config_close", "config_init", "end"}

TypeOK ==
    /\ FilterTableType
    /\ running \in BOOLEAN
    /\ pc \in [{"main", "frame", "event"} -> MainPlaces \union FramePlaces \union EventPlaces]
    /\ pc["main"] \in MainPlaces /\ pc["frame"] \in FramePlaces /\ pc["event"] \in EventPlaces
    /\ commands \in 0 .. Commands /\ reconfigured \in BOOLEAN
    /\ steady \subseteq Nat \ {0}

(* A frame never enters a filter before its initialisation has succeeded,  *)
(* however the commands fall between the accesses of the walk (filter.c    *)
(* 187-209), unless a config command closed the filter under the frame, or *)
(* a failed initialisation unloads a filter while the frame is in the      *)
(* chain; without the latter it never calls into an unloaded one either.   *)
(* And no frame thread is in the chain while the program unloads it.       *)
FramesSeeReadyFilters ==
    /\ ~removed => crashed # "frame" /\ (early => reconfigured)
    /\ pc["main"] \in Removing \union {"fini", "cancel"} => pc["frame"] \notin Chain

(* A filter that is enabled all the time a frame is in the chain gets it,  *)
(* whatever is added, enabled and disabled meanwhile, unless a filter is   *)
(* removed meanwhile.                                                      *)
NoFilterSkipped == pc["frame"] = "processed" /\ ~removed => steady \subseteq applied

(* filter.c:155-156 without that exception: the frame is sent to all the   *)
(* enabled filters.                                                        *)
AllEnabledFilters == pc["frame"] = "processed" => steady \subseteq applied

=============================================================================
