---------------------------- MODULE FilterTable ----------------------------
(***************************************************************************)
(* src/filter.c: the table of the filter instances.  There is no lock: the *)
(* frame threads walk the table (tc_filter_process) while the event thread *)
(* works on it for the client of the socket, and the main thread empties   *)
(* it (tc_filter_fini).  So what the walk reads, and what an addition or a *)
(* removal writes where the walk can see it, is one step for each access,  *)
(* and every call into a filter is a step of its own.                      *)
(*                                                                         *)
(* ControlSocket composes the threads; an action here says what it does to *)
(* the table, the thread's place in the call is the caller's business.     *)
(***************************************************************************)
EXTENDS Naturals, FiniteSets, FiniteSetsExt

CONSTANTS Names,       \* the filters there are
          MaxFilters   \* MAX_FILTERS

ASSUME MaxFiltersAssumption == MaxFilters \in Nat \ {0}

VARIABLES
    initialized,
    filters,     \* the table
    opened,      \* of the filter in each slot: its last INIT without a CLOSE
    call,        \* slot and id of the call of the event thread
    cursor,      \* the loop index of tc_filter_fini
    walk,        \* the locals of tc_filter_process
    applied,     \* history: the ids that the frame was sent to
    early,       \* history: the frame was sent to a filter that was not opened
    removed,     \* history: a filter was unloaded or removed since the frame came
    crashed      \* history: who called into a filter that was unloaded

table   == <<initialized, filters, opened>>
history == <<applied, early, removed>>
filtervars == <<table, call, cursor, walk, history, crashed>>

Slots  == 1 .. MaxFilters
NoName == "none"
Empty  == [name |-> NoName, id |-> 0, enabled |-> FALSE, loaded |-> FALSE]

(* The slot i that the search looks at and the id it has read there, the   *)
(* choice next_filter so far (0 if none) with the id it was chosen for,    *)
(* and last_id.                                                            *)
Walk == [i : 1 .. MaxFilters + 1, seen : Nat, next_filter : 0 .. MaxFilters, best : Nat,
         last_id : Nat]
search(id) == [i |-> 1, seen |-> 0, next_filter |-> 0, best |-> 0, last_id |-> id]

FilterTableInit ==
    /\ initialized = TRUE
    /\ filters = [i \in Slots |-> Empty] /\ opened = [i \in Slots |-> FALSE]
    /\ call = [slot |-> 0, id |-> 0] /\ cursor = 1
    /\ walk = search(0)
    /\ applied = {} /\ early = FALSE /\ removed = FALSE /\ crashed = "no"

FilterTableType ==
    /\ initialized \in BOOLEAN
    /\ filters \in [Slots -> [name : Names \union {NoName}, id : Nat, enabled : BOOLEAN,
                              loaded : BOOLEAN]]
    /\ opened \in [Slots -> BOOLEAN]
    /\ call \in [slot : 0 .. MaxFilters, id : Nat]
    /\ cursor \in 1 .. MaxFilters + 1
    /\ walk \in Walk
    /\ applied \subseteq Nat /\ early \in BOOLEAN /\ removed \in BOOLEAN
    /\ crashed \in {"no", "frame", "event", "main"}

EnabledIds == {filters[i].id : i \in {j \in Slots : filters[j].id # 0 /\ filters[j].enabled}}

-----------------------------------------------------------------------------
(* tc_filter_process, by a frame thread.  The fields are plain ints, so    *)
(* that the compiler may read one again or use the value it has.           *)

OnWalk == UNCHANGED <<table, call, cursor, history, crashed>>

process_begin ==
    /\ walk' = search(0)
    /\ applied' = {} /\ early' = FALSE /\ removed' = FALSE
    /\ UNCHANGED <<table, call, cursor, crashed>>

searching == walk.i \in Slots
pass_by == walk' = [walk EXCEPT !.i = @ + 1, !.seen = 0]
choose  == walk' = [walk EXCEPT !.i = @ + 1, !.seen = 0, !.next_filter = walk.i,
                                !.best = walk.seen]

(* filters[i].id <= last_id || ... *)
process_id ==
    /\ searching
    /\ IF filters[walk.i].id <= walk.last_id THEN pass_by
       ELSE walk' = [walk EXCEPT !.seen = filters[walk.i].id]
    /\ OnWalk

(* ... || !filters[i].enabled; next_filter < 0 || ... *)
process_enabled ==
    /\ IF ~filters[walk.i].enabled THEN pass_by
       ELSE IF walk.next_filter = 0 THEN choose
       ELSE \E id \in {walk.seen, filters[walk.i].id} : walk' = [walk EXCEPT !.seen = id]
    /\ OnWalk

(* ... || filters[i].id < filters[next_filter].id.  Mutant: the other way  *)
(* round.                                                                  *)
Mut_process_compare ==
    /\ \E id \in {walk.best, filters[walk.next_filter].id} :
        IF walk.seen > id THEN choose
        ELSE walk' = [walk EXCEPT !.i = @ + 1, !.seen = 0, !.best = id]
    /\ OnWalk

process_compare ==
    /\ \E id \in {walk.best, filters[walk.next_filter].id} :
        IF walk.seen < id THEN choose
        ELSE walk' = [walk EXCEPT !.i = @ + 1, !.seen = 0, !.best = id]
    /\ OnWalk

none_left == ~searching /\ walk.next_filter = 0

(* last_id = filters[next_filter].id *)
process_last_id ==
    /\ ~searching /\ walk.next_filter # 0
    /\ \E id \in {walk.best, filters[walk.next_filter].id} :
        walk' = [walk EXCEPT !.last_id = id, !.best = 0]
    /\ OnWalk

(* A slot that was emptied since has no entry: it is disabled. *)
process_no_entry ==
    /\ ~filters[walk.next_filter].loaded
    /\ filters' = [filters EXCEPT ![walk.next_filter].enabled = FALSE]
    /\ walk' = search(walk.last_id)
    /\ UNCHANGED <<initialized, opened, call, cursor, history, crashed>>

process_entry == filters[walk.next_filter].loaded /\ UNCHANGED filtervars

process_call ==
    /\ IF filters[walk.next_filter].loaded
       THEN /\ applied' = applied \union {walk.last_id}
            /\ early' = (early \/ ~opened[walk.next_filter])
            /\ UNCHANGED crashed
       ELSE crashed' = "frame" /\ UNCHANGED <<applied, early>>
    /\ walk' = search(walk.last_id)
    /\ UNCHANGED <<table, call, cursor, removed>>

-----------------------------------------------------------------------------
(* Calls of the thread t into the filter of the slot i, with what the call *)
(* leaves, and the removal of the filter; another thread may have unloaded *)
(* the filter since t looked.                                              *)

enter(t, i, is_open) ==
    IF filters[i].loaded THEN opened' = [opened EXCEPT ![i] = is_open] /\ UNCHANGED crashed
    ELSE crashed' = t /\ UNCHANGED opened

remove_close(t, i) ==
    /\ enter(t, i, FALSE)
    /\ UNCHANGED <<initialized, filters, call, cursor, walk, history>>

(* dlclose, and no entry any more; the id and enabled stay. *)
remove_unload(t, i) ==
    /\ IF filters[i].loaded
       THEN filters' = [filters EXCEPT ![i].loaded = FALSE] /\ UNCHANGED crashed
       ELSE crashed' = t /\ UNCHANGED filters
    /\ removed' = TRUE
    /\ UNCHANGED <<initialized, opened, call, cursor, walk, applied, early>>

remove_clear(i) ==
    /\ filters' = [filters EXCEPT ![i].name = NoName, ![i].id = 0, ![i].enabled = FALSE]
    /\ removed' = TRUE
    /\ UNCHANGED <<initialized, opened, call, walk, applied, early, crashed>>

-----------------------------------------------------------------------------
(* tc_filter_add, by the event thread.                                     *)

Free == {i \in Slots : filters[i].id = 0}
NextId == 1 + Max({filters[i].id : i \in Slots})

(* Nobody else adds, so that the slot stays free and the id the highest.   *)
add_reserve(name) ==
    /\ initialized /\ Free # {}
    /\ LET i == Min(Free)
       IN /\ filters' = [filters EXCEPT ![i].name = name, ![i].enabled = FALSE]
          /\ call' = [slot |-> i, id |-> NextId]
    /\ UNCHANGED <<initialized, opened, cursor, walk, history, crashed>>

(* dlopen and dlsym; after a failure the name stays in the slot. *)
add_entry ==
    /\ filters' = [filters EXCEPT ![call.slot].loaded = TRUE]
    /\ opened' = [opened EXCEPT ![call.slot] = FALSE]
    /\ UNCHANGED <<initialized, call, cursor, walk, history, crashed>>

(* Mutant: the filter is enabled as soon as it is loaded. *)
Mut_add_id ==
    /\ filters' = [filters EXCEPT ![call.slot].id = call.id, ![call.slot].enabled = TRUE]
    /\ UNCHANGED <<initialized, opened, call, cursor, walk, history, crashed>>

add_id ==
    /\ filters' = [filters EXCEPT ![call.slot].id = call.id]
    /\ UNCHANGED <<initialized, opened, call, cursor, walk, history, crashed>>

add_init(ok) ==
    /\ enter("event", call.slot, ok)
    /\ UNCHANGED <<initialized, filters, call, cursor, walk, history>>

(* After a failed INIT: tc_filter_remove, which finds the id unless the    *)
(* main thread has removed it, or all of them.                             *)
add_remove_finds == initialized /\ filters[call.slot].id = call.id

(* Also after a failed initialisation: the slot is empty then. *)
add_enable ==
    /\ filters' = [filters EXCEPT ![call.slot].enabled = TRUE]
    /\ UNCHANGED <<initialized, opened, call, cursor, walk, history, crashed>>

-----------------------------------------------------------------------------
(* The other calls of the event thread.  tc_filter_find returns the id of  *)
(* the first slot of that name, and id_to_index finds the slot again.      *)

Named(name) == {i \in Slots : filters[i].name = name}
find(name) ==
    /\ initialized /\ Named(name) # {}
    /\ filters[Min(Named(name))].id # 0

set_enabled(name, on) ==
    /\ find(name)
    /\ filters' = [filters EXCEPT ![Min(Named(name))].enabled = on]
    /\ UNCHANGED <<initialized, opened, call, cursor, walk, history, crashed>>

(* tc_filter_configure closes the filter and opens it again; when that     *)
(* fails it disables it, as it does when there is no entry.                *)
configure_begin(name) ==
    /\ find(name)
    /\ filters[Min(Named(name))].loaded
    /\ call' = [slot |-> Min(Named(name)), id |-> filters[Min(Named(name))].id]
    /\ UNCHANGED <<table, cursor, walk, history, crashed>>

configure_no_entry(name) ==
    /\ set_enabled(name, FALSE)
    /\ ~filters[Min(Named(name))].loaded

configure_close ==
    /\ enter("event", call.slot, FALSE)
    /\ UNCHANGED <<initialized, filters, call, cursor, walk, history>>

configure_init(ok) ==
    /\ enter("event", call.slot, ok)
    /\ filters' = IF ok THEN filters ELSE [filters EXCEPT ![call.slot].enabled = FALSE]
    /\ UNCHANGED <<initialized, call, cursor, walk, history>>

-----------------------------------------------------------------------------
(* tc_filter_fini, by the main thread: one pass over the slots.            *)

fini_skip ==
    /\ cursor \in Slots /\ filters[cursor].id = 0
    /\ cursor' = cursor + 1
    /\ UNCHANGED <<table, call, walk, history, crashed>>

fini_remove == cursor \in Slots /\ filters[cursor].id # 0 /\ UNCHANGED filtervars

fini_cleared == remove_clear(cursor) /\ cursor' = cursor + 1

fini_done ==
    /\ cursor \notin Slots
    /\ initialized' = FALSE
    /\ UNCHANGED <<filters, opened, call, cursor, walk, history, crashed>>

=============================================================================
