------------------------ MODULE ControlSocketProofs ------------------------
(***************************************************************************)
(* The table of the filters between its three threads, none of which holds *)
(* a lock: for any number of slots, filters and commands, whatever the     *)
(* interleaving of the single accesses.                                    *)
(***************************************************************************)
EXTENDS ControlSocket, WellFoundedInduction, TLAPS

USE MaxFiltersAssumption, CommandsAssumption

-----------------------------------------------------------------------------
(* The inductive invariant.                                                *)

(* Only the main thread lets the frame thread end before it unloads.       *)
Closing == pc["main"] \in Removing \union {"fini", "cancel", "end"} => pc["frame"] = "end"

(* The threads are in the table where they work on it.                     *)
InSlots ==
    /\ pc["main"] \in Removing => cursor \in Slots
    /\ pc["frame"] \in {"enabled", "compare"} => walk.i \in Slots
    /\ pc["frame"] \in {"compare", "entry", "call"} => walk.next_filter \in Slots

(* The slot of the addition under way, before it enables the filter.       *)
Loading == {"load", "load_id", "load_init", "remove"} \union Removing
Mine(i) == pc["event"] \in Loading /\ call.slot = i

(* The filter that is being added is not enabled, and its id is above all  *)
(* others when it gets it.                                                 *)
BeingAdded ==
    pc["event"] \in Loading =>
        /\ call.slot \in Slots /\ call.id # 0 /\ ~filters[call.slot].enabled
        /\ IF pc["event"] \in {"load", "load_id"}
           THEN filters[call.slot].id = 0 /\ \A i \in Slots : filters[i].id < call.id
           ELSE filters[call.slot].id = call.id
        /\ pc["event"] \in {"load_id", "load_init", "remove", "remove_close", "remove_unload"}
              => filters[call.slot].loaded

(* Every other filter of the table is loaded and open.                     *)
ReadySlots ==
    \A i \in Slots :
        filters[i].id # 0 /\ ~Mine(i) => filters[i].loaded /\ (opened[i] \/ reconfigured)

UniqueIds == \A i, j \in Slots : filters[i].id # 0 /\ filters[i].id = filters[j].id => i = j

(* All that until the main thread unloads the filters.                     *)
InTable ==
    /\ pc["frame"] # "end" => initialized /\ BeingAdded /\ ReadySlots /\ UniqueIds
    /\ pc["event"] \in {"config_close", "config_init"} => reconfigured

(* What the walk has read still holds: the slot that it looks at, its      *)
(* choice, and the filter that it calls.                                   *)
Searching == {"id", "enabled", "compare"}
InWalk ==
    /\ pc["frame"] \in {"enabled", "compare"} =>
          walk.seen > walk.last_id /\ filters[walk.i].id = walk.seen
    /\ pc["frame"] = "compare" => ~Mine(walk.i)
    /\ pc["frame"] \in Searching /\ walk.next_filter # 0 =>
          /\ walk.best > walk.last_id /\ filters[walk.next_filter].id = walk.best
          /\ ~Mine(walk.next_filter)
    /\ pc["frame"] \in {"entry", "call"} =>
          /\ walk.last_id # 0 /\ filters[walk.next_filter].id = walk.last_id
          /\ ~Mine(walk.next_filter)

(* The frame has been sent to every steady filter up to last_id, and the   *)
(* choice is no higher than any of the others that the search has passed.  *)
Sent ==
    /\ pc["frame"] \in Searching =>
          /\ \A x \in steady : x <= walk.last_id => x \in applied
          /\ \A j \in Slots :
                j < walk.i /\ filters[j].id \in steady /\ filters[j].id > walk.last_id
                   => walk.next_filter # 0 /\ walk.best <= filters[j].id
    /\ pc["frame"] \in {"entry", "call"} =>
          \A x \in steady : x < walk.last_id => x \in applied

(* None of that survives a removal.                                        *)
Undisturbed ==
    ~removed => InWalk /\ Sent /\ crashed # "frame" /\ (early => reconfigured)

IInv == /\ TypeOK /\ Closing /\ InSlots /\ InTable /\ steady \subseteq EnabledIds
        /\ Undisturbed /\ NoFilterSkipped

Filter == [name : Names \union {NoName}, id : Nat, enabled : BOOLEAN, loaded : BOOLEAN]

-----------------------------------------------------------------------------
(* Choosing slots and ids.                                                 *)

(* A set of natural numbers has a least element, and Min is it.            *)
LEMMA MinOf ==
    ASSUME NEW S \in SUBSET Nat, S # {}
    PROVE  Min(S) \in S /\ \A y \in S : Min(S) <= y
  <1>1. PICK m \in S : \A y \in S : ~(<<y, m>> \in OpToRel(<, Nat))
    BY NatLessThanWellFounded, WFMin
  <1>2. \A y \in S : ~(y < m)
    BY <1>1 DEF OpToRel
  <1>3. \A y \in S : m <= y
    BY <1>2
  <1> QED
    BY <1>3 DEF Min

(* The next id is a positive number above all ids: the slots have a        *)
(* largest one, since otherwise there would be a first slot up to which    *)
(* they have none.                                                         *)
LEMMA NextIdAbove ==
    ASSUME FilterTableType
    PROVE  NextId \in Nat \ {0} /\ \A i \in Slots : filters[i].id < NextId
  <1> DEFINE Ids   == {filters[i].id : i \in Slots}
             Id(i) == filters[i].id
             Top(n) == \E t \in 1 .. n : \A i \in 1 .. n : Id(i) <= Id(t)
             T     == {n \in Slots : ~Top(n)}
  <1>1. \A i \in Slots : Id(i) \in Nat
    BY DEF FilterTableType
  <1>2. T = {}
    <2> SUFFICES ASSUME T # {} PROVE FALSE
      OBVIOUS
    <2>1. T \in SUBSET Nat
      BY DEF Slots
    <2>2. PICK n \in T : \A y \in T : n <= y
      BY <2>1, MinOf
    <2>3. n \in Slots /\ n \in Nat /\ n >= 1 /\ n <= MaxFilters /\ ~Top(n)
      BY DEF Slots
    <2>4. CASE n = 1
      BY <1>1, <2>3, <2>4
    <2>5. CASE n > 1
      <3>1. n - 1 \in Slots /\ n - 1 \notin T
        <4>1. n - 1 \in Slots /\ ~(n <= n - 1)
          BY <2>3, <2>5 DEF Slots
        <4> HIDE DEF T
        <4> QED
          BY <2>2, <4>1
      <3>2. PICK t \in 1 .. n - 1 : \A i \in 1 .. n - 1 : Id(i) <= Id(t)
        BY <3>1
      <3>3. t \in Slots /\ Id(t) \in Nat /\ Id(n) \in Nat
        BY <1>1, <2>3 DEF Slots
      <3>4. \A i \in 1 .. n : (i \in 1 .. n - 1 \/ i = n) /\ i \in Slots /\ Id(i) \in Nat
        BY <1>1, <2>3 DEF Slots
      <3>5. CASE Id(n) <= Id(t)
        <4>1. \A i \in 1 .. n : Id(i) <= Id(t)
          BY <3>2, <3>4, <3>5
        <4> QED
          BY <2>3, <4>1
      <3>6. CASE Id(t) <= Id(n)
        <4>1. \A i \in 1 .. n : Id(i) <= Id(n)
          BY <3>2, <3>3, <3>4, <3>6
        <4> QED
          BY <2>3, <4>1
      <3> HIDE DEF Id
      <3> QED
        BY <3>3, <3>5, <3>6
    <2> QED
      BY <2>3, <2>4, <2>5
  <1>3. PICK t \in Slots : \A i \in Slots : Id(i) <= Id(t)
    <2>1. MaxFilters \in Slots
      BY DEF Slots
    <2> QED
      BY <1>2, <2>1 DEF Slots
  <1>4. Max(Ids) \in Ids /\ \A y \in Ids : Max(Ids) >= y
    <2>1. Id(t) \in Ids /\ \A y \in Ids : Id(t) >= y
      BY <1>1, <1>3
    <2> QED
      BY <2>1 DEF Max
  <1>5. PICK m \in Nat : Max(Ids) = m
    BY <1>1, <1>4
  <1>6. \A i \in Slots : filters[i].id <= m /\ filters[i].id \in Nat
    BY <1>1, <1>4, <1>5
  <1>7. NextId = 1 + m
    BY <1>5 DEF NextId
  <1> HIDE DEF Ids, Id, T, Top
  <1> QED
    BY <1>6, <1>7

-----------------------------------------------------------------------------
(* The initial states, and what all steps have in common.                  *)

LEMMA InitInv == Init => IInv
  <1> SUFFICES ASSUME Init PROVE IInv
    OBVIOUS
  <1> USE DEF Init, FilterTableInit
  <1>1. FilterTableType
    <2>1. Empty \in Filter
      BY DEF Empty, Filter
    <2>2. filters \in [Slots -> Filter] /\ opened \in [Slots -> BOOLEAN]
      BY <2>1
    <2>3. call \in [slot : 0 .. MaxFilters, id : Nat] /\ cursor \in 1 .. MaxFilters + 1
      OBVIOUS
    <2>4. walk \in Walk
      BY DEF search, Walk
    <2> QED
      BY <2>2, <2>3, <2>4 DEF FilterTableType, Filter
  <1>2. TypeOK
    <2>1. pc["main"] \in MainPlaces /\ pc["frame"] \in FramePlaces /\ pc["event"] \in EventPlaces
      BY DEF MainPlaces, FramePlaces, EventPlaces
    <2>2. pc \in [{"main", "frame", "event"} -> MainPlaces \union FramePlaces \union EventPlaces]
      BY <2>1
    <2>3. commands \in 0 .. Commands
      OBVIOUS
    <2> QED
      BY ONLY Init, <1>1, <2>1, <2>2, <2>3 DEF Init, TypeOK
  <1>3. Closing /\ InSlots /\ NoFilterSkipped
    BY DEF Closing, InSlots, Removing, NoFilterSkipped
  <1>4. InTable
    BY DEF InTable, BeingAdded, ReadySlots, UniqueIds, Loading, Removing, Empty
  <1>5. Undisturbed
    BY DEF Undisturbed, InWalk, Sent, Searching
  <1> QED
    BY <1>2, <1>3, <1>4, <1>5 DEF IInv

(* The history of the enabled filters shrinks while the frame is under way.*)
LEMMA SteadyStep ==
    ASSUME TypeOK, FilterTableType', watch
    PROVE  /\ steady' \subseteq Nat \ {0}
           /\ steady' \subseteq EnabledIds'
           /\ pc["frame"] # "process" => steady' \subseteq steady
  <1>1. EnabledIds' \subseteq Nat \ {0}
    BY DEF FilterTableType, EnabledIds
  <1> QED
    BY <1>1 DEF watch, TypeOK

(* The types of a step of one thread, when those of the table are kept.    *)
LEMMA StepType ==
    ASSUME TypeOK, watch, FilterTableType', running' \in BOOLEAN, reconfigured' \in BOOLEAN,
           commands' \in {commands} \union {commands - 1}, commands' # commands => commands > 0,
           NEW t \in {"main", "frame", "event"}, NEW to, pc' = [pc EXCEPT ![t] = to],
           to \in CASE t = "main"  -> MainPlaces
                    [] t = "frame" -> FramePlaces
                    [] OTHER       -> EventPlaces
    PROVE  /\ TypeOK'
           /\ pc'[t] = to
           /\ \A u \in {"main", "frame", "event"} \ {t} : pc'[u] = pc[u]
  <1>1. steady' \subseteq Nat \ {0}
    BY SteadyStep
  <1>2. to \in MainPlaces \union FramePlaces \union EventPlaces
    OBVIOUS
  <1>3. /\ pc' \in [{"main", "frame", "event"} -> MainPlaces \union FramePlaces \union EventPlaces]
        /\ pc'["main"] \in MainPlaces /\ pc'["frame"] \in FramePlaces
        /\ pc'["event"] \in EventPlaces
        /\ pc'[t] = to /\ \A u \in {"main", "frame", "event"} \ {t} : pc'[u] = pc[u]
    BY <1>2 DEF TypeOK
  <1>4. commands' \in 0 .. Commands
    BY DEF TypeOK
  <1> QED
    BY <1>1, <1>3, <1>4 DEF TypeOK

(* A steady filter is enabled, in its slot.                                *)
LEMMA SteadySlot ==
    ASSUME FilterTableType, steady \subseteq EnabledIds, NEW x \in steady
    PROVE  x \in Nat /\ x # 0 /\ \E k \in Slots : filters[k].id = x /\ filters[k].enabled
  BY DEF EnabledIds, FilterTableType

(* The enabled flag of a slot is the only thing that changes in the table. *)
LEMMA SetEnabledType ==
    ASSUME FilterTableType, NEW i, NEW b \in BOOLEAN,
           filters' = [filters EXCEPT ![i].enabled = b]
    PROVE  /\ filters' \in [Slots -> Filter]
           /\ \A j \in Slots : /\ filters'[j].id = filters[j].id
                               /\ filters'[j].loaded = filters[j].loaded
                               /\ filters'[j].enabled \in {filters[j].enabled, b}
                               /\ j # i => filters'[j] = filters[j]
  <1>1. \A j \in Slots : filters[j] \in Filter
    BY DEF FilterTableType, Filter
  <1>2. \A j \in Slots : filters'[j] = IF j = i THEN [filters[j] EXCEPT !.enabled = b] ELSE filters[j]
    BY DEF FilterTableType
  <1>3. \A j \in Slots : [filters[j] EXCEPT !.enabled = b] \in Filter
    BY <1>1 DEF Filter
  <1>4. filters' \in [Slots -> Filter]
    BY <1>1, <1>2, <1>3 DEF FilterTableType
  <1> QED
    BY <1>1, <1>2, <1>4 DEF Filter

-----------------------------------------------------------------------------
(* The frame thread.                                                       *)

(* Its steps leave to the table what they find there.                      *)
LEMMA FrameKeeps ==
    ASSUME IInv, watch, OnTable, FilterTableType', NEW to \in FramePlaces, pc["frame"] # "end",
           pc' = [pc EXCEPT !["frame"] = to],
           UNCHANGED <<initialized, opened, call, cursor>>,
           \/ filters' = filters
           \/ \E i \in Slots : filters' = [filters EXCEPT ![i].enabled = FALSE]
    PROVE  /\ TypeOK' /\ Closing' /\ InTable'
           /\ pc["main"] \notin Removing
           /\ pc'["frame"] = to /\ pc'["main"] = pc["main"] /\ pc'["event"] = pc["event"]
           /\ steady' \subseteq Nat \ {0} /\ steady' \subseteq EnabledIds'
           /\ pc["frame"] # "process" => steady' \subseteq steady
  <1>1. /\ TypeOK' /\ pc'["frame"] = to
        /\ pc'["main"] = pc["main"] /\ pc'["event"] = pc["event"]
    <2>1. TypeOK /\ running' \in BOOLEAN /\ reconfigured' \in BOOLEAN /\ commands' = commands
      BY DEF IInv, TypeOK, OnTable
    <2> QED
      BY <2>1, StepType
  <1>2. Closing' /\ pc["main"] \notin Removing
    BY <1>1 DEF IInv, Closing
  <1>3. /\ steady' \subseteq Nat \ {0} /\ steady' \subseteq EnabledIds'
        /\ pc["frame"] # "process" => steady' \subseteq steady
    BY SteadyStep DEF IInv
  <1>4. \A j \in Slots : /\ filters'[j].id = filters[j].id
                         /\ filters'[j].loaded = filters[j].loaded
                         /\ filters[j].enabled = FALSE => filters'[j].enabled = FALSE
    BY SetEnabledType DEF IInv, TypeOK
  <1>5. InTable'
    <2>1. initialized /\ BeingAdded /\ ReadySlots /\ UniqueIds
      BY DEF IInv, InTable
    <2>2. \A i : Mine(i)' = Mine(i)
      BY <1>1 DEF Mine
    <2>3. BeingAdded'
      <3>1. TypeOK
        BY DEF IInv
      <3> QED
        BY <1>1, <1>4, <2>1, <3>1 DEF BeingAdded, TypeOK, FilterTableType
    <2>4. ReadySlots' /\ UniqueIds'
      BY <1>4, <2>1, <2>2 DEF ReadySlots, UniqueIds, OnTable
    <2> QED
      BY <1>1, <2>1, <2>3, <2>4 DEF IInv, InTable, OnTable
  <1> QED
    BY <1>1, <1>2, <1>3, <1>5

(* The places of the frame thread outside the chain.                       *)
LEMMA FrameOutside ==
    ASSUME IInv, watch, Elsewhere, NEW to \in {"status", "process", "end"},
           pc["frame"] \in {"status", "processed"}, pc' = [pc EXCEPT !["frame"] = to]
    PROVE  IInv'
  <1>1. UNCHANGED <<initialized, filters, opened, call, cursor, walk, applied, early, removed,
                    crashed>> /\ OnTable
    BY DEF Elsewhere, filtervars, table, history
  <1>2. FilterTableType'
    BY <1>1 DEF IInv, TypeOK, FilterTableType
  <1>3. to \in FramePlaces
    BY DEF FramePlaces
  <1>4. /\ TypeOK' /\ Closing' /\ InTable' /\ steady' \subseteq EnabledIds'
        /\ pc'["frame"] = to /\ pc'["main"] = pc["main"] /\ pc["main"] \notin Removing
    BY <1>1, <1>2, <1>3, FrameKeeps
  <1>5. InSlots' /\ NoFilterSkipped'
    BY <1>4 DEF InSlots, NoFilterSkipped
  <1>6. Undisturbed'
    BY <1>1, <1>4 DEF IInv, Undisturbed, InWalk, Sent, Searching, OnTable
  <1> QED
    BY <1>4, <1>5, <1>6 DEF IInv

LEMMA BeginStep ==
    ASSUME IInv, watch, crashed = "no", go("frame", "process", "id"), process_begin, OnTable
    PROVE  IInv'
  <1> USE DEF go, process_begin
  <1>1. UNCHANGED <<initialized, filters, opened, call, cursor, crashed>>
    BY DEF table
  <1>2. walk' = search(0) /\ walk' \in Walk /\ walk'.i = 1 /\ walk'.next_filter = 0
        /\ walk'.last_id = 0 /\ applied' = {} /\ early' = FALSE
    BY DEF search, Walk
  <1>3. FilterTableType'
    BY <1>1, <1>2 DEF IInv, TypeOK, FilterTableType
  <1>4. /\ TypeOK' /\ Closing' /\ InTable' /\ steady' \subseteq EnabledIds'
        /\ steady' \subseteq Nat \ {0}
        /\ pc'["frame"] = "id" /\ pc'["main"] = pc["main"] /\ pc["main"] \notin Removing
    BY <1>1, <1>3, FrameKeeps DEF FramePlaces, Chain
  <1>5. InSlots' /\ NoFilterSkipped'
    BY <1>4 DEF InSlots, NoFilterSkipped
  <1>6. Undisturbed'
    BY <1>1, <1>2, <1>4 DEF Undisturbed, InWalk, Sent, Searching, Slots
  <1> QED
    BY <1>4, <1>5, <1>6 DEF IInv

(* What the search leaves alone.                                           *)
LEMMA SearchKeeps ==
    ASSUME IInv, watch, OnTable, OnWalk, walk' \in Walk, pc["frame"] \in Searching,
           NEW to \in Chain \union {"processed"}, pc' = [pc EXCEPT !["frame"] = to]
    PROVE  /\ TypeOK' /\ Closing' /\ InTable'
           /\ pc["main"] \notin Removing /\ pc'["main"] = pc["main"] /\ pc'["frame"] = to
           /\ \A i : Mine(i)' = Mine(i)
           /\ steady' \subseteq EnabledIds' /\ steady' \subseteq steady
           /\ steady' \subseteq Nat \ {0}
           /\ UNCHANGED <<filters, applied, early, removed, crashed, reconfigured>>
           /\ ~removed => InWalk /\ Sent /\ crashed # "frame" /\ (early => reconfigured)
  <1>1. UNCHANGED <<initialized, filters, opened, call, cursor, applied, early, removed, crashed>>
    BY DEF OnWalk, table, history
  <1>2. FilterTableType'
    BY <1>1 DEF IInv, TypeOK, FilterTableType
  <1>3. to \in FramePlaces /\ pc["frame"] # "end" /\ pc["frame"] # "process"
    BY DEF FramePlaces, Searching
  <1>4. /\ TypeOK' /\ Closing' /\ InTable' /\ steady' \subseteq EnabledIds'
        /\ steady' \subseteq steady /\ steady' \subseteq Nat \ {0}
        /\ pc'["frame"] = to /\ pc'["main"] = pc["main"] /\ pc["main"] \notin Removing
        /\ pc'["event"] = pc["event"]
    BY <1>1, <1>2, <1>3, FrameKeeps
  <1>5. \A i : Mine(i)' = Mine(i)
    BY <1>1, <1>4 DEF Mine
  <1> QED
    BY <1>1, <1>4, <1>5 DEF IInv, Undisturbed, OnTable

(* The record of the walk after a step to the next slot.                   *)
LEMMA NextSlot ==
    ASSUME walk \in Walk, walk.i \in Slots, NEW n \in 0 .. MaxFilters, NEW best \in Nat,
           walk' = [walk EXCEPT !.i = @ + 1, !.seen = 0, !.next_filter = n, !.best = best]
    PROVE  /\ walk' \in Walk /\ walk'.i = walk.i + 1 /\ walk'.next_filter = n
           /\ walk'.best = best /\ walk'.last_id = walk.last_id
  <1>1. walk' = [i |-> walk.i + 1, seen |-> 0, next_filter |-> n, best |-> best,
                 last_id |-> walk.last_id]
    BY DEF Walk
  <1>2. walk.i + 1 \in 1 .. MaxFilters + 1 /\ walk.last_id \in Nat
    BY DEF Walk, Slots
  <1> QED
    BY <1>1, <1>2 DEF Walk

(* The search passes by a slot that has no steady filter above last_id, or *)
(* none below the choice.                                                  *)
LEMMA PassBy ==
    ASSUME IInv, watch, OnTable, OnWalk, pc["frame"] \in Searching, walk.i \in Slots,
           pc' = [pc EXCEPT !["frame"] = "id"], NEW best \in Nat,
           walk' = [walk EXCEPT !.i = @ + 1, !.seen = 0, !.best = best],
           ~removed => best = walk.best \/ walk.next_filter = 0,
           ~removed =>
              \/ filters[walk.i].id \notin steady
              \/ filters[walk.i].id <= walk.last_id
              \/ walk.next_filter # 0 /\ walk.best <= filters[walk.i].id
    PROVE  IInv'
  <1>1. walk \in Walk
    BY DEF IInv, TypeOK, FilterTableType
  <1>2. /\ walk' \in Walk /\ walk'.i = walk.i + 1 /\ walk'.next_filter = walk.next_filter
        /\ walk'.best = best /\ walk'.last_id = walk.last_id
    <2>1. walk' = [walk EXCEPT !.i = @ + 1, !.seen = 0, !.next_filter = walk.next_filter,
                               !.best = best]
      BY <1>1 DEF Walk
    <2>2. walk.next_filter \in 0 .. MaxFilters
      BY <1>1 DEF Walk
    <2> QED
      BY <1>1, <2>1, <2>2, NextSlot
  <1>3. /\ TypeOK' /\ Closing' /\ InTable'
        /\ pc["main"] \notin Removing /\ pc'["main"] = pc["main"] /\ pc'["frame"] = "id"
        /\ \A i : Mine(i)' = Mine(i)
        /\ steady' \subseteq EnabledIds' /\ steady' \subseteq steady
        /\ UNCHANGED <<filters, applied, early, removed, crashed, reconfigured>>
        /\ ~removed => InWalk /\ Sent /\ crashed # "frame" /\ (early => reconfigured)
    BY <1>2, SearchKeeps DEF Chain
  <1>4. InSlots' /\ NoFilterSkipped'
    BY <1>3 DEF InSlots, NoFilterSkipped
  <1>5. ASSUME ~removed PROVE InWalk' /\ Sent'
    <2>1. InWalk /\ Sent /\ (best = walk.best \/ walk.next_filter = 0)
      BY <1>3, <1>5
    <2>2. InWalk'
      BY <1>2, <1>3, <2>1 DEF InWalk, Searching
    <2>3. \A j \in Slots : j < walk'.i => j < walk.i \/ j = walk.i
      BY <1>1, <1>2 DEF Walk, Slots
    <2>4. \A j \in Slots : j < walk'.i /\ filters[j].id \in steady /\ filters[j].id > walk.last_id
             => walk.next_filter # 0 /\ walk.best <= filters[j].id
      <3>1. \A j \in Slots : j < walk.i /\ filters[j].id \in steady /\ filters[j].id > walk.last_id
               => walk.next_filter # 0 /\ walk.best <= filters[j].id
        BY <2>1 DEF Sent
      <3>2. filters[walk.i].id \in Nat /\ walk.last_id \in Nat
        BY <1>1 DEF IInv, TypeOK, FilterTableType, Walk
      <3> QED
        BY <1>5, <2>3, <3>1, <3>2
    <2>5. Sent'
      BY <1>2, <1>3, <2>1, <2>4 DEF Sent, Searching
    <2> QED
      BY <2>2, <2>5
  <1>6. Undisturbed'
    BY <1>3, <1>5 DEF Undisturbed
  <1> QED
    BY <1>3, <1>4, <1>6 DEF IInv

(* Or it chooses the slot, when that is the first one, or the lower one.   *)
LEMMA Choose ==
    ASSUME IInv, watch, OnTable, OnWalk, pc["frame"] \in {"enabled", "compare"},
           walk.i \in Slots, pc' = [pc EXCEPT !["frame"] = "id"], choose,
           ~removed => /\ ~Mine(walk.i)
                       /\ walk.next_filter = 0 \/ walk.seen < walk.best
    PROVE  IInv'
  <1>1. walk \in Walk
    BY DEF IInv, TypeOK, FilterTableType
  <1>2. /\ walk' \in Walk /\ walk'.i = walk.i + 1 /\ walk'.next_filter = walk.i
        /\ walk'.best = walk.seen /\ walk'.last_id = walk.last_id
    <2>1. walk.i \in 0 .. MaxFilters /\ walk.seen \in Nat
      BY <1>1 DEF Walk, Slots
    <2> QED
      BY <1>1, <2>1, NextSlot DEF choose
  <1>3. /\ TypeOK' /\ Closing' /\ InTable'
        /\ pc["main"] \notin Removing /\ pc'["main"] = pc["main"] /\ pc'["frame"] = "id"
        /\ \A i : Mine(i)' = Mine(i)
        /\ steady' \subseteq EnabledIds' /\ steady' \subseteq steady
        /\ UNCHANGED <<filters, applied, early, removed, crashed, reconfigured>>
        /\ ~removed => InWalk /\ Sent /\ crashed # "frame" /\ (early => reconfigured)
    BY <1>2, SearchKeeps DEF Chain, Searching
  <1>4. InSlots' /\ NoFilterSkipped'
    BY <1>3 DEF InSlots, NoFilterSkipped
  <1>5. ASSUME ~removed PROVE InWalk' /\ Sent'
    <2>1. InWalk /\ Sent /\ ~Mine(walk.i) /\ (walk.next_filter = 0 \/ walk.seen < walk.best)
      BY <1>3, <1>5
    <2>2. walk.seen > walk.last_id /\ filters[walk.i].id = walk.seen
      BY <2>1 DEF InWalk
    <2>3. InWalk'
      BY <1>2, <1>3, <2>1, <2>2 DEF InWalk, Searching
    <2>4. \A j \in Slots : j < walk'.i => j < walk.i \/ j = walk.i
      BY <1>1, <1>2 DEF Walk, Slots
    <2>5. \A j \in Slots : j < walk'.i /\ filters[j].id \in steady /\ filters[j].id > walk.last_id
             => walk.seen <= filters[j].id
      <3>1. \A j \in Slots : j < walk.i /\ filters[j].id \in steady /\ filters[j].id > walk.last_id
               => walk.next_filter # 0 /\ walk.best <= filters[j].id
        BY <2>1 DEF Sent, Searching
      <3>2. walk.seen \in Nat /\ walk.best \in Nat /\ \A j \in Slots : filters[j].id \in Nat
        BY <1>1 DEF IInv, TypeOK, FilterTableType, Walk
      <3> QED
        BY <2>1, <2>2, <2>4, <3>1, <3>2
    <2>6. Sent'
      <3>1. walk'.next_filter # 0
        BY <1>2 DEF Slots
      <3> QED
        BY <1>2, <1>3, <2>1, <2>5, <3>1 DEF Sent, Searching
    <2> QED
      BY <2>3, <2>6
  <1>6. Undisturbed'
    BY <1>3, <1>5 DEF Undisturbed
  <1> QED
    BY <1>3, <1>4, <1>6 DEF IInv

(* A disabled filter is not steady, as ids are unique; a slot that is being *)
(* added is disabled.                                                      *)
LEMMA NotSteady ==
    ASSUME IInv, pc["frame"] # "end", NEW i \in Slots
    PROVE  /\ ~filters[i].enabled => filters[i].id \notin steady
           /\ filters[i].enabled => ~Mine(i)
  <1>1. UniqueIds /\ BeingAdded /\ FilterTableType /\ steady \subseteq EnabledIds
    BY DEF IInv, InTable, TypeOK
  <1>2. ASSUME filters[i].id \in steady PROVE filters[i].enabled
    <2>1. PICK k \in Slots : filters[k].id = filters[i].id /\ filters[k].enabled
                             /\ filters[k].id # 0
      BY <1>1, <1>2, SteadySlot
    <2> QED
      BY <1>1, <2>1 DEF UniqueIds
  <1> QED
    BY <1>1, <1>2 DEF BeingAdded, Mine

(* Another read of the slot, at the same slot.                             *)
LEMMA Reread ==
    ASSUME IInv, watch, OnTable, OnWalk, pc["frame"] \in Searching, walk.i \in Slots,
           NEW to \in {"enabled", "compare"}, pc' = [pc EXCEPT !["frame"] = to],
           to = "compare" => walk.next_filter # 0,
           NEW id \in Nat, walk' = [walk EXCEPT !.seen = id],
           ~removed => /\ id = filters[walk.i].id /\ id > walk.last_id
                       /\ to = "compare" => ~Mine(walk.i)
    PROVE  IInv'
  <1>1. walk \in Walk
    BY DEF IInv, TypeOK, FilterTableType
  <1>2. /\ walk' \in Walk /\ walk'.i = walk.i /\ walk'.next_filter = walk.next_filter
        /\ walk'.best = walk.best /\ walk'.last_id = walk.last_id /\ walk'.seen = id
    BY <1>1 DEF Walk
  <1>3. /\ TypeOK' /\ Closing' /\ InTable'
        /\ pc["main"] \notin Removing /\ pc'["main"] = pc["main"] /\ pc'["frame"] = to
        /\ \A i : Mine(i)' = Mine(i)
        /\ steady' \subseteq EnabledIds' /\ steady' \subseteq steady
        /\ UNCHANGED <<filters, applied, early, removed, crashed, reconfigured>>
        /\ ~removed => InWalk /\ Sent /\ crashed # "frame" /\ (early => reconfigured)
    BY <1>2, SearchKeeps DEF Chain
  <1>4. walk.next_filter \in Slots \/ walk.next_filter = 0
    BY <1>1 DEF Walk, Slots
  <1>5. InSlots' /\ NoFilterSkipped'
    BY <1>2, <1>3, <1>4 DEF InSlots, NoFilterSkipped
  <1>6. ASSUME ~removed PROVE InWalk' /\ Sent'
    <2>1. InWalk'
      BY <1>2, <1>3, <1>6 DEF InWalk, Searching
    <2>2. Sent'
      BY <1>2, <1>3, <1>6 DEF Sent, Searching
    <2> QED
      BY <2>1, <2>2
  <1>7. Undisturbed'
    BY <1>3, <1>6 DEF Undisturbed
  <1> QED
    BY <1>3, <1>5, <1>7 DEF IInv

LEMMA IdStep ==
    ASSUME IInv, watch, OnTable, process_id,
           go("frame", "id", IF filters[walk.i].id <= walk.last_id THEN "id" ELSE "enabled")
    PROVE  IInv'
  <1>1. pc["frame"] = "id" /\ pc["frame"] \in Searching /\ walk.i \in Slots /\ OnWalk
    BY DEF go, process_id, searching, Searching
  <1>2. walk \in Walk /\ filters[walk.i].id \in Nat /\ walk.best \in Nat /\ walk.last_id \in Nat
    BY <1>1 DEF IInv, TypeOK, FilterTableType, Walk
  <1>3. CASE filters[walk.i].id <= walk.last_id
    <2>1. walk' = [walk EXCEPT !.i = @ + 1, !.seen = 0, !.best = walk.best]
      BY <1>2, <1>3 DEF process_id, pass_by, Walk
    <2>2. pc' = [pc EXCEPT !["frame"] = "id"]
      BY <1>3 DEF go
    <2> QED
      BY <1>1, <1>2, <1>3, <2>1, <2>2, PassBy
  <1>4. CASE ~(filters[walk.i].id <= walk.last_id)
    <2>1. walk' = [walk EXCEPT !.seen = filters[walk.i].id]
      BY <1>4 DEF process_id
    <2>2. pc' = [pc EXCEPT !["frame"] = "enabled"]
      BY <1>4 DEF go
    <2>3. filters[walk.i].id > walk.last_id
      BY <1>2, <1>4
    <2> QED
      BY <1>1, <1>2, <2>1, <2>2, <2>3, Reread
  <1> QED
    BY <1>3, <1>4

LEMMA EnabledStep ==
    ASSUME IInv, watch, OnTable, process_enabled, pc["frame"] = "enabled",
           go("frame", "enabled", IF filters[walk.i].enabled /\ walk.next_filter # 0
                                  THEN "compare" ELSE "id")
    PROVE  IInv'
  <1>1. pc["frame"] \in Searching /\ pc["frame"] # "end" /\ walk.i \in Slots /\ OnWalk
    BY DEF process_enabled, Searching, IInv, InSlots
  <1>2. /\ walk \in Walk /\ filters[walk.i].id \in Nat /\ walk.seen \in Nat /\ walk.best \in Nat
        /\ filters[walk.i].enabled \in BOOLEAN
    BY <1>1 DEF IInv, TypeOK, FilterTableType, Walk
  <1>3. /\ ~filters[walk.i].enabled => filters[walk.i].id \notin steady
        /\ filters[walk.i].enabled => ~Mine(walk.i)
    BY <1>1, NotSteady
  <1>4. ~removed => walk.seen > walk.last_id /\ filters[walk.i].id = walk.seen
    BY DEF IInv, Undisturbed, InWalk
  <1>5. CASE ~filters[walk.i].enabled
    <2>1. walk' = [walk EXCEPT !.i = @ + 1, !.seen = 0, !.best = walk.best]
      BY <1>2, <1>5 DEF process_enabled, pass_by, Walk
    <2>2. pc' = [pc EXCEPT !["frame"] = "id"]
      BY <1>5 DEF go
    <2> QED
      BY <1>1, <1>2, <1>3, <1>5, <2>1, <2>2, PassBy
  <1>6. CASE filters[walk.i].enabled /\ walk.next_filter = 0
    <2>1. choose /\ pc' = [pc EXCEPT !["frame"] = "id"]
      BY <1>6 DEF process_enabled, go
    <2> QED
      BY <1>1, <1>3, <1>6, <2>1, Choose
  <1>7. CASE filters[walk.i].enabled /\ walk.next_filter # 0
    <2>1. PICK id \in {walk.seen, filters[walk.i].id} : walk' = [walk EXCEPT !.seen = id]
      BY <1>7 DEF process_enabled
    <2>2. pc' = [pc EXCEPT !["frame"] = "compare"]
      BY <1>7 DEF go
    <2> QED
      BY <1>1, <1>2, <1>3, <1>4, <1>7, <2>1, <2>2, Reread
  <1> QED
    BY <1>5, <1>6, <1>7

LEMMA CompareStep ==
    ASSUME IInv, watch, OnTable, process_compare, go("frame", "compare", "id")
    PROVE  IInv'
  <1>1. /\ pc["frame"] = "compare" /\ pc["frame"] \in Searching /\ OnWalk
        /\ pc' = [pc EXCEPT !["frame"] = "id"]
        /\ walk.i \in Slots /\ walk.next_filter \in Slots /\ walk.next_filter # 0
    BY DEF go, process_compare, Searching, IInv, InSlots, Slots
  <1>2. PICK id \in {walk.best, filters[walk.next_filter].id} :
           IF walk.seen < id THEN choose
           ELSE walk' = [walk EXCEPT !.i = @ + 1, !.seen = 0, !.best = id]
    BY DEF process_compare
  <1>3. /\ walk.seen \in Nat /\ walk.best \in Nat /\ filters[walk.next_filter].id \in Nat
        /\ id \in Nat /\ filters[walk.i].id \in Nat
    BY <1>1 DEF IInv, TypeOK, FilterTableType, Walk
  <1>4. ~removed => /\ id = walk.best /\ filters[walk.i].id = walk.seen /\ ~Mine(walk.i)
    BY <1>1 DEF IInv, Undisturbed, InWalk
  <1>5. CASE walk.seen < id
    BY <1>1, <1>2, <1>4, <1>5, Choose
  <1>6. CASE ~(walk.seen < id)
    <2>1. walk' = [walk EXCEPT !.i = @ + 1, !.seen = 0, !.best = id]
      BY <1>2, <1>6
    <2>2. id <= walk.seen
      BY <1>3, <1>6
    <2> QED
      BY <1>1, <1>3, <1>4, <2>1, <2>2, PassBy
  <1> QED
    BY <1>5, <1>6

(* At the end of the search there is no steady filter between last_id and  *)
(* the choice; without a choice all of them are behind last_id.            *)
LEMMA SearchDone ==
    ASSUME IInv, pc["frame"] = "id", ~searching, ~removed, NEW x \in steady
    PROVE  /\ x <= walk.last_id => x \in applied
           /\ x > walk.last_id => walk.next_filter # 0 /\ walk.best <= x
           /\ x \in Nat
  <1>1. TypeOK /\ walk \in Walk /\ FilterTableType /\ steady \subseteq EnabledIds
    BY DEF IInv, TypeOK, FilterTableType
  <1>2. Sent
    BY DEF IInv, Undisturbed
  <1>3. PICK k \in Slots : filters[k].id = x
    BY <1>1, SteadySlot
  <1>4. k < walk.i
    BY <1>1, <1>3 DEF Walk, Slots, searching
  <1>5. x \in Nat
    BY <1>1, SteadySlot
  <1> QED
    BY <1>2, <1>3, <1>4, <1>5 DEF Sent, Searching

LEMMA ProcessedStep ==
    ASSUME IInv, watch, Elsewhere, none_left, go("frame", "id", "processed")
    PROVE  IInv'
  <1>1. /\ pc["frame"] = "id" /\ pc["frame"] \in Searching
        /\ pc' = [pc EXCEPT !["frame"] = "processed"]
        /\ ~searching /\ walk.next_filter = 0
    BY DEF go, Searching, none_left
  <1>2. OnWalk /\ OnTable /\ walk' = walk /\ walk' \in Walk
    BY DEF Elsewhere, filtervars, table, history, OnWalk, IInv, TypeOK, FilterTableType
  <1>3. /\ TypeOK' /\ Closing' /\ InTable'
        /\ pc["main"] \notin Removing /\ pc'["main"] = pc["main"] /\ pc'["frame"] = "processed"
        /\ steady' \subseteq EnabledIds' /\ steady' \subseteq steady
        /\ UNCHANGED <<filters, applied, early, removed, crashed, reconfigured>>
        /\ ~removed => InWalk /\ Sent /\ crashed # "frame" /\ (early => reconfigured)
    BY <1>1, <1>2, SearchKeeps
  <1>4. InSlots'
    BY <1>3 DEF InSlots
  <1>5. Undisturbed'
    BY <1>3 DEF Undisturbed, InWalk, Sent, Searching
  <1>6. ASSUME ~removed PROVE steady \subseteq applied
    <2> SUFFICES ASSUME NEW x \in steady PROVE x \in applied
      OBVIOUS
    <2>1. walk.last_id \in Nat
      BY DEF IInv, TypeOK, FilterTableType, Walk
    <2> QED
      BY <1>1, <1>6, <2>1, SearchDone
  <1>7. NoFilterSkipped'
    BY <1>3, <1>6 DEF NoFilterSkipped
  <1> QED
    BY <1>3, <1>4, <1>5, <1>7 DEF IInv

LEMMA LastIdStep ==
    ASSUME IInv, watch, OnTable, process_last_id, go("frame", "id", "entry")
    PROVE  IInv'
  <1>1. /\ pc["frame"] = "id" /\ pc["frame"] \in Searching
        /\ pc' = [pc EXCEPT !["frame"] = "entry"] /\ OnWalk
        /\ ~searching /\ walk.next_filter # 0
    BY DEF go, Searching, process_last_id
  <1>2. walk \in Walk /\ FilterTableType /\ walk.next_filter \in Slots
    BY <1>1 DEF IInv, TypeOK, FilterTableType, Walk, Slots
  <1>3. PICK id \in {walk.best, filters[walk.next_filter].id} :
           walk' = [walk EXCEPT !.last_id = id, !.best = 0]
    BY DEF process_last_id
  <1>4. id \in Nat /\ walk.best \in Nat /\ walk.last_id \in Nat
    BY <1>2 DEF Walk, FilterTableType
  <1>5. walk' \in Walk /\ walk'.next_filter = walk.next_filter /\ walk'.last_id = id
    BY <1>2, <1>3, <1>4 DEF Walk
  <1>6. /\ TypeOK' /\ Closing' /\ InTable'
        /\ pc["main"] \notin Removing /\ pc'["main"] = pc["main"] /\ pc'["frame"] = "entry"
        /\ \A i : Mine(i)' = Mine(i)
        /\ steady' \subseteq EnabledIds' /\ steady' \subseteq steady
        /\ UNCHANGED <<filters, applied, early, removed, crashed, reconfigured>>
        /\ ~removed => InWalk /\ Sent /\ crashed # "frame" /\ (early => reconfigured)
    BY <1>1, <1>5, SearchKeeps DEF Chain
  <1>7. InSlots' /\ NoFilterSkipped'
    BY <1>2, <1>5, <1>6 DEF InSlots, NoFilterSkipped
  <1>8. ASSUME ~removed PROVE InWalk' /\ Sent'
    <2>1. /\ id = walk.best /\ walk.best > walk.last_id
          /\ filters[walk.next_filter].id = walk.best /\ ~Mine(walk.next_filter)
      BY <1>1, <1>3, <1>6, <1>8 DEF InWalk
    <2>2. id # 0
      BY <1>4, <2>1
    <2>3. InWalk'
      BY <1>5, <1>6, <2>1, <2>2 DEF InWalk, Searching
    <2>4. \A x \in steady : x < id => x \in applied
      <3> SUFFICES ASSUME NEW x \in steady, x < id PROVE x \in applied
        OBVIOUS
      <3>1. /\ x <= walk.last_id => x \in applied
            /\ x > walk.last_id => walk.best <= x
            /\ x \in Nat
        BY <1>1, <1>8, SearchDone
      <3> QED
        BY <1>4, <2>1, <3>1
    <2>5. Sent'
      BY <1>5, <1>6, <2>4 DEF Sent, Searching
    <2> QED
      BY <2>3, <2>5
  <1>9. Undisturbed'
    BY <1>6, <1>8 DEF Undisturbed
  <1> QED
    BY <1>6, <1>7, <1>9 DEF IInv

(* The filter of the choice is in the table, ready, unless one has been    *)
(* removed.                                                                *)
LEMMA ChoiceReady ==
    ASSUME IInv, pc["frame"] \in {"entry", "call"}
    PROVE  /\ walk.next_filter \in Slots
           /\ ~removed => /\ filters[walk.next_filter].loaded
                          /\ opened[walk.next_filter] \/ reconfigured
  <1>1. walk.next_filter \in Slots /\ ReadySlots
    BY DEF IInv, InSlots, InTable
  <1>2. ~removed => filters[walk.next_filter].id # 0 /\ ~Mine(walk.next_filter)
    BY DEF IInv, Undisturbed, InWalk
  <1> QED
    BY <1>1, <1>2 DEF ReadySlots

(* A new search behind last_id.                                            *)
LEMMA SearchAgain ==
    ASSUME walk \in Walk
    PROVE  /\ search(walk.last_id) \in Walk
           /\ search(walk.last_id).last_id = walk.last_id
           /\ search(walk.last_id).i = 1 /\ search(walk.last_id).next_filter = 0
  BY DEF search, Walk

LEMMA NoEntryStep ==
    ASSUME IInv, watch, OnTable, process_no_entry, go("frame", "entry", "id")
    PROVE  IInv'
  <1>1. /\ pc["frame"] = "entry" /\ pc' = [pc EXCEPT !["frame"] = "id"]
        /\ ~filters[walk.next_filter].loaded
        /\ filters' = [filters EXCEPT ![walk.next_filter].enabled = FALSE]
        /\ walk' = search(walk.last_id)
        /\ UNCHANGED <<initialized, opened, call, cursor, applied, early, removed, crashed>>
    BY DEF go, process_no_entry, history
  <1>2. walk.next_filter \in Slots /\ removed
    BY <1>1, ChoiceReady
  <1>3. walk' \in Walk
    BY <1>1, SearchAgain DEF IInv, TypeOK, FilterTableType
  <1>4. filters' \in [Slots -> Filter]
    BY <1>1, SetEnabledType DEF IInv, TypeOK
  <1>5. FilterTableType'
    BY <1>1, <1>3, <1>4 DEF IInv, TypeOK, FilterTableType, Filter
  <1>6. /\ TypeOK' /\ Closing' /\ InTable' /\ steady' \subseteq EnabledIds'
        /\ pc'["frame"] = "id" /\ pc'["main"] = pc["main"] /\ pc["main"] \notin Removing
    BY <1>1, <1>2, <1>5, FrameKeeps DEF FramePlaces, Chain
  <1>7. InSlots' /\ NoFilterSkipped' /\ Undisturbed'
    BY <1>1, <1>2, <1>6 DEF InSlots, NoFilterSkipped, Undisturbed
  <1> QED
    BY <1>6, <1>7 DEF IInv

LEMMA EntryStep ==
    ASSUME IInv, watch, OnTable, process_entry, go("frame", "entry", "call")
    PROVE  IInv'
  <1>1. /\ pc["frame"] = "entry" /\ pc' = [pc EXCEPT !["frame"] = "call"]
        /\ UNCHANGED <<initialized, filters, opened, call, cursor, walk, applied, early, removed,
                       crashed>>
    BY DEF go, process_entry, filtervars, table, history
  <1>2. FilterTableType'
    BY <1>1 DEF IInv, TypeOK, FilterTableType
  <1>3. /\ TypeOK' /\ Closing' /\ InTable' /\ steady' \subseteq EnabledIds'
        /\ steady' \subseteq steady /\ pc'["event"] = pc["event"]
        /\ pc'["frame"] = "call" /\ pc'["main"] = pc["main"] /\ pc["main"] \notin Removing
    BY <1>1, <1>2, FrameKeeps DEF FramePlaces, Chain
  <1>4. InSlots' /\ NoFilterSkipped'
    BY <1>1, <1>3, ChoiceReady DEF InSlots, NoFilterSkipped
  <1>5. \A i : Mine(i)' = Mine(i)
    BY <1>1, <1>3 DEF Mine
  <1>6. ASSUME ~removed PROVE InWalk' /\ Sent'
    <2>1. InWalk /\ Sent
      BY <1>6 DEF IInv, Undisturbed
    <2> QED
      BY <1>1, <1>3, <1>5, <2>1 DEF InWalk, Sent, Searching
  <1>7. Undisturbed'
    BY <1>1, <1>6 DEF IInv, Undisturbed, OnTable
  <1> QED
    BY <1>3, <1>4, <1>7 DEF IInv

LEMMA CallStep ==
    ASSUME IInv, watch, OnTable, process_call, go("frame", "call", "id")
    PROVE  IInv'
  <1>1. /\ pc["frame"] = "call" /\ pc' = [pc EXCEPT !["frame"] = "id"]
        /\ walk' = search(walk.last_id)
        /\ UNCHANGED <<initialized, filters, opened, call, cursor, removed>>
    BY DEF go, process_call, table
  <1>2. walk \in Walk /\ walk' \in Walk /\ walk'.last_id = walk.last_id /\ walk'.i = 1
        /\ walk'.next_filter = 0 /\ walk.last_id \in Nat
    BY <1>1, SearchAgain DEF IInv, TypeOK, FilterTableType, Walk
  <1>3. /\ applied' \in {applied, applied \union {walk.last_id}}
        /\ early' \in BOOLEAN /\ crashed' \in {crashed, "frame"}
    BY DEF process_call, IInv, TypeOK, FilterTableType
  <1>4. FilterTableType'
    BY <1>1, <1>2, <1>3 DEF IInv, TypeOK, FilterTableType
  <1>5. /\ TypeOK' /\ Closing' /\ InTable' /\ steady' \subseteq EnabledIds'
        /\ steady' \subseteq steady /\ steady' \subseteq Nat \ {0}
        /\ pc'["frame"] = "id" /\ pc'["main"] = pc["main"] /\ pc["main"] \notin Removing
    BY <1>1, <1>4, FrameKeeps DEF FramePlaces, Chain
  <1>6. InSlots' /\ NoFilterSkipped'
    BY <1>5 DEF InSlots, NoFilterSkipped
  <1>7. ASSUME ~removed
        PROVE  InWalk' /\ Sent' /\ crashed' # "frame" /\ (early' => reconfigured)
    <2>1. InWalk /\ Sent /\ crashed # "frame" /\ (early => reconfigured)
      BY <1>7 DEF IInv, Undisturbed
    <2>2. filters[walk.next_filter].loaded /\ (opened[walk.next_filter] \/ reconfigured)
      BY <1>1, <1>7, ChoiceReady
    <2>3. /\ applied' = applied \union {walk.last_id} /\ crashed' = crashed
          /\ early' = (early \/ ~opened[walk.next_filter])
      BY <2>2 DEF process_call
    <2>4. InWalk'
      BY <1>2, <1>5 DEF InWalk
    <2>5. \A x \in steady : x <= walk.last_id => x < walk.last_id \/ x = walk.last_id
      BY <1>2 DEF IInv, TypeOK
    <2>6. \A x \in steady : x <= walk.last_id => x \in applied'
      BY <1>1, <2>1, <2>3, <2>5 DEF Sent
    <2>7. Sent'
      BY <1>2, <1>5, <2>6 DEF Sent, Slots
    <2> QED
      BY <2>1, <2>2, <2>3, <2>4, <2>7
  <1>8. Undisturbed'
    BY <1>1, <1>7 DEF Undisturbed, OnTable
  <1> QED
    BY <1>5, <1>6, <1>8 DEF IInv

LEMMA FrameStep ==
    ASSUME IInv, watch, crashed = "no", frame_thread
    PROVE  IInv'
  <1>1. CASE go("frame", "status", IF running THEN "process" ELSE "end") /\ Elsewhere
    BY <1>1, FrameOutside DEF go
  <1>2. CASE go("frame", "processed", "status") /\ Elsewhere
    BY <1>2, FrameOutside DEF go
  <1> QED
    BY <1>1, <1>2, BeginStep, IdStep, EnabledStep, CompareStep, ProcessedStep, LastIdStep,
       NoEntryStep, EntryStep, CallStep DEF frame_thread

-----------------------------------------------------------------------------
(* The event thread.  What the walk has read stays as it is: until a       *)
(* removal a slot keeps its id once it has one, and a filter that has been *)
(* added is not added again.                                               *)

LEMMA EventKeeps ==
    ASSUME IInv, watch, FilterTableType', NEW to \in EventPlaces,
           pc' = [pc EXCEPT !["event"] = to],
           UNCHANGED <<running, cursor, walk, applied, early>>,
           commands' \in {commands} \union {commands - 1}, commands' # commands => commands > 0,
           reconfigured' \in BOOLEAN, reconfigured => reconfigured',
           removed => removed', crashed' \in {crashed, "event"},
           to \in {"config_close", "config_init"} => reconfigured',
           pc["frame"] # "end" =>
              /\ initialized' /\ BeingAdded' /\ ReadySlots' /\ UniqueIds'
              /\ ~removed' => \A i \in Slots :
                    filters[i].id # 0 => filters'[i].id = filters[i].id /\ (Mine(i)' => Mine(i))
    PROVE  IInv'
  <1>1. /\ TypeOK' /\ pc'["event"] = to
        /\ pc'["main"] = pc["main"] /\ pc'["frame"] = pc["frame"]
    <2>1. TypeOK /\ running' \in BOOLEAN
      BY DEF IInv, TypeOK
    <2> QED
      BY <2>1, StepType
  <1>2. /\ steady' \subseteq EnabledIds'
        /\ pc["frame"] # "process" => steady' \subseteq steady
    BY SteadyStep DEF IInv
  <1>3. Closing' /\ InSlots'
    BY <1>1 DEF IInv, Closing, InSlots
  <1>4. InTable'
    BY <1>1 DEF InTable
  <1>5. NoFilterSkipped'
    BY <1>1, <1>2 DEF IInv, NoFilterSkipped
  <1>6. ASSUME ~removed' PROVE InWalk' /\ Sent' /\ crashed' # "frame" /\ (early' => reconfigured')
    <2>1. InWalk /\ Sent /\ crashed' # "frame" /\ (early' => reconfigured')
      BY <1>6 DEF IInv, Undisturbed
    <2>2. CASE pc["frame"] \notin Chain
      <3>1. pc'["frame"] \notin {"id", "enabled", "compare", "entry", "call"}
        BY <1>1, <2>2 DEF Chain
      <3> QED
        BY <2>1, <3>1 DEF InWalk, Sent, Searching
    <2>3. CASE pc["frame"] \in Chain
      <3>1. pc["frame"] # "end" /\ steady' \subseteq steady
        BY <1>2, <2>3 DEF Chain
      <3>2. \A i \in Slots :
               filters[i].id # 0 => filters'[i].id = filters[i].id /\ (Mine(i)' => Mine(i))
        BY <1>6, <3>1
      <3>3. InWalk'
        <4>1. walk \in Walk
          BY DEF IInv, TypeOK, FilterTableType
        <4>2. /\ pc["frame"] \in {"enabled", "compare"} =>
                    walk.i \in Slots /\ filters[walk.i].id # 0
              /\ pc["frame"] \in Searching /\ walk.next_filter # 0 =>
                    walk.next_filter \in Slots /\ filters[walk.next_filter].id # 0
              /\ pc["frame"] \in {"entry", "call"} =>
                    walk.next_filter \in Slots /\ filters[walk.next_filter].id # 0
          BY <2>1, <4>1 DEF IInv, InSlots, InWalk, Walk, Slots
        <4> QED
          BY <1>1, <2>1, <3>2, <4>2 DEF InWalk, Searching
      <3>4. \A j \in Slots : filters'[j].id \in steady' => filters[j].id = filters'[j].id
        <4> SUFFICES ASSUME NEW j \in Slots, filters'[j].id \in steady'
                     PROVE  filters[j].id = filters'[j].id
          OBVIOUS
        <4>1. filters'[j].id \in steady /\ UniqueIds'
          BY <3>1
        <4>2. PICK k \in Slots : filters[k].id = filters'[j].id /\ filters[k].id # 0
          BY <4>1, SteadySlot DEF IInv, TypeOK
        <4>3. filters'[k].id = filters'[j].id /\ filters'[k].id # 0
          BY <3>2, <4>2
        <4>4. k = j
          BY <4>1, <4>3 DEF UniqueIds
        <4> QED
          BY <4>2, <4>4
      <3>5. Sent'
        BY <1>1, <2>1, <3>1, <3>4 DEF Sent
      <3> QED
        BY <2>1, <3>3, <3>5
    <2> QED
      BY <2>2, <2>3
  <1>7. Undisturbed'
    BY <1>6 DEF Undisturbed
  <1> QED
    BY <1>1, <1>2, <1>3, <1>4, <1>5, <1>7 DEF IInv

(* A call into a filter changes nothing in the table.                      *)
LEMMA EnterKeeps ==
    ASSUME IInv, NEW t \in {"event", "main"}, NEW i, NEW b \in BOOLEAN, enter(t, i, b)
    PROVE  /\ opened' \in [Slots -> BOOLEAN] /\ crashed' \in {crashed, t}
           /\ \A j \in Slots : j # i => opened'[j] = opened[j]
           /\ i \in Slots /\ filters[i].loaded => opened'[i] = b
  BY DEF enter, IInv, TypeOK, FilterTableType

(* The commands and answers that change no more than the enabled flag of a *)
(* filter that is not being added, or none.                                *)
LEMMA EnableStep ==
    ASSUME IInv, watch, crashed = "no", NEW to \in EventPlaces, to \notin Loading,
           pc["event"] \notin Loading, pc' = [pc EXCEPT !["event"] = to],
           UNCHANGED <<running, initialized, cursor, walk, history>>,
           commands' \in {commands} \union {commands - 1}, commands' # commands => commands > 0,
           reconfigured' \in BOOLEAN, reconfigured => reconfigured',
           to \in {"config_close", "config_init"} => reconfigured',
           call' \in [slot : 0 .. MaxFilters, id : Nat],
           opened' \in [Slots -> BOOLEAN], crashed' \in {crashed, "event"},
           opened' = opened \/ reconfigured',
           \/ filters' = filters
           \/ \E i, b : b \in BOOLEAN /\ filters' = [filters EXCEPT ![i].enabled = b]
    PROVE  IInv'
  <1>1. /\ filters' \in [Slots -> Filter]
        /\ \A j \in Slots : /\ filters'[j].id = filters[j].id
                              /\ filters'[j].loaded = filters[j].loaded
    <2>1. filters \in [Slots -> Filter]
      BY DEF IInv, TypeOK, FilterTableType, Filter
    <2> QED
      BY <2>1, SetEnabledType DEF IInv, TypeOK
  <1>2. FilterTableType'
    BY <1>1 DEF IInv, TypeOK, FilterTableType, Filter, history
  <1>3. pc'["event"] = to /\ pc'["frame"] = pc["frame"]
    BY DEF IInv, TypeOK
  <1>4. \A i : ~Mine(i)' /\ ~Mine(i)
    BY <1>3 DEF Mine
  <1>5. ASSUME pc["frame"] # "end"
        PROVE  initialized' /\ BeingAdded' /\ ReadySlots' /\ UniqueIds'
    <2>1. initialized /\ ReadySlots /\ UniqueIds
      BY <1>5 DEF IInv, InTable
    <2>2. BeingAdded'
      BY <1>3 DEF BeingAdded
    <2>3. ReadySlots' /\ UniqueIds'
      BY <1>1, <1>4, <2>1 DEF ReadySlots, UniqueIds
    <2> QED
      BY <2>1, <2>2, <2>3
  <1>6. UNCHANGED <<applied, early, removed>>
    BY DEF history
  <1> QED
    BY <1>1, <1>2, <1>4, <1>5, <1>6, EventKeeps

LEMMA ServeEnable ==
    ASSUME IInv, watch, crashed = "no", serve_enable
    PROVE  IInv'
  <1>1. PICK name \in Names, on \in BOOLEAN :
           /\ go("event", "wait", "wait") /\ command /\ set_enabled(name, on)
           /\ UNCHANGED reconfigured
    BY DEF serve_enable
  <1>2. /\ filters' = [filters EXCEPT ![Min(Named(name))].enabled = on]
        /\ UNCHANGED <<initialized, opened, call, cursor, walk, history, crashed, running,
                       reconfigured>>
        /\ commands > 0 /\ commands' = commands - 1
    BY <1>1 DEF set_enabled, command
  <1>3. "wait" \in EventPlaces /\ "wait" \notin Loading
    BY DEF EventPlaces, Loading, Removing
  <1>4. pc["event"] = "wait" /\ pc' = [pc EXCEPT !["event"] = "wait"]
    BY <1>1 DEF go
  <1>5. /\ call' \in [slot : 0 .. MaxFilters, id : Nat] /\ opened' \in [Slots -> BOOLEAN]
        /\ reconfigured' \in BOOLEAN
    BY <1>2 DEF IInv, TypeOK, FilterTableType
  <1> QED
    BY <1>2, <1>3, <1>4, <1>5, EnableStep

(* tc_filter_find gives a slot.                                            *)
LEMMA NamedSlot ==
    ASSUME NEW name, find(name)
    PROVE  Min(Named(name)) \in Slots
  <1>1. Named(name) \in SUBSET Nat /\ Named(name) # {} /\ Named(name) \subseteq Slots
    BY DEF Named, Slots, find
  <1> QED
    BY <1>1, MinOf

LEMMA ServeConfig ==
    ASSUME IInv, watch, crashed = "no", serve_config
    PROVE  IInv'
  <1>1. PICK name \in Names :
           /\ command
           /\ \/ go("event", "wait", "config_close") /\ configure_begin(name)
              \/ go("event", "wait", "wait") /\ configure_no_entry(name)
           /\ reconfigured' = TRUE
    BY DEF serve_config
  <1>2. PICK to \in {"wait", "config_close"} :
           pc["event"] = "wait" /\ pc' = [pc EXCEPT !["event"] = to]
    BY <1>1 DEF go
  <1>3. to \in EventPlaces /\ to \notin Loading /\ pc["event"] \notin Loading
    BY <1>2 DEF EventPlaces, Loading, Removing
  <1>4. call' \in [slot : 0 .. MaxFilters, id : Nat]
    <2>1. CASE configure_begin(name)
      <3>1. Min(Named(name)) \in Slots
        BY <2>1, NamedSlot DEF configure_begin
      <3>2. filters[Min(Named(name))].id \in Nat /\ Min(Named(name)) \in 0 .. MaxFilters
        BY <3>1 DEF IInv, TypeOK, FilterTableType, Slots
      <3> QED
        BY <2>1, <3>2 DEF configure_begin
    <2>2. CASE configure_no_entry(name)
      BY <2>2 DEF configure_no_entry, set_enabled, IInv, TypeOK, FilterTableType
    <2> QED
      BY <1>1, <2>1, <2>2
  <1>5. /\ UNCHANGED <<running, initialized, opened, cursor, walk, history, crashed>>
        /\ filters' = filters \/ filters' = [filters EXCEPT ![Min(Named(name))].enabled = FALSE]
        /\ commands > 0 /\ commands' = commands - 1
    BY <1>1 DEF configure_begin, configure_no_entry, set_enabled, command, table
  <1>6. opened' \in [Slots -> BOOLEAN]
    BY <1>5 DEF IInv, TypeOK, FilterTableType
  <1> QED
    BY <1>1, <1>2, <1>3, <1>4, <1>5, <1>6, EnableStep

(* A change of one slot.                                                   *)
LEMMA SlotUpdate ==
    ASSUME FilterTableType, NEW i \in Slots, NEW r \in Filter, filters' = [filters EXCEPT ![i] = r]
    PROVE  /\ filters' \in [Slots -> Filter] /\ filters'[i] = r
           /\ \A j \in Slots : j # i => filters'[j] = filters[j]
  BY DEF FilterTableType, Filter

LEMMA ServeLoad ==
    ASSUME IInv, watch, crashed = "no", serve_load
    PROVE  IInv'
  <1>1. PICK name \in Names :
           /\ go("event", "wait", "load") /\ command /\ add_reserve(name)
           /\ UNCHANGED reconfigured
    BY DEF serve_load
  <1> DEFINE i == Min(Free)
             r == [filters[i] EXCEPT !.name = name, !.enabled = FALSE]
  <1>2. /\ pc["event"] = "wait" /\ pc' = [pc EXCEPT !["event"] = "load"]
        /\ UNCHANGED <<running, initialized, opened, cursor, walk, applied, early, removed, crashed,
                       reconfigured>>
        /\ commands > 0 /\ commands' = commands - 1
        /\ Free # {} /\ filters' = [filters EXCEPT ![i].name = name, ![i].enabled = FALSE]
        /\ call' = [slot |-> i, id |-> NextId]
    BY <1>1 DEF go, command, add_reserve, history
  <1>3. FilterTableType
    BY DEF IInv, TypeOK
  <1>4. i \in Slots /\ filters[i].id = 0
    <2>1. Free \in SUBSET Nat
      BY DEF Free, Slots
    <2>2. i \in Free
      BY <1>2, <2>1, MinOf
    <2> QED
      BY <2>2 DEF Free
  <1>5. /\ r \in Filter /\ r.id = filters[i].id /\ r.loaded = filters[i].loaded
        /\ r.enabled = FALSE
    BY <1>3, <1>4 DEF FilterTableType, Filter
  <1>6. /\ filters' \in [Slots -> Filter] /\ filters'[i] = r
        /\ \A j \in Slots : j # i => filters'[j] = filters[j]
    <2>1. filters' = [filters EXCEPT ![i] = r]
      BY <1>2, <1>3, <1>4 DEF FilterTableType
    <2> HIDE DEF r
    <2> QED
      BY <1>3, <1>4, <1>5, <2>1, SlotUpdate
  <1> HIDE DEF r, i
  <1>7. \A j \in Slots : filters'[j].id = filters[j].id /\ filters'[j].loaded = filters[j].loaded
    BY <1>5, <1>6
  <1>8. NextId \in Nat \ {0} /\ \A j \in Slots : filters[j].id < NextId
    BY <1>3, NextIdAbove
  <1>9. FilterTableType'
    <2>1. i \in 0 .. MaxFilters
      BY <1>4 DEF Slots
    <2>2. call' \in [slot : 0 .. MaxFilters, id : Nat]
      BY <1>2, <1>8, <2>1
    <2> QED
      BY <1>2, <1>3, <1>6, <2>2 DEF FilterTableType, Filter
  <1>10. pc'["event"] = "load" /\ pc'["frame"] = pc["frame"]
    BY <1>2 DEF IInv, TypeOK
  <1>11. call'.slot = i /\ call'.id = NextId
    BY <1>2
  <1>12. \A j : ~Mine(j) /\ (Mine(j)' => j = i)
    BY <1>2, <1>11 DEF Mine, Loading, Removing
  <1>13. ASSUME pc["frame"] # "end"
         PROVE  initialized' /\ BeingAdded' /\ ReadySlots' /\ UniqueIds'
    <2>1. initialized /\ ReadySlots /\ UniqueIds
      BY <1>13 DEF IInv, InTable
    <2>2. BeingAdded'
      BY <1>4, <1>5, <1>6, <1>7, <1>8, <1>10, <1>11 DEF BeingAdded
    <2>3. ReadySlots' /\ UniqueIds'
      BY <1>2, <1>7, <1>12, <2>1 DEF ReadySlots, UniqueIds
    <2> QED
      BY <1>2, <2>1, <2>2, <2>3
  <1>14. \A j \in Slots :
            filters[j].id # 0 => filters'[j].id = filters[j].id /\ (Mine(j)' => Mine(j))
    BY <1>4, <1>7, <1>12
  <1>15. "load" \in EventPlaces /\ reconfigured' \in BOOLEAN
    BY <1>2 DEF EventPlaces, IInv, TypeOK
  <1> QED
    BY <1>2, <1>9, <1>13, <1>14, <1>15, EventKeeps

(* The steps of an addition that change no more than the slot of the call. *)
LEMMA AddStep ==
    ASSUME IInv, watch, crashed = "no", pc["event"] \in Loading, NEW to \in EventPlaces,
           pc' = [pc EXCEPT !["event"] = to], OnTable,
           UNCHANGED <<initialized, call, cursor, walk, applied, early>>,
           removed => removed', removed' \in BOOLEAN, crashed' \in {crashed, "event"},
           to \notin {"config_close", "config_init"},
           opened' \in [Slots -> BOOLEAN], filters' \in [Slots -> Filter],
           \A j \in Slots : j # call.slot => opened'[j] = opened[j] /\ filters'[j] = filters[j],
           pc["frame"] # "end" =>
              LET f  == filters[call.slot]
                  f2 == filters'[call.slot]
              IN /\ IF to \in Loading THEN
                       /\ ~f2.enabled
                       /\ IF to \in {"load", "load_id"} THEN f2.id = 0 ELSE f2.id = call.id
                       /\ to \in {"load_id", "load_init", "remove", "remove_close",
                                 "remove_unload"} => f2.loaded
                     ELSE f2.id # 0 => f2.id = call.id /\ f2.loaded
                                        /\ (opened'[call.slot] \/ reconfigured)
                 /\ to \in {"load", "load_id"} => pc["event"] \in {"load", "load_id"}
                 /\ ~removed' /\ f.id # 0 => f2.id = f.id
    PROVE  IInv'
  <1>1. UNCHANGED <<running, commands, reconfigured>>
    BY DEF OnTable
  <1>2. FilterTableType'
    BY DEF IInv, TypeOK, FilterTableType, Filter
  <1>3. pc'["event"] = to /\ pc'["frame"] = pc["frame"] /\ reconfigured' \in BOOLEAN
    BY <1>1 DEF IInv, TypeOK
  <1>4. \A j : /\ Mine(j) <=> j = call.slot
               /\ Mine(j)' <=> to \in Loading /\ j = call.slot
    BY <1>3 DEF Mine
  <1>5. ASSUME pc["frame"] # "end"
        PROVE  /\ initialized' /\ BeingAdded' /\ ReadySlots' /\ UniqueIds'
               /\ ~removed' => \A i \in Slots :
                    filters[i].id # 0 => filters'[i].id = filters[i].id /\ (Mine(i)' => Mine(i))
    <2>1. initialized /\ BeingAdded /\ ReadySlots /\ UniqueIds
      BY <1>5 DEF IInv, InTable
    <2>2. /\ call.slot \in Slots /\ call.id # 0 /\ call.id \in Nat
          /\ \A j \in Slots : filters[j].id \in Nat /\ filters'[j].id \in Nat
      BY <2>1 DEF BeingAdded, IInv, TypeOK, FilterTableType, Filter
    <2>3. \A j \in Slots : j # call.slot => filters[j].id # call.id
      <3>1. CASE pc["event"] \in {"load", "load_id"}
        BY <2>1, <2>2, <3>1 DEF BeingAdded
      <3>2. CASE pc["event"] \notin {"load", "load_id"}
        <4>1. filters[call.slot].id = call.id
          BY <2>1, <3>2 DEF BeingAdded
        <4> QED
          BY <2>1, <2>2, <4>1 DEF UniqueIds
      <3> QED
        BY <3>1, <3>2
    <2>4. BeingAdded'
      <3> SUFFICES ASSUME to \in Loading PROVE BeingAdded'
        BY <1>3 DEF BeingAdded
      <3>1. /\ ~filters'[call.slot].enabled
            /\ IF to \in {"load", "load_id"} THEN filters'[call.slot].id = 0
               ELSE filters'[call.slot].id = call.id
            /\ to \in {"load_id", "load_init", "remove", "remove_close", "remove_unload"}
                  => filters'[call.slot].loaded
            /\ to \in {"load", "load_id"} => pc["event"] \in {"load", "load_id"}
        BY <1>5
      <3>2. to \in {"load", "load_id"} => \A i \in Slots : filters'[i].id < call.id
        BY <2>1, <2>2, <3>1 DEF BeingAdded
      <3> QED
        BY <1>3, <2>2, <3>1, <3>2 DEF BeingAdded
    <2>5. ReadySlots'
      <3> SUFFICES ASSUME NEW i \in Slots, filters'[i].id # 0, ~Mine(i)'
                   PROVE  filters'[i].loaded /\ (opened'[i] \/ reconfigured')
        BY DEF ReadySlots
      <3>1. CASE i = call.slot
        BY <1>1, <1>4, <1>5, <3>1
      <3>2. CASE i # call.slot
        BY <1>1, <1>4, <2>1, <3>2 DEF ReadySlots
      <3> QED
        BY <3>1, <3>2
    <2>6. filters'[call.slot].id # 0 => filters'[call.slot].id = call.id
      BY <1>5
    <2>7. UniqueIds'
      <3> SUFFICES ASSUME NEW i \in Slots, NEW j \in Slots,
                          filters'[i].id # 0, filters'[i].id = filters'[j].id
                   PROVE  i = j
        BY DEF UniqueIds
      <3> QED
        BY <2>1, <2>2, <2>3, <2>6 DEF UniqueIds
    <2>8. ~removed' => \A i \in Slots :
              filters[i].id # 0 => filters'[i].id = filters[i].id /\ (Mine(i)' => Mine(i))
      BY <1>4, <1>5
    <2> QED
      BY <2>1, <2>4, <2>5, <2>7, <2>8
  <1> QED
    BY <1>1, <1>2, <1>3, <1>5, EventKeeps

(* What an unloading or a loading changes in the table, ...                *)
LEMMA SetLoaded ==
    ASSUME FilterTableType, NEW i, NEW b \in BOOLEAN,
           filters' = [filters EXCEPT ![i].loaded = b]
    PROVE  /\ filters' \in [Slots -> Filter]
           /\ \A j \in Slots : j # i => filters'[j] = filters[j]
           /\ i \in Slots =>
                 filters'[i] = [filters[i] EXCEPT !.loaded = b]
           /\ i \in Slots => filters'[i].id = filters[i].id /\ filters'[i].enabled = filters[i].enabled
                          /\ filters'[i].loaded = b
  <1>1. \A j \in Slots : filters[j] \in Filter
    BY DEF FilterTableType, Filter
  <1>2. \A j \in Slots :
           filters'[j] = IF j = i THEN [filters[j] EXCEPT !.loaded = b] ELSE filters[j]
    BY DEF FilterTableType
  <1>3. \A j \in Slots : [filters[j] EXCEPT !.loaded = b] \in Filter
    BY <1>1 DEF Filter
  <1>4. filters' \in [Slots -> Filter]
    BY <1>1, <1>2, <1>3 DEF FilterTableType
  <1> QED
    BY <1>1, <1>2, <1>4 DEF Filter

(* ... and the id, ...                                                     *)
LEMMA SetId ==
    ASSUME FilterTableType, NEW i, NEW n \in Nat,
           filters' = [filters EXCEPT ![i].id = n]
    PROVE  /\ filters' \in [Slots -> Filter]
           /\ \A j \in Slots : j # i => filters'[j] = filters[j]
           /\ i \in Slots =>
                 filters'[i] = [filters[i] EXCEPT !.id = n]
           /\ i \in Slots => filters'[i].id = n /\ filters'[i].enabled = filters[i].enabled
                          /\ filters'[i].loaded = filters[i].loaded
  <1>1. \A j \in Slots : filters[j] \in Filter
    BY DEF FilterTableType, Filter
  <1>2. \A j \in Slots :
           filters'[j] = IF j = i THEN [filters[j] EXCEPT !.id = n] ELSE filters[j]
    BY DEF FilterTableType
  <1>3. \A j \in Slots : [filters[j] EXCEPT !.id = n] \in Filter
    BY <1>1 DEF Filter
  <1>4. filters' \in [Slots -> Filter]
    BY <1>1, <1>2, <1>3 DEF FilterTableType
  <1> QED
    BY <1>1, <1>2, <1>4 DEF Filter

(* ... and the clearing of the slot.                                       *)
LEMMA ClearSlot ==
    ASSUME FilterTableType, NEW i,
           filters' = [filters EXCEPT ![i].name = NoName, ![i].id = 0, ![i].enabled = FALSE]
    PROVE  /\ filters' \in [Slots -> Filter]
           /\ \A j \in Slots : j # i => filters'[j] = filters[j]
           /\ i \in Slots =>
                 filters'[i] = [filters[i] EXCEPT !.name = NoName, !.id = 0, !.enabled = FALSE]
           /\ i \in Slots => filters'[i].id = 0 /\ filters'[i].enabled = FALSE
  <1>1. \A j \in Slots : filters[j] \in Filter
    BY DEF FilterTableType, Filter
  <1>2. \A j \in Slots :
           filters'[j] = IF j = i THEN [filters[j] EXCEPT !.name = NoName, !.id = 0, !.enabled = FALSE] ELSE filters[j]
    BY DEF FilterTableType
  <1>3. \A j \in Slots : [filters[j] EXCEPT !.name = NoName, !.id = 0, !.enabled = FALSE] \in Filter
    BY <1>1 DEF Filter
  <1>4. filters' \in [Slots -> Filter]
    BY <1>1, <1>2, <1>3 DEF FilterTableType
  <1> QED
    BY <1>1, <1>2, <1>4 DEF Filter

LEMMA LoadStep ==
    ASSUME IInv, watch, crashed = "no", OnTable, NEW ok \in BOOLEAN,
           \/ /\ go("event", "load", IF ok THEN "load_id" ELSE "wait")
              /\ IF ok THEN add_entry ELSE UNCHANGED filtervars
           \/ go("event", "load_id", "load_init") /\ add_id
           \/ go("event", "load_init", IF ok THEN "load_enable" ELSE "remove") /\ add_init(ok)
           \/ go("event", "load_enable", "wait") /\ add_enable
    PROVE  IInv'
  <1> USE DEF go, filtervars, table, history
  <1>1. /\ FilterTableType /\ opened \in [Slots -> BOOLEAN] /\ filters \in [Slots -> Filter]
        /\ removed \in BOOLEAN /\ call.id \in Nat /\ reconfigured' = reconfigured
        /\ call \in [slot : 0 .. MaxFilters, id : Nat] /\ reconfigured \in BOOLEAN
    BY DEF IInv, TypeOK, FilterTableType, Filter, OnTable
  <1>2. pc["frame"] # "end" => BeingAdded
    BY DEF IInv, InTable
  <1>3. /\ {"load", "load_id", "load_init", "remove"} \subseteq Loading
        /\ "wait" \notin Loading /\ "load_enable" \notin Loading
        /\ {"wait", "load_id", "load_init", "load_enable", "remove"} \subseteq EventPlaces
    BY DEF Loading, Removing, EventPlaces
  <1>4. ASSUME go("event", "load", IF ok THEN "load_id" ELSE "wait"), ok, add_entry PROVE IInv'
    <2>1. /\ filters' \in [Slots -> Filter]
          /\ \A j \in Slots : j # call.slot => filters'[j] = filters[j]
          /\ call.slot \in Slots => /\ filters'[call.slot].id = filters[call.slot].id
                                     /\ filters'[call.slot].enabled = filters[call.slot].enabled
                                     /\ filters'[call.slot].loaded
      BY <1>1, <1>4, SetLoaded DEF add_entry
    <2>2. /\ opened' \in [Slots -> BOOLEAN]
          /\ \A j \in Slots : j # call.slot => opened'[j] = opened[j]
      BY <1>1, <1>4 DEF add_entry
    <2>3. pc["event"] = "load" /\ pc' = [pc EXCEPT !["event"] = "load_id"]
      BY <1>4
    <2>4. UNCHANGED <<initialized, call, cursor, walk, applied, early, removed, crashed>>
      BY <1>4 DEF add_entry
    <2> HIDE DEF go
    <2> QED
      BY <1>1, <1>2, <1>3, <2>1, <2>2, <2>3, <2>4, AddStep DEF BeingAdded
  <1>5. ASSUME go("event", "load", "wait"), UNCHANGED filtervars PROVE IInv'
    <2>1. UNCHANGED <<initialized, filters, opened, call, cursor, walk, applied, early, removed,
                      crashed>>
      BY <1>5
    <2>2. pc["event"] = "load" /\ pc' = [pc EXCEPT !["event"] = "wait"]
      BY <1>5
    <2> HIDE DEF go
    <2> QED
      BY <1>1, <1>2, <1>3, <2>1, <2>2, AddStep DEF BeingAdded
  <1>6. ASSUME go("event", "load_id", "load_init"), add_id PROVE IInv'
    <2>1. /\ filters' \in [Slots -> Filter]
          /\ \A j \in Slots : j # call.slot => filters'[j] = filters[j]
          /\ call.slot \in Slots => /\ filters'[call.slot].id = call.id
                                     /\ filters'[call.slot].enabled = filters[call.slot].enabled
                                     /\ filters'[call.slot].loaded = filters[call.slot].loaded
      BY <1>1, <1>6, SetId DEF add_id
    <2>2. pc["event"] = "load_id" /\ pc' = [pc EXCEPT !["event"] = "load_init"]
      BY <1>6
    <2>3. UNCHANGED <<initialized, opened, call, cursor, walk, applied, early, removed, crashed>>
      BY <1>6 DEF add_id
    <2> HIDE DEF go
    <2> QED
      BY <1>1, <1>2, <1>3, <2>1, <2>2, <2>3, AddStep DEF BeingAdded
  <1>7. ASSUME go("event", "load_init", IF ok THEN "load_enable" ELSE "remove"), add_init(ok)
        PROVE  IInv'
    <2>1. /\ opened' \in [Slots -> BOOLEAN] /\ crashed' \in {crashed, "event"}
          /\ \A j \in Slots : j # call.slot => opened'[j] = opened[j]
          /\ call.slot \in Slots /\ filters[call.slot].loaded => opened'[call.slot] = ok
      BY <1>7, EnterKeeps DEF add_init
    <2>2. UNCHANGED <<initialized, filters, call, cursor, walk, applied, early, removed>>
      BY <1>7 DEF add_init
    <2>3. CASE ok
      <3>1. pc["event"] = "load_init" /\ pc' = [pc EXCEPT !["event"] = "load_enable"]
        BY <1>7, <2>3
      <3> HIDE DEF go
      <3> QED
        BY <1>1, <1>2, <1>3, <2>1, <2>2, <2>3, <3>1, AddStep DEF BeingAdded
    <2>4. CASE ~ok
      <3>1. pc["event"] = "load_init" /\ pc' = [pc EXCEPT !["event"] = "remove"]
        BY <1>7, <2>4
      <3> HIDE DEF go
      <3> QED
        BY <1>1, <1>2, <1>3, <2>1, <2>2, <3>1, AddStep DEF BeingAdded
    <2> QED
      BY <2>3, <2>4
  <1>8. ASSUME go("event", "load_enable", "wait"), add_enable PROVE IInv'
    <2>1. /\ filters' = [filters EXCEPT ![call.slot].enabled = TRUE]
          /\ UNCHANGED <<initialized, opened, call, cursor, walk, history, crashed>>
      BY <1>8 DEF add_enable
    <2>2. pc["event"] = "load_enable" /\ pc' = [pc EXCEPT !["event"] = "wait"]
      BY <1>8
    <2>3. UNCHANGED <<running, commands, reconfigured>>
      BY DEF OnTable
    <2>4. /\ call' \in [slot : 0 .. MaxFilters, id : Nat] /\ opened' \in [Slots -> BOOLEAN]
          /\ reconfigured' \in BOOLEAN /\ opened' = opened
          /\ UNCHANGED <<running, initialized, cursor, walk, history>>
      BY <1>1, <2>1, <2>3
    <2>5. "wait" \in EventPlaces /\ pc["event"] \notin Loading
      BY <1>3, <2>2
    <2> HIDE DEF go, history
    <2> QED
      BY <1>3, <2>1, <2>2, <2>3, <2>4, <2>5, EnableStep
  <1> QED
    BY <1>4, <1>5, <1>6, <1>7, <1>8

LEMMA RemoveStep ==
    ASSUME IInv, watch, crashed = "no", OnTable,
           \/ /\ go("event", "remove", IF ~add_remove_finds THEN "load_enable"
                                      ELSE IF filters[call.slot].loaded THEN "remove_close"
                                      ELSE "remove_clear")
              /\ UNCHANGED filtervars
           \/ /\ go("event", "remove_close", "remove_unload")
              /\ remove_close("event", call.slot)
           \/ /\ go("event", "remove_unload", "remove_clear")
              /\ remove_unload("event", call.slot)
           \/ /\ go("event", "remove_clear", "load_enable")
              /\ remove_clear(call.slot) /\ UNCHANGED cursor
    PROVE  IInv'
  <1> USE DEF go, filtervars, table, history
  <1>1. /\ FilterTableType /\ opened \in [Slots -> BOOLEAN] /\ filters \in [Slots -> Filter]
        /\ removed \in BOOLEAN /\ call.id \in Nat /\ reconfigured' = reconfigured
    BY DEF IInv, TypeOK, FilterTableType, Filter, OnTable
  <1>2. pc["frame"] # "end" => BeingAdded /\ initialized
    BY DEF IInv, InTable
  <1>3. /\ {"remove", "remove_close", "remove_unload", "remove_clear"} \subseteq Loading
        /\ "load_enable" \notin Loading
        /\ {"load_enable", "remove_close", "remove_unload", "remove_clear"} \subseteq EventPlaces
    BY DEF Loading, Removing, EventPlaces
  <1>4. ASSUME go("event", "remove", IF ~add_remove_finds THEN "load_enable"
                                     ELSE IF filters[call.slot].loaded THEN "remove_close"
                                     ELSE "remove_clear"),
               UNCHANGED filtervars
        PROVE  IInv'
    <2>1. UNCHANGED <<initialized, filters, opened, call, cursor, walk, applied, early, removed,
                      crashed>>
      BY <1>4
    <2>2. PICK to \in {"load_enable", "remove_close", "remove_clear"} :
             /\ pc["event"] = "remove" /\ pc' = [pc EXCEPT !["event"] = to]
             /\ add_remove_finds /\ filters[call.slot].loaded => to = "remove_close"
      BY <1>4
    <2>3. pc["frame"] # "end" => add_remove_finds /\ filters[call.slot].loaded
      BY <1>2, <1>3, <2>2 DEF BeingAdded, add_remove_finds
    <2> HIDE DEF go
    <2> QED
      BY <1>1, <1>2, <1>3, <2>1, <2>2, <2>3, AddStep DEF BeingAdded
  <1>5. ASSUME go("event", "remove_close", "remove_unload"), remove_close("event", call.slot)
        PROVE  IInv'
    <2>1. /\ opened' \in [Slots -> BOOLEAN] /\ crashed' \in {crashed, "event"}
          /\ \A j \in Slots : j # call.slot => opened'[j] = opened[j]
      BY <1>5, EnterKeeps DEF remove_close
    <2>2. UNCHANGED <<initialized, filters, call, cursor, walk, applied, early, removed>>
      BY <1>5 DEF remove_close
    <2>3. pc["event"] = "remove_close" /\ pc' = [pc EXCEPT !["event"] = "remove_unload"]
      BY <1>5
    <2> HIDE DEF go
    <2> QED
      BY <1>1, <1>2, <1>3, <2>1, <2>2, <2>3, AddStep DEF BeingAdded
  <1>6. ASSUME go("event", "remove_unload", "remove_clear"), remove_unload("event", call.slot)
        PROVE  IInv'
    <2>1. /\ filters' \in [Slots -> Filter] /\ crashed' \in {crashed, "event"}
          /\ \A j \in Slots : j # call.slot => filters'[j] = filters[j]
          /\ call.slot \in Slots => /\ filters'[call.slot].id = filters[call.slot].id
                                     /\ filters'[call.slot].enabled = filters[call.slot].enabled
      <3>1. CASE filters[call.slot].loaded
        <4>1. filters' = [filters EXCEPT ![call.slot].loaded = FALSE] /\ crashed' = crashed
          BY <1>6, <3>1 DEF remove_unload
        <4> QED
          BY <1>1, <4>1, SetLoaded
      <3>2. CASE ~filters[call.slot].loaded
        BY <1>1, <1>6, <3>2 DEF remove_unload
      <3> QED
        BY <3>1, <3>2
    <2>2. removed' = TRUE /\ UNCHANGED <<initialized, opened, call, cursor, walk, applied, early>>
      BY <1>6 DEF remove_unload
    <2>3. pc["event"] = "remove_unload" /\ pc' = [pc EXCEPT !["event"] = "remove_clear"]
      BY <1>6
    <2> HIDE DEF go
    <2> QED
      BY <1>1, <1>2, <1>3, <2>1, <2>2, <2>3, AddStep DEF BeingAdded
  <1>7. ASSUME go("event", "remove_clear", "load_enable"), remove_clear(call.slot),
               UNCHANGED cursor
        PROVE  IInv'
    <2>1. /\ filters' \in [Slots -> Filter]
          /\ \A j \in Slots : j # call.slot => filters'[j] = filters[j]
          /\ call.slot \in Slots => filters'[call.slot].id = 0
      BY <1>1, <1>7, ClearSlot DEF remove_clear
    <2>2. /\ removed' = TRUE
          /\ UNCHANGED <<initialized, opened, call, cursor, walk, applied, early, crashed>>
      BY <1>7 DEF remove_clear
    <2>3. pc["event"] = "remove_clear" /\ pc' = [pc EXCEPT !["event"] = "load_enable"]
      BY <1>7
    <2> HIDE DEF go
    <2> QED
      BY <1>1, <1>2, <1>3, <2>1, <2>2, <2>3, AddStep DEF BeingAdded
  <1> QED
    BY <1>4, <1>5, <1>6, <1>7

LEMMA ConfigStep ==
    ASSUME IInv, watch, crashed = "no", OnTable, NEW ok \in BOOLEAN,
           \/ go("event", "config_close", "config_init") /\ configure_close
           \/ go("event", "config_init", "wait") /\ configure_init(ok)
    PROVE  IInv'
  <1> USE DEF go
  <1>1. PICK to \in {"config_init", "wait"} :
           /\ pc["event"] \in {"config_close", "config_init"} /\ pc' = [pc EXCEPT !["event"] = to]
    OBVIOUS
  <1>2. to \in EventPlaces /\ to \notin Loading /\ pc["event"] \notin Loading
    BY <1>1 DEF EventPlaces, Loading, Removing
  <1>3. UNCHANGED <<running, commands, reconfigured>> /\ reconfigured
    BY <1>1 DEF OnTable, IInv, InTable
  <1>4. /\ UNCHANGED <<initialized, call, cursor, walk, history>>
        /\ filters' = filters \/ filters' = [filters EXCEPT ![call.slot].enabled = FALSE]
    BY DEF configure_close, configure_init
  <1>5. opened' \in [Slots -> BOOLEAN] /\ crashed' \in {crashed, "event"}
    <2>1. PICK b \in BOOLEAN : enter("event", call.slot, b)
      BY DEF configure_close, configure_init
    <2> QED
      BY <2>1, EnterKeeps
  <1>6. call' \in [slot : 0 .. MaxFilters, id : Nat] /\ reconfigured' \in BOOLEAN
    BY <1>3, <1>4 DEF IInv, TypeOK, FilterTableType
  <1> HIDE DEF go
  <1> QED
    BY <1>1, <1>2, <1>3, <1>4, <1>5, <1>6, EnableStep

LEMMA EventStep ==
    ASSUME IInv, watch, crashed = "no", serve_load \/ serve_enable \/ serve_config \/ handle
    PROVE  IInv'
  <1>1. CASE handle
    <2>1. OnTable
      BY <1>1 DEF handle, Elsewhere
    <2>2. \/ \E ok \in BOOLEAN :
                \/ /\ go("event", "load", IF ok THEN "load_id" ELSE "wait")
                   /\ IF ok THEN add_entry ELSE UNCHANGED filtervars
                \/ go("event", "load_init", IF ok THEN "load_enable" ELSE "remove")
                   /\ add_init(ok)
                \/ go("event", "config_init", "wait") /\ configure_init(ok)
          \/ go("event", "load_id", "load_init") /\ add_id
          \/ /\ go("event", "remove", IF ~add_remove_finds THEN "load_enable"
                                      ELSE IF filters[call.slot].loaded THEN "remove_close"
                                      ELSE "remove_clear")
             /\ UNCHANGED filtervars
          \/ go("event", "remove_close", "remove_unload") /\ remove_close("event", call.slot)
          \/ go("event", "remove_unload", "remove_clear") /\ remove_unload("event", call.slot)
          \/ go("event", "remove_clear", "load_enable") /\ remove_clear(call.slot)
             /\ UNCHANGED cursor
          \/ go("event", "load_enable", "wait") /\ add_enable
          \/ go("event", "config_close", "config_init") /\ configure_close
      BY <1>1 DEF handle, Elsewhere
    <2> QED
      BY <2>1, <2>2, LoadStep, RemoveStep, ConfigStep
  <1> QED
    BY <1>1, ServeLoad, ServeEnable, ServeConfig

-----------------------------------------------------------------------------
(* The main thread, which is in the table only when the frame thread has   *)
(* ended.                                                                  *)

LEMMA StopStep ==
    ASSUME IInv, watch, stop
    PROVE  IInv'
  <1>1. /\ pc["main"] = "export" /\ pc' = [pc EXCEPT !["main"] = "close"] /\ running' = FALSE
        /\ UNCHANGED <<commands, reconfigured, initialized, filters, opened, call, cursor, walk,
                       applied, early, removed, crashed>>
    BY DEF stop, go, filtervars, table, history
  <1>2. FilterTableType'
    BY <1>1 DEF IInv, TypeOK, FilterTableType
  <1>3. /\ TypeOK' /\ pc'["main"] = "close"
        /\ pc'["frame"] = pc["frame"] /\ pc'["event"] = pc["event"]
    <2>1. TypeOK /\ "close" \in MainPlaces /\ reconfigured' \in BOOLEAN /\ running' \in BOOLEAN
      BY <1>1 DEF IInv, TypeOK, MainPlaces
    <2> QED
      BY <1>1, <1>2, <2>1, StepType
  <1>4. /\ steady' \subseteq EnabledIds'
        /\ pc["frame"] # "process" => steady' \subseteq steady
    BY <1>2, SteadyStep DEF IInv
  <1>5. Closing' /\ InSlots' /\ NoFilterSkipped'
    BY <1>1, <1>3, <1>4 DEF IInv, Closing, InSlots, NoFilterSkipped, Removing
  <1>6. \A i : Mine(i)' = Mine(i)
    BY <1>1, <1>3 DEF Mine
  <1>7. InTable'
    <2>1. pc["frame"] # "end" => initialized /\ BeingAdded /\ ReadySlots /\ UniqueIds
      BY DEF IInv, InTable
    <2>2. pc["frame"] # "end" => BeingAdded' /\ ReadySlots' /\ UniqueIds'
      BY <1>1, <1>3, <1>6, <2>1 DEF BeingAdded, ReadySlots, UniqueIds
    <2> QED
      BY <1>1, <1>3, <2>1, <2>2 DEF IInv, InTable
  <1>8. ASSUME ~removed PROVE InWalk' /\ Sent'
    <2>1. InWalk /\ Sent
      BY <1>8 DEF IInv, Undisturbed
    <2>2. InWalk'
      BY <1>1, <1>3, <1>6, <2>1 DEF InWalk, Searching
    <2>3. Sent'
      <3>1. CASE pc["frame"] = "process"
        BY <1>3, <3>1 DEF Sent, Searching
      <3>2. CASE pc["frame"] # "process"
        BY <1>1, <1>3, <1>4, <2>1, <3>2 DEF Sent
      <3> QED
        BY <3>1, <3>2
    <2> QED
      BY <2>2, <2>3
  <1>9. Undisturbed'
    BY <1>1, <1>8 DEF IInv, Undisturbed
  <1> QED
    BY <1>3, <1>4, <1>5, <1>7, <1>9 DEF IInv

(* Behind the frame thread the table is of no concern any more.            *)
LEMMA Closed ==
    ASSUME IInv, watch, TypeOK', pc["frame"] = "end", pc'["frame"] = "end",
           pc'["event"] \in {pc["event"], "end"},
           pc'["main"] \in Removing => cursor' \in Slots,
           UNCHANGED <<reconfigured, early>>, removed => removed', crashed' \in {crashed, "main"}
    PROVE  IInv'
  <1>1. steady' \subseteq EnabledIds'
    BY SteadyStep DEF IInv, TypeOK
  <1>2. Closing' /\ InSlots' /\ NoFilterSkipped'
    BY DEF Closing, InSlots, NoFilterSkipped
  <1>3. InTable'
    BY DEF IInv, InTable
  <1>4. Undisturbed'
    BY DEF IInv, Undisturbed, InWalk, Sent, Searching
  <1> QED
    BY <1>1, <1>2, <1>3, <1>4 DEF IInv

LEMMA ClosedStep ==
    ASSUME IInv, watch, FilterTableType', pc["frame"] = "end", OnTable, NEW to \in MainPlaces,
           pc' = [pc EXCEPT !["main"] = to], to \in Removing => cursor' \in Slots,
           early' = early, removed => removed', crashed' \in {crashed, "main"}
    PROVE  IInv'
  <1>1. TypeOK /\ running' \in BOOLEAN /\ reconfigured' \in BOOLEAN /\ commands' = commands
        /\ reconfigured' = reconfigured
    BY DEF IInv, TypeOK, OnTable
  <1>2. /\ TypeOK' /\ pc'["main"] = to
        /\ pc'["frame"] = pc["frame"] /\ pc'["event"] = pc["event"]
    BY <1>1, StepType
  <1> QED
    BY <1>1, <1>2, Closed

LEMMA ShutdownStep ==
    ASSUME IInv, watch, crashed = "no", shutdown
    PROVE  IInv'
  <1> USE DEF go, filtervars, table, history
  <1>1. /\ FilterTableType /\ opened \in [Slots -> BOOLEAN] /\ filters \in [Slots -> Filter]
        /\ TypeOK /\ cursor \in 1 .. MaxFilters + 1
    BY DEF IInv, TypeOK, FilterTableType, Filter
  <1>2. pc["main"] \in Removing \union {"fini", "cancel"} => pc["frame"] = "end"
    BY DEF IInv, Closing
  <1>3. pc["main"] \in Removing => cursor \in Slots
    BY DEF IInv, InSlots
  <1>4. /\ Removing \union {"close", "fini", "cancel", "end"} \subseteq MainPlaces
        /\ {"remove_close", "remove_unload", "remove_clear"} = Removing
        /\ "fini" \notin Removing /\ "cancel" \notin Removing /\ "close" \notin Removing
    BY DEF MainPlaces, Removing
  <1>5. ASSUME go("main", "close", "fini"), frame_threads_closed, Elsewhere PROVE IInv'
    <2>1. UNCHANGED <<initialized, filters, opened, call, cursor, walk, applied, early, removed,
                      crashed>> /\ OnTable
      BY <1>5 DEF Elsewhere
    <2>2. FilterTableType'
      BY <1>1, <2>1 DEF FilterTableType
    <2>3. pc["frame"] = "end" /\ pc' = [pc EXCEPT !["main"] = "fini"]
      BY <1>5 DEF frame_threads_closed
    <2> HIDE DEF go, filtervars
    <2> QED
      BY <1>4, <2>1, <2>2, <2>3, ClosedStep
  <1>6. ASSUME go("main", "fini", "fini"), fini_skip, OnTable PROVE IInv'
    <2>1. /\ UNCHANGED <<initialized, filters, opened, call, walk, applied, early, removed, crashed>>
          /\ cursor' = cursor + 1 /\ cursor \in Slots
      BY <1>6 DEF fini_skip
    <2>2. cursor' \in 1 .. MaxFilters + 1
      BY <2>1 DEF Slots
    <2>3. FilterTableType'
      BY <1>1, <2>1, <2>2 DEF FilterTableType
    <2>4. pc["frame"] = "end" /\ pc' = [pc EXCEPT !["main"] = "fini"]
      BY <1>2, <1>6
    <2> HIDE DEF go, filtervars
    <2> QED
      BY <1>4, <1>6, <2>1, <2>3, <2>4, ClosedStep
  <1>7. ASSUME fini_remove, OnTable,
               go("main", "fini", IF filters[cursor].loaded THEN "remove_close" ELSE "remove_clear")
        PROVE  IInv'
    <2>1. /\ UNCHANGED <<initialized, filters, opened, call, cursor, walk, applied, early, removed,
                         crashed>>
          /\ cursor' \in Slots
      BY <1>7 DEF fini_remove
    <2>2. FilterTableType'
      BY <1>1, <2>1 DEF FilterTableType
    <2>3. PICK to \in Removing : pc' = [pc EXCEPT !["main"] = to]
      BY <1>4, <1>7
    <2>4. pc["frame"] = "end"
      BY <1>2, <1>7
    <2> HIDE DEF go, filtervars
    <2> QED
      BY <1>4, <1>7, <2>1, <2>2, <2>3, <2>4, ClosedStep
  <1>8. ASSUME go("main", "remove_close", "remove_unload"), remove_close("main", cursor), OnTable
        PROVE  IInv'
    <2>1. UNCHANGED <<initialized, filters, call, cursor, walk, applied, early, removed>>
      BY <1>8 DEF remove_close
    <2>2. opened' \in [Slots -> BOOLEAN] /\ crashed' \in {crashed, "main"}
      BY <1>8, EnterKeeps DEF remove_close
    <2>3. FilterTableType'
      BY <1>1, <2>1, <2>2 DEF FilterTableType
    <2>4. /\ pc["frame"] = "end" /\ pc' = [pc EXCEPT !["main"] = "remove_unload"]
          /\ cursor \in Slots
      BY <1>2, <1>3, <1>4, <1>8
    <2> HIDE DEF go, filtervars
    <2> QED
      BY <1>4, <1>8, <2>1, <2>2, <2>3, <2>4, ClosedStep
  <1>9. ASSUME go("main", "remove_unload", "remove_clear"), remove_unload("main", cursor), OnTable
        PROVE  IInv'
    <2>1. removed' = TRUE /\ UNCHANGED <<initialized, opened, call, cursor, walk, applied, early>>
      BY <1>9 DEF remove_unload
    <2>2. filters' \in [Slots -> Filter] /\ crashed' \in {crashed, "main"}
      <3>1. CASE filters[cursor].loaded
        <4>1. filters' = [filters EXCEPT ![cursor].loaded = FALSE] /\ crashed' = crashed
          BY <1>9, <3>1 DEF remove_unload
        <4> QED
          BY <1>1, <4>1, SetLoaded
      <3>2. CASE ~filters[cursor].loaded
        BY <1>1, <1>9, <3>2 DEF remove_unload
      <3> QED
        BY <3>1, <3>2
    <2>3. FilterTableType'
      BY <1>1, <2>1, <2>2 DEF FilterTableType, Filter
    <2>4. /\ pc["frame"] = "end" /\ pc' = [pc EXCEPT !["main"] = "remove_clear"]
          /\ cursor \in Slots
      BY <1>2, <1>3, <1>4, <1>9
    <2> HIDE DEF go, filtervars
    <2> QED
      BY <1>4, <1>9, <2>1, <2>2, <2>3, <2>4, ClosedStep
  <1>10. ASSUME go("main", "remove_clear", "fini"), fini_cleared, OnTable PROVE IInv'
    <2>1. /\ removed' = TRUE /\ cursor' = cursor + 1
          /\ UNCHANGED <<initialized, opened, call, walk, applied, early, crashed>>
      BY <1>10 DEF fini_cleared, remove_clear
    <2>2. filters' \in [Slots -> Filter]
      BY <1>1, <1>10, ClearSlot DEF fini_cleared, remove_clear
    <2>3. cursor' \in 1 .. MaxFilters + 1
      <3>1. cursor \in Slots
        BY <1>3, <1>4, <1>10
      <3> QED
        BY <2>1, <3>1 DEF Slots
    <2>4. FilterTableType'
      BY <1>1, <2>1, <2>2, <2>3 DEF FilterTableType, Filter
    <2>5. pc["frame"] = "end" /\ pc' = [pc EXCEPT !["main"] = "fini"]
      BY <1>2, <1>4, <1>10
    <2> HIDE DEF go, filtervars
    <2> QED
      BY <1>4, <1>10, <2>1, <2>4, <2>5, ClosedStep
  <1>11. ASSUME go("main", "fini", "cancel"), fini_done, OnTable PROVE IInv'
    <2>1. /\ UNCHANGED <<filters, opened, call, cursor, walk, applied, early, removed, crashed>>
          /\ initialized' = FALSE
      BY <1>11 DEF fini_done
    <2>2. FilterTableType'
      BY <1>1, <2>1 DEF FilterTableType
    <2>3. pc["frame"] = "end" /\ pc' = [pc EXCEPT !["main"] = "cancel"]
      BY <1>2, <1>11
    <2> HIDE DEF go, filtervars
    <2> QED
      BY <1>4, <1>11, <2>1, <2>2, <2>3, ClosedStep
  <1>12. ASSUME pc["main"] = "cancel", pc["event"] = "wait", Elsewhere,
                pc' = [pc EXCEPT !["main"] = "end", !["event"] = "end"]
         PROVE  IInv'
    <2>1. UNCHANGED <<initialized, filters, opened, call, cursor, walk, applied, early, removed,
                      crashed>> /\ UNCHANGED <<running, commands, reconfigured>>
      BY <1>12 DEF Elsewhere, OnTable
    <2>2. FilterTableType'
      BY <1>1, <2>1 DEF FilterTableType
    <2>3. /\ pc["frame"] = "end" /\ pc'["frame"] = "end"
          /\ pc'["main"] = "end" /\ pc'["event"] = "end"
      BY <1>1, <1>2, <1>12 DEF TypeOK
    <2>4. /\ "end" \in MainPlaces /\ "end" \in FramePlaces /\ "end" \in EventPlaces
          /\ "end" \notin Removing
      BY DEF MainPlaces, FramePlaces, EventPlaces, Removing
    <2>5. pc' \in [{"main", "frame", "event"} -> MainPlaces \union FramePlaces \union EventPlaces]
      BY <1>1, <1>12, <2>4 DEF TypeOK
    <2>6. steady' \subseteq Nat \ {0}
      BY <1>1, <2>2, SteadyStep
    <2>7. TypeOK'
      BY <1>1, <2>1, <2>2, <2>3, <2>4, <2>5, <2>6 DEF TypeOK
    <2> HIDE DEF go, filtervars
    <2> QED
      BY <2>1, <2>3, <2>4, <2>7, Closed
  <1> QED
    BY <1>5, <1>6, <1>7, <1>8, <1>9, <1>10, <1>11, <1>12 DEF shutdown

-----------------------------------------------------------------------------
(* The theorems.                                                           *)

LEMMA NextInv == IInv /\ [Next]_vars => IInv'
  <1> SUFFICES ASSUME IInv, [Next]_vars PROVE IInv'
    OBVIOUS
  <1>1. CASE Next
    BY <1>1, StopStep, ShutdownStep, FrameStep, EventStep DEF Next
  <1>2. CASE UNCHANGED vars
    <2>1. UNCHANGED <<running, pc, commands, reconfigured, steady, initialized, filters, opened,
                      call, cursor, walk, applied, early, removed, crashed>>
      BY <1>2 DEF vars, filtervars, table, history
    <2>2. TypeOK' /\ Closing' /\ InSlots' /\ steady' \subseteq EnabledIds'
      BY <2>1 DEF IInv, TypeOK, FilterTableType, Closing, InSlots, EnabledIds
    <2>3. \A i : Mine(i)' = Mine(i)
      BY <2>1 DEF Mine
    <2>4. InTable'
      BY <2>1, <2>3 DEF IInv, InTable, BeingAdded, ReadySlots, UniqueIds
    <2>5. Undisturbed' /\ NoFilterSkipped'
      BY <2>1, <2>3 DEF IInv, Undisturbed, InWalk, Sent, NoFilterSkipped
    <2> QED
      BY <2>2, <2>4, <2>5 DEF IInv
  <1> QED
    BY <1>1, <1>2

THEOREM Invariance == Spec => []IInv
  BY InitInv, NextInv, PTL DEF Spec

(* While no filter is removed under the frame, no frame enters a filter    *)
(* before its initialisation unless a config command closed it, and never  *)
(* an unloaded one, wherever the additions of the event thread fall        *)
(* between the reads of the walk (filter.c:187-209); and no frame is in    *)
(* the chain while the program unloads it (transcode.c:2650).              *)
THEOREM ReadyFiltersOnly == Spec => []FramesSeeReadyFilters
  <1>1. IInv => FramesSeeReadyFilters
    BY DEF IInv, Undisturbed, Closing, FramesSeeReadyFilters, Chain
  <1> QED
    BY <1>1, Invariance, PTL

(* While no filter is removed, a frame that has left the chain was sent to *)
(* every filter that was enabled all the time (filter.c:155-156), though   *)
(* the walk reads ids and flags one by one and the table changes between.  *)
THEOREM WalkComplete == Spec => []NoFilterSkipped
  <1>1. IInv => NoFilterSkipped
    BY DEF IInv
  <1> QED
    BY <1>1, Invariance, PTL

=============================================================================
