--------------------------- MODULE ModuleFactory ---------------------------
(***************************************************************************)
(* libtcmodule/tcmodule.c: the factory of the import, encode and multiplex *)
(* modules.  A descriptor stands for a loaded plugin; every module of that *)
(* plugin points into its descriptor (module->klass) and counts in its     *)
(* ref_count, and the plugin is unloaded with its last module.             *)
(*                                                                         *)
(* One call of the interface is one action; what the dynamic linker and    *)
(* the plugin answer is chosen: dlopen may fail, the setup may be missing, *)
(* of the wrong version or incomplete, and so may init and fini.           *)
(***************************************************************************)
EXTENDS Naturals, FiniteSets, FiniteSetsExt

CONSTANTS ModTypes,      \* "class:name" of the plugins on the disk
          MaxHandlers,   \* TC_FACTORY_MAX_HANDLERS
          MaxModules,    \* bound: modules alive at a time
          MaxCount       \* bound: descriptor_count, which a deletion of the factory that
                         \* fails leaves too high

ASSUME FactoryAssumption ==
    MaxHandlers \in Nat \ {0} /\ MaxModules \in Nat \ {0} /\ MaxCount \in Nat

VARIABLES
    descriptors,        \* by slot
    descriptor_count, instance_count,
    modules,            \* the modules that tc_new_module returned
    freed,              \* tc_del_module_factory has freed the factory
    orphans             \* history: slots where an init failed since the load

counters == <<descriptor_count, instance_count>>
vars == <<descriptors, counters, modules, freed, orphans>>

Slots   == 1 .. MaxHandlers
Handles == 1 .. MaxModules
NoType  == "none"
Nothing == [slot |-> 0, type |-> NoType]

FreeDescriptor == [status |-> "FREE", type |-> NoType, ref_count |-> 0]

Init ==
    /\ descriptors = [d \in Slots |-> FreeDescriptor]
    /\ descriptor_count = 0 /\ instance_count = 0
    /\ modules = [h \in Handles |-> Nothing]
    /\ freed = FALSE /\ orphans = {}

TypeOK ==
    /\ descriptors \in [Slots -> [status : {"FREE", "DONE"}, type : ModTypes \union {NoType},
                                  ref_count : Nat]]
    /\ descriptor_count \in Nat /\ instance_count \in Nat
    /\ modules \in [Handles -> [slot : 0 .. MaxHandlers, type : ModTypes \union {NoType}]]
    /\ freed \in BOOLEAN /\ orphans \subseteq Slots

Live == {h \in Handles : modules[h] # Nothing}
Of(d) == {h \in Live : modules[h].slot = d}

-----------------------------------------------------------------------------
OfType(t) == {d \in Slots : descriptors[d].status = "DONE" /\ descriptors[d].type = t}
FreeSlots == {d \in Slots : descriptors[d].status = "FREE"}

(* find_by_modtype, or find_first_free_descriptor when it finds none. *)
slot_for(t) == IF OfType(t) # {} THEN Min(OfType(t)) ELSE Min(FreeSlots)

(* tc_load_module.  A descriptor that fails on the way is FREE again: all  *)
(* that is left of the attempt is a ref_count of zero.                     *)
load_fails(t) ==
    /\ OfType(t) = {} /\ FreeSlots # {}
    /\ descriptors' = [descriptors EXCEPT ![Min(FreeSlots)] = FreeDescriptor]
    /\ UNCHANGED <<counters, modules, freed, orphans>>

Loaded(t) ==
    IF OfType(t) # {} THEN descriptors
    ELSE [descriptors EXCEPT ![slot_for(t)] = [status |-> "DONE", type |-> t, ref_count |-> 0]]

CountLoaded(t) == IF OfType(t) # {} THEN descriptor_count ELSE descriptor_count + 1

(* tc_new_module of a plugin that is loaded, now or before.  A module whose *)
(* init fails is freed, but not the plugin that was loaded for it.  Mutant: *)
(* the module counts before its init.                                       *)
Mut_init_fails(t) ==
    /\ descriptors' = [Loaded(t) EXCEPT ![slot_for(t)].ref_count = @ + 1]
    /\ descriptor_count' = CountLoaded(t)
    /\ orphans' = orphans \union {slot_for(t)}
    /\ UNCHANGED <<instance_count, modules, freed>>

init_fails(t) ==
    /\ descriptors' = Loaded(t)
    /\ descriptor_count' = CountLoaded(t)
    /\ orphans' = orphans \union {slot_for(t)}
    /\ UNCHANGED <<instance_count, modules, freed>>

init_done(t) ==
    /\ Live # Handles
    /\ descriptors' = [Loaded(t) EXCEPT ![slot_for(t)].ref_count = @ + 1]
    /\ descriptor_count' = CountLoaded(t)
    /\ instance_count' = instance_count + 1
    /\ modules' = [modules EXCEPT ![Min(Handles \ Live)] =
                      [slot |-> slot_for(t), type |-> t]]
    /\ UNCHANGED <<freed, orphans>>

tc_new_module ==
    /\ ~freed
    /\ \E t \in ModTypes :
          \/ load_fails(t)
          \/ /\ OfType(t) # {} \/ FreeSlots # {}
             /\ CountLoaded(t) <= MaxCount
             /\ init_fails(t) \/ init_done(t)

-----------------------------------------------------------------------------
(* descriptor_fini: a descriptor in use stays.  Mutant: the plugin goes in *)
(* any case.                                                               *)
Mut_fini_refused(d) == FALSE
fini_refused(d) == descriptors[d].ref_count > 0

(* tc_del_module, of a module whose fini went well; another one stays as   *)
(* it is.  The last one takes the plugin with it (tc_unload_module).       *)
(* Mutant: the count is looked at before it is lowered.                    *)
Mut_is_last(d) == descriptors[d].ref_count = 0
is_last(d) == descriptors[d].ref_count - 1 = 0

tc_del_module ==
    /\ ~freed
    /\ \E h \in Live :
          LET d == modules[h].slot
          IN /\ modules' = [modules EXCEPT ![h] = Nothing]
             /\ instance_count' = instance_count - 1
             /\ IF is_last(d)
                THEN /\ descriptors' = [descriptors EXCEPT ![d] = FreeDescriptor]
                     /\ descriptor_count' = descriptor_count - 1
                     /\ orphans' = orphans \ {d}
                ELSE /\ descriptors' = [descriptors EXCEPT ![d].ref_count = @ - 1]
                     /\ UNCHANGED <<descriptor_count, orphans>>
    /\ UNCHANGED freed

-----------------------------------------------------------------------------
(* tc_del_module_factory.  tc_foreach_descriptor stops at the first slot   *)
(* that refuses; the slots before it are unloaded, and descriptor_count    *)
(* goes on counting them.  The factory is freed when that count is zero,   *)
(* and stays in use otherwise.                                             *)
Refusing == {d \in Slots : fini_refused(d)}
Unloaded == IF Refusing = {} THEN Slots ELSE {d \in Slots : d < Min(Refusing)}

tc_del_module_factory ==
    /\ ~freed
    /\ descriptors' = [d \in Slots |-> IF d \in Unloaded THEN FreeDescriptor ELSE descriptors[d]]
    /\ orphans' = orphans \ Unloaded
    /\ freed' = (descriptor_count = 0)
    /\ UNCHANGED <<counters, modules>>

(* The caller tears the factory down, for good once it is freed. *)
Done == freed /\ UNCHANGED vars

Next == tc_new_module \/ tc_del_module \/ tc_del_module_factory \/ Done

Spec == Init /\ [][Next]_vars

-----------------------------------------------------------------------------
(* The calls of a module go through the class of its descriptor: while a   *)
(* module lives, its plugin is loaded, the slot is of its type and no      *)
(* other slot is, and the factory is not freed, whatever loads, failures,  *)
(* deletions and attempts to delete the factory came before.               *)
ClassStaysLoaded ==
    /\ \A h \in Live : OfType(modules[h].type) = {modules[h].slot}
    /\ freed => Live = {}

(* Every module counts once, with its slot and with the factory, however   *)
(* many creations failed on the way: a count too high keeps a plugin       *)
(* loaded for good, one too low unloads it under a module.                 *)
CountsExact ==
    /\ \A d \in Slots : descriptors[d].ref_count = Cardinality(Of(d))
    /\ instance_count = Cardinality(Live)

(* A plugin without a module is unloaded, except one that an initialisation *)
(* failed in: tc_new_module leaves it loaded until a later module of it is  *)
(* deleted, or the factory.  And descriptor_count never loses a plugin that *)
(* is loaded, so that a factory with loaded plugins is not freed.           *)
UnloadedWhenUnused ==
    \A d \in Slots : descriptors[d].status = "DONE" =>
        /\ Of(d) # {} \/ d \in orphans
        /\ ~freed /\ descriptor_count > 0
=============================================================================
