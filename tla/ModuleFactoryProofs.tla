------------------------ MODULE ModuleFactoryProofs ------------------------
(***************************************************************************)
(* The module factory of libtcmodule keeps a plugin loaded as long as one  *)
(* of its modules lives, counts exactly, and unloads a plugin with its     *)
(* last module, for every number of slots, modules and plugins.            *)
(***************************************************************************)
EXTENDS ModuleFactory, FiniteSetTheorems, WellFoundedInduction, TLAPS

USE FactoryAssumption

(* The inductive invariant.  A live module points into a loaded slot of    *)
(* its type, no two slots hold the same plugin, and descriptor_count may   *)
(* be too high but never too low: that is why a factory that is freed has  *)
(* no plugin loaded, and so no module.                                     *)
Descriptor == [status : {"FREE", "DONE"}, type : ModTypes \union {NoType}, ref_count : Nat]

DoneSlots == {d \in Slots : descriptors[d].status = "DONE"}

PointsIntoLoaded ==
    \A h \in Live : /\ modules[h].slot \in DoneSlots
                    /\ modules[h].type \in ModTypes
                    /\ descriptors[modules[h].slot].type = modules[h].type

OneSlotEach ==
    \A d, e \in DoneSlots : descriptors[d].type = descriptors[e].type => d = e

NoneUncounted == Cardinality(DoneSlots) <= descriptor_count

UsedOrOrphan == \A d \in DoneSlots : Of(d) # {} \/ d \in orphans

IInv ==
    /\ TypeOK
    /\ PointsIntoLoaded /\ OneSlotEach /\ CountsExact /\ NoneUncounted /\ UsedOrOrphan
    /\ freed => DoneSlots = {}

-----------------------------------------------------------------------------

(* The least element of a set of natural numbers.                          *)
LEMMA MinOf ==
    ASSUME NEW S \in SUBSET Nat, S # {}
    PROVE  Min(S) \in S /\ \A y \in S : Min(S) <= y
  <1>1. PICK m \in S : \A y \in S : ~(<<y, m>> \in OpToRel(<, Nat))
    BY NatLessThanWellFounded, WFMin
  <1>2. \A y \in S : ~(y < m)
    BY <1>1 DEF OpToRel
  <1>3. \A y \in S : m <= y
    BY <1>2
  <1> QED
    BY <1>3 DEF Min

(* Slots and handles are finite, and so is what is chosen among them.      *)
LEMMA AllFinite ==
    /\ IsFiniteSet(Slots) /\ IsFiniteSet(Handles)
    /\ IsFiniteSet(DoneSlots) /\ Cardinality(DoneSlots) \in Nat
    /\ IsFiniteSet(Live) /\ Cardinality(Live) \in Nat
    /\ \A d : IsFiniteSet(Of(d)) /\ Cardinality(Of(d)) \in Nat
  <1>1. IsFiniteSet(Slots) /\ IsFiniteSet(Handles)
    BY FS_Interval DEF Slots, Handles
  <1>2. DoneSlots \subseteq Slots /\ Live \subseteq Handles /\ \A d : Of(d) \subseteq Handles
    BY DEF DoneSlots, Live, Of
  <1>3. IsFiniteSet(DoneSlots) /\ IsFiniteSet(Live)
    BY <1>1, <1>2, FS_Subset
  <1>4. \A d : IsFiniteSet(Of(d))
    BY <1>1, <1>2, FS_Subset
  <1> QED
    BY <1>1, <1>3, <1>4, FS_CardinalityType

(* A slot without modules is one whose count is zero; a live module makes  *)
(* the count of its slot positive.                                         *)
LEMMA ZeroCount ==
    ASSUME TypeOK, CountsExact, NEW d \in Slots
    PROVE  descriptors[d].ref_count = 0 <=> Of(d) = {}
  BY AllFinite, FS_EmptySet DEF CountsExact

(* A slot that is not loaded has no module.                                *)
LEMMA NoModuleOfFree ==
    ASSUME IInv, NEW d \in Slots, d \notin DoneSlots
    PROVE  Of(d) = {} /\ descriptors[d].ref_count = 0
  <1>1. Of(d) = {}
    BY DEF Of, IInv, PointsIntoLoaded
  <1> QED
    BY <1>1, ZeroCount DEF IInv

LEMMA InitInv == Init => IInv
  <1> SUFFICES ASSUME Init PROVE IInv
    OBVIOUS
  <1>1. TypeOK
    <2>1. FreeDescriptor \in Descriptor
      BY DEF FreeDescriptor, Descriptor
    <2>2. Nothing \in [slot : 0 .. MaxHandlers, type : ModTypes \union {NoType}]
      BY DEF Nothing
    <2> QED
      BY <2>1, <2>2 DEF Init, TypeOK, Descriptor
  <1>2. DoneSlots = {} /\ Live = {} /\ \A d : Of(d) = {}
    BY DEF Init, DoneSlots, Live, Of, FreeDescriptor
  <1>3. Cardinality({}) = 0
    BY FS_EmptySet
  <1>4. CountsExact
    BY <1>2, <1>3 DEF Init, CountsExact, FreeDescriptor
  <1> QED
    BY <1>1, <1>2, <1>3, <1>4
       DEF Init, IInv, PointsIntoLoaded, OneSlotEach, NoneUncounted, UsedOrOrphan

-----------------------------------------------------------------------------
(* Loading: tc_new_module's choice of a slot.                              *)

(* The slot of a plugin is its own, or a free one; loading it changes no   *)
(* other slot and no count, gives the plugin one slot only, and is counted.*)
LEMMA Loading ==
    ASSUME IInv, NEW t \in ModTypes, OfType(t) # {} \/ FreeSlots # {}
    PROVE  LET s == slot_for(t)
           IN /\ s \in Slots
              /\ Loaded(t) \in [Slots -> Descriptor]
              /\ Loaded(t)[s].status = "DONE" /\ Loaded(t)[s].type = t
              /\ \A d \in Slots : Loaded(t)[d].ref_count = descriptors[d].ref_count
              /\ \A d \in Slots \ {s} : Loaded(t)[d] = descriptors[d]
              /\ s \in DoneSlots => Loaded(t)[s] = descriptors[s]
              /\ \A d \in DoneSlots : descriptors[d].type = t => d = s
              /\ CountLoaded(t) \in Nat
              /\ Cardinality(DoneSlots \union {s}) <= CountLoaded(t)
  <1> DEFINE s == slot_for(t)
  <1>1. descriptor_count \in Nat /\ Cardinality(DoneSlots) <= descriptor_count
    BY DEF IInv, TypeOK, NoneUncounted
  <1>2. Slots \subseteq Nat /\ OfType(t) \subseteq Slots /\ FreeSlots \subseteq Slots
    BY DEF Slots, OfType, FreeSlots
  <1>3. CASE OfType(t) # {}
    <2>1. s \in OfType(t)
      BY <1>2, <1>3, MinOf DEF slot_for
    <2>2. s \in DoneSlots /\ descriptors[s].type = t /\ DoneSlots \union {s} = DoneSlots
      BY <2>1 DEF OfType, DoneSlots
    <2>3. Loaded(t) = descriptors /\ CountLoaded(t) = descriptor_count
      BY <1>3 DEF Loaded, CountLoaded
    <2>4. \A d \in DoneSlots : descriptors[d].type = t => d = s
      BY <2>2 DEF IInv, OneSlotEach
    <2> QED
      BY <1>1, <2>2, <2>3, <2>4 DEF DoneSlots, IInv, TypeOK, Descriptor
  <1>4. CASE OfType(t) = {}
    <2>1. s \in FreeSlots
      BY <1>2, <1>4, MinOf DEF slot_for
    <2>2. s \in Slots /\ s \notin DoneSlots
      BY <2>1 DEF FreeSlots, DoneSlots
    <2>3. descriptors[s].ref_count = 0
      BY <2>2, NoModuleOfFree
    <2>4. Loaded(t) = [descriptors EXCEPT ![s] = [status |-> "DONE", type |-> t, ref_count |-> 0]]
      BY <1>4 DEF Loaded
    <2>5. CountLoaded(t) = descriptor_count + 1
      BY <1>4 DEF CountLoaded
    <2>6. Cardinality(DoneSlots \union {s}) = Cardinality(DoneSlots) + 1
      BY <2>2, AllFinite, FS_AddElement
    <2>7. \A d \in DoneSlots : descriptors[d].type # t
      BY <1>4 DEF OfType, DoneSlots
    <2>8. descriptors \in [Slots -> Descriptor]
      BY DEF IInv, TypeOK, Descriptor
    <2>9. Cardinality(DoneSlots \union {s}) <= CountLoaded(t) /\ CountLoaded(t) \in Nat
      BY <1>1, <2>5, <2>6, AllFinite
    <2> HIDE DEF s
    <2>10. Loaded(t) \in [Slots -> Descriptor]
      <3>1. [status |-> "DONE", type |-> t, ref_count |-> 0] \in Descriptor
        BY DEF Descriptor
      <3> QED
        BY <2>4, <2>8, <3>1
    <2>11. /\ Loaded(t)[s].status = "DONE" /\ Loaded(t)[s].type = t
           /\ \A d \in Slots : Loaded(t)[d].ref_count = descriptors[d].ref_count
           /\ \A d \in Slots \ {s} : Loaded(t)[d] = descriptors[d]
      BY <2>2, <2>3, <2>4, <2>8
    <2> QED
      BY <2>2, <2>7, <2>9, <2>10, <2>11 DEF s
  <1> QED
    BY <1>3, <1>4

(* A load that fails leaves a free slot as free as it was.                 *)
LEMMA LoadFailsStep ==
    ASSUME IInv, NEW t \in ModTypes, load_fails(t)
    PROVE  IInv'
  <1> DEFINE s == Min(FreeSlots)
  <1>1. s \in FreeSlots
    BY MinOf DEF load_fails, FreeSlots, Slots
  <1>2. s \in Slots /\ s \notin DoneSlots
    BY <1>1 DEF FreeSlots, DoneSlots
  <1>3. descriptors[s].ref_count = 0 /\ FreeDescriptor \in Descriptor /\ FreeDescriptor.ref_count = 0
    BY <1>2, NoModuleOfFree DEF FreeDescriptor, Descriptor
  <1>4. descriptors \in [Slots -> Descriptor]
    BY DEF IInv, TypeOK, Descriptor
  <1>5. /\ descriptors' = [descriptors EXCEPT ![s] = FreeDescriptor]
        /\ UNCHANGED <<descriptor_count, instance_count, modules, freed, orphans>>
    BY DEF load_fails, counters
  <1> HIDE DEF s
  <1>6. /\ descriptors' \in [Slots -> Descriptor]
        /\ \A d \in Slots : descriptors'[d].ref_count = descriptors[d].ref_count
        /\ \A d \in DoneSlots : descriptors'[d] = descriptors[d]
    BY <1>2, <1>3, <1>4, <1>5
  <1>7. descriptors'[s].status = "FREE" /\ \A d \in Slots \ {s} : descriptors'[d] = descriptors[d]
    BY <1>2, <1>4, <1>5 DEF FreeDescriptor
  <1>8. DoneSlots' = DoneSlots
    BY <1>2, <1>7 DEF DoneSlots
  <1>9. Live' = Live /\ \A d : Of(d)' = Of(d)
    BY <1>5 DEF Live, Of
  <1>10. TypeOK'
    BY <1>5, <1>6 DEF IInv, TypeOK, Descriptor
  <1>11. CountsExact'
    BY <1>5, <1>6, <1>9 DEF IInv, CountsExact
  <1>12. PointsIntoLoaded' /\ OneSlotEach'
    BY <1>5, <1>6, <1>8, <1>9 DEF IInv, PointsIntoLoaded, OneSlotEach
  <1> QED
    BY <1>5, <1>8, <1>9, <1>10, <1>11, <1>12 DEF IInv, NoneUncounted, UsedOrOrphan

(* A plugin whose module could not be initialised stays loaded, without a  *)
(* module, as an orphan.                                                   *)
LEMMA InitFailsStep ==
    ASSUME IInv, ~freed, NEW t \in ModTypes, OfType(t) # {} \/ FreeSlots # {}, init_fails(t)
    PROVE  IInv'
  <1> DEFINE s == slot_for(t)
  <1>1. /\ descriptors' = Loaded(t) /\ descriptor_count' = CountLoaded(t)
        /\ orphans' = orphans \union {s}
        /\ UNCHANGED <<instance_count, modules, freed>>
    BY DEF init_fails
  <1>2. /\ s \in Slots
        /\ descriptors' \in [Slots -> Descriptor]
        /\ descriptors'[s].status = "DONE" /\ descriptors'[s].type = t
        /\ \A d \in Slots : descriptors'[d].ref_count = descriptors[d].ref_count
        /\ \A d \in Slots \ {s} : descriptors'[d] = descriptors[d]
        /\ s \in DoneSlots => descriptors'[s] = descriptors[s]
        /\ \A d \in DoneSlots : descriptors[d].type = t => d = s
        /\ descriptor_count' \in Nat
        /\ Cardinality(DoneSlots \union {s}) <= descriptor_count'
    BY <1>1, Loading
  <1> HIDE DEF s
  <1>3. DoneSlots' = DoneSlots \union {s}
    BY <1>2 DEF DoneSlots
  <1>4. Live' = Live /\ \A d : Of(d)' = Of(d)
    BY <1>1 DEF Live, Of
  <1>5. TypeOK'
    BY <1>1, <1>2 DEF IInv, TypeOK, Descriptor
  <1>6. CountsExact'
    BY <1>1, <1>2, <1>4 DEF IInv, CountsExact
  <1>7. PointsIntoLoaded'
    BY <1>1, <1>2, <1>3, <1>4 DEF IInv, PointsIntoLoaded, DoneSlots
  <1>8. OneSlotEach'
    BY <1>2, <1>3 DEF IInv, OneSlotEach, DoneSlots
  <1>9. NoneUncounted' /\ UsedOrOrphan'
    BY <1>1, <1>2, <1>3, <1>4 DEF IInv, NoneUncounted, UsedOrOrphan
  <1> QED
    BY <1>1, <1>5, <1>6, <1>7, <1>8, <1>9 DEF IInv

(* A new module counts with its slot and with the factory.                 *)
LEMMA InitDoneStep ==
    ASSUME IInv, ~freed, NEW t \in ModTypes, OfType(t) # {} \/ FreeSlots # {}, init_done(t)
    PROVE  IInv'
  <1> DEFINE s == slot_for(t)
             n == Min(Handles \ Live)
             M == [slot |-> s, type |-> t]
  <1>1. /\ descriptors' = [Loaded(t) EXCEPT ![s].ref_count = @ + 1]
        /\ descriptor_count' = CountLoaded(t)
        /\ instance_count' = instance_count + 1
        /\ modules' = [modules EXCEPT ![n] = M]
        /\ UNCHANGED <<freed, orphans>>
    BY DEF init_done
  <1>2. n \in Handles /\ n \notin Live
    <2>1. Handles \ Live # {} /\ Handles \ Live \subseteq Nat
      BY DEF init_done, Live, Handles
    <2> QED
      BY <2>1, MinOf
  <1>3. /\ s \in Slots
        /\ Loaded(t) \in [Slots -> Descriptor]
        /\ Loaded(t)[s].status = "DONE" /\ Loaded(t)[s].type = t
        /\ \A d \in Slots : Loaded(t)[d].ref_count = descriptors[d].ref_count
        /\ \A d \in Slots \ {s} : Loaded(t)[d] = descriptors[d]
        /\ s \in DoneSlots => Loaded(t)[s] = descriptors[s]
        /\ \A d \in DoneSlots : descriptors[d].type = t => d = s
        /\ descriptor_count' \in Nat
        /\ Cardinality(DoneSlots \union {s}) <= descriptor_count'
    BY <1>1, Loading
  <1>4. M # Nothing /\ M.slot = s /\ M.type = t
    BY <1>3 DEF Nothing, Slots
  <1>5. /\ descriptors \in [Slots -> Descriptor]
        /\ modules \in [Handles -> [slot : 0 .. MaxHandlers, type : ModTypes \union {NoType}]]
        /\ M \in [slot : 0 .. MaxHandlers, type : ModTypes \union {NoType}]
    BY <1>3 DEF IInv, TypeOK, Descriptor, Slots
  <1> HIDE DEF s, n, M
  <1>6. /\ modules' \in [Handles -> [slot : 0 .. MaxHandlers, type : ModTypes \union {NoType}]]
        /\ modules'[n] = M /\ \A h \in Handles \ {n} : modules'[h] = modules[h]
    BY <1>1, <1>2, <1>5
  <1>7. Live' = Live \union {n}
    BY <1>2, <1>4, <1>6 DEF Live
  <1>8. \A d : Of(d)' = IF d = s THEN Of(d) \union {n} ELSE Of(d)
    BY <1>2, <1>4, <1>6, <1>7 DEF Of, Live
  <1>9. /\ descriptors' \in [Slots -> Descriptor]
        /\ descriptors'[s].status = "DONE" /\ descriptors'[s].type = t
        /\ descriptors'[s].ref_count = descriptors[s].ref_count + 1
        /\ \A d \in Slots \ {s} : descriptors'[d] = descriptors[d]
    BY <1>1, <1>3 DEF Descriptor
  <1>10. DoneSlots' = DoneSlots \union {s}
    BY <1>3, <1>9 DEF DoneSlots
  <1>11. TypeOK'
    BY <1>1, <1>3, <1>6, <1>9 DEF IInv, TypeOK, Descriptor
  <1>12. CountsExact'
    <2>1. Cardinality(Live') = Cardinality(Live) + 1
      BY <1>2, <1>7, AllFinite, FS_AddElement
    <2>2. ASSUME NEW d \in Slots
          PROVE  descriptors'[d].ref_count = Cardinality(Of(d)')
      <3>1. n \notin Of(d) /\ IsFiniteSet(Of(d)) /\ descriptors[d].ref_count = Cardinality(Of(d))
        BY <1>2, AllFinite DEF Of, IInv, CountsExact
      <3>2. Cardinality(Of(d) \union {n}) = Cardinality(Of(d)) + 1
        BY <3>1, FS_AddElement
      <3> QED
        BY <1>8, <1>9, <3>1, <3>2
    <2>3. instance_count' = Cardinality(Live')
      BY <1>1, <2>1 DEF IInv, CountsExact
    <2> QED
      BY <2>2, <2>3 DEF CountsExact
  <1>13. PointsIntoLoaded'
    <2> SUFFICES ASSUME NEW h \in Live'
                 PROVE  /\ modules'[h].slot \in DoneSlots' /\ modules'[h].type \in ModTypes
                        /\ descriptors'[modules'[h].slot].type = modules'[h].type
      BY DEF PointsIntoLoaded
    <2>1. CASE h = n
      BY <1>4, <1>6, <1>9, <1>10, <2>1
    <2>2. CASE h # n
      <3>1. h \in Live /\ modules'[h] = modules[h]
        BY <1>6, <1>7, <2>2 DEF Live
      <3>2. /\ modules[h].slot \in DoneSlots /\ modules[h].type \in ModTypes
            /\ descriptors[modules[h].slot].type = modules[h].type
        BY <3>1 DEF IInv, PointsIntoLoaded
      <3>3. CASE modules[h].slot = s
        BY <1>3, <1>9, <1>10, <3>1, <3>2, <3>3
      <3>4. CASE modules[h].slot # s
        BY <1>9, <1>10, <3>1, <3>2, <3>4 DEF DoneSlots
      <3> QED
        BY <3>3, <3>4
    <2> QED
      BY <2>1, <2>2
  <1>14. OneSlotEach'
    BY <1>3, <1>9, <1>10 DEF IInv, OneSlotEach, DoneSlots
  <1>15. NoneUncounted' /\ UsedOrOrphan'
    BY <1>1, <1>3, <1>8, <1>10 DEF IInv, NoneUncounted, UsedOrOrphan
  <1> QED
    BY <1>1, <1>11, <1>12, <1>13, <1>14, <1>15 DEF IInv

-----------------------------------------------------------------------------
(* Deleting: a module, and the factory.                                    *)

(* The last module of a plugin frees its slot, and no other module is in   *)
(* it; another one only lowers the count.                                  *)
LEMMA DelModuleStep ==
    ASSUME IInv, tc_del_module
    PROVE  IInv'
  <1>1. PICK h \in Live, d \in Slots :
            /\ ~freed /\ d = modules[h].slot
            /\ modules' = [modules EXCEPT ![h] = Nothing]
            /\ instance_count' = instance_count - 1
            /\ IF descriptors[d].ref_count - 1 = 0
               THEN /\ descriptors' = [descriptors EXCEPT ![d] = FreeDescriptor]
                    /\ descriptor_count' = descriptor_count - 1
                    /\ orphans' = orphans \ {d}
               ELSE /\ descriptors' = [descriptors EXCEPT ![d].ref_count = @ - 1]
                    /\ UNCHANGED <<descriptor_count, orphans>>
            /\ UNCHANGED freed
    BY DEF tc_del_module, is_last, IInv, PointsIntoLoaded, DoneSlots
  <1>2. h \in Handles /\ d \in DoneSlots /\ h \in Of(d)
    BY <1>1 DEF IInv, PointsIntoLoaded, Live, Of, DoneSlots
  <1>3. /\ descriptors \in [Slots -> Descriptor]
        /\ modules \in [Handles -> [slot : 0 .. MaxHandlers, type : ModTypes \union {NoType}]]
        /\ Nothing \in [slot : 0 .. MaxHandlers, type : ModTypes \union {NoType}]
        /\ FreeDescriptor \in Descriptor
        /\ FreeDescriptor.ref_count = 0 /\ FreeDescriptor.status = "FREE"
    BY DEF IInv, TypeOK, Descriptor, Nothing, FreeDescriptor
  <1>4. /\ modules' \in [Handles -> [slot : 0 .. MaxHandlers, type : ModTypes \union {NoType}]]
        /\ modules'[h] = Nothing /\ \A g \in Handles \ {h} : modules'[g] = modules[g]
    BY <1>1, <1>2, <1>3
  <1>5. Live' = Live \ {h}
    BY <1>2, <1>4 DEF Live
  <1>6. \A e : Of(e)' = Of(e) \ {h}
    BY <1>2, <1>4, <1>5 DEF Of, Live
  <1>7. \A e \in Slots \ {d} : Of(e)' = Of(e)
    BY <1>1, <1>6 DEF Of
  <1>8. /\ Cardinality(Live') = Cardinality(Live) - 1
        /\ Cardinality(Of(d) \ {h}) = Cardinality(Of(d)) - 1
    BY <1>2, <1>5, AllFinite, FS_RemoveElement
  <1>9. descriptors[d].ref_count = Cardinality(Of(d)) /\ instance_count = Cardinality(Live)
    BY <1>2 DEF IInv, CountsExact
  <1>10. Cardinality(Of(d)) \in Nat /\ Cardinality(Of(d)) # 0
    BY <1>2, AllFinite, FS_EmptySet
  <1>11. /\ descriptors' \in [Slots -> Descriptor]
         /\ descriptors'[d].ref_count = descriptors[d].ref_count - 1
         /\ \A e \in Slots \ {d} : descriptors'[e] = descriptors[e]
    <2>1. CASE descriptors[d].ref_count - 1 = 0
      BY <1>1, <1>2, <1>3, <2>1
    <2>2. CASE descriptors[d].ref_count - 1 # 0
      <3>1. descriptors[d].ref_count - 1 \in Nat
        BY <1>9, <1>10
      <3>2. descriptors' = [descriptors EXCEPT ![d].ref_count = descriptors[d].ref_count - 1]
        BY <1>1, <2>2
      <3> QED
        BY <1>2, <1>3, <3>1, <3>2 DEF Descriptor
    <2> QED
      BY <2>1, <2>2
  <1>12. CountsExact'
    <2>1. \A e \in Slots : descriptors'[e].ref_count = Cardinality(Of(e)')
      <3> TAKE e \in Slots
      <3>1. CASE e = d
        BY <1>6, <1>8, <1>9, <1>11, <3>1
      <3>2. CASE e # d
        BY <1>7, <1>11, <3>2 DEF IInv, CountsExact
      <3> QED
        BY <3>1, <3>2
    <2>2. instance_count' = Cardinality(Live')
      BY <1>1, <1>8, <1>9
    <2> QED
      BY <2>1, <2>2 DEF CountsExact
  <1>13. instance_count' \in Nat
    <2>1. IsFiniteSet(Live) /\ Live' \subseteq Live
      BY <1>5, AllFinite
    <2> QED
      BY <1>12, <2>1, FS_Subset, FS_CardinalityType DEF CountsExact
  <1>14. CASE descriptors[d].ref_count - 1 = 0
    <2>1. /\ descriptors'[d].status = "FREE"
          /\ descriptor_count' = descriptor_count - 1 /\ orphans' = orphans \ {d}
      BY <1>1, <1>2, <1>3, <1>14
    <2>2. DoneSlots' = DoneSlots \ {d}
      BY <1>2, <1>11, <2>1 DEF DoneSlots
    <2>3. Of(d)' = {}
      <3>1. Cardinality(Of(d) \ {h}) = 0 /\ IsFiniteSet(Of(d) \ {h})
        BY <1>8, <1>9, <1>14, AllFinite, FS_RemoveElement
      <3>2. Of(d) \ {h} = {}
        BY <3>1, FS_EmptySet
      <3> QED
        BY <1>6, <3>2
    <2>4. /\ Cardinality(DoneSlots \ {d}) = Cardinality(DoneSlots) - 1
          /\ Cardinality(DoneSlots) # 0 /\ Cardinality(DoneSlots) \in Nat
      BY <1>2, AllFinite, FS_RemoveElement, FS_EmptySet
    <2>5. descriptor_count' \in Nat /\ NoneUncounted'
      BY <2>1, <2>2, <2>4 DEF IInv, TypeOK, NoneUncounted
    <2>6. PointsIntoLoaded'
      <3> SUFFICES ASSUME NEW g \in Live'
                   PROVE  /\ modules'[g].slot \in DoneSlots' /\ modules'[g].type \in ModTypes
                          /\ descriptors'[modules'[g].slot].type = modules'[g].type
        BY DEF PointsIntoLoaded
      <3>1. g \in Live /\ modules'[g] = modules[g] /\ modules[g].slot # d
        BY <1>4, <1>5, <2>3, <1>6 DEF Live, Of
      <3> QED
        BY <1>11, <2>2, <3>1 DEF IInv, PointsIntoLoaded, DoneSlots
    <2>7. OneSlotEach'
      BY <1>11, <2>2 DEF IInv, OneSlotEach, DoneSlots
    <2>8. UsedOrOrphan'
      BY <1>7, <2>1, <2>2 DEF IInv, UsedOrOrphan, DoneSlots
    <2>9. TypeOK'
      BY <1>1, <1>4, <1>11, <1>13, <2>1, <2>5 DEF IInv, TypeOK, Descriptor
    <2> QED
      BY <1>1, <1>12, <2>5, <2>6, <2>7, <2>8, <2>9 DEF IInv
  <1>15. CASE descriptors[d].ref_count - 1 # 0
    <2>1. UNCHANGED <<descriptor_count, orphans>>
      BY <1>1, <1>15
    <2>2. /\ descriptors'[d].status = descriptors[d].status
          /\ descriptors'[d].type = descriptors[d].type
      BY <1>1, <1>2, <1>3, <1>15 DEF Descriptor
    <2>3. /\ DoneSlots' = DoneSlots
          /\ \A e \in Slots : descriptors'[e].type = descriptors[e].type
      BY <1>2, <1>11, <2>2 DEF DoneSlots
    <2>4. Of(d) \ {h} # {}
      BY <1>8, <1>9, <1>15, FS_EmptySet
    <2>5. UsedOrOrphan'
      BY <1>6, <1>7, <2>1, <2>3, <2>4 DEF IInv, UsedOrOrphan, DoneSlots
    <2>6. PointsIntoLoaded'
      <3> SUFFICES ASSUME NEW g \in Live'
                   PROVE  /\ modules'[g].slot \in DoneSlots' /\ modules'[g].type \in ModTypes
                          /\ descriptors'[modules'[g].slot].type = modules'[g].type
        BY DEF PointsIntoLoaded
      <3>1. g \in Live /\ modules'[g] = modules[g]
        BY <1>4, <1>5 DEF Live
      <3> QED
        BY <2>3, <3>1 DEF IInv, PointsIntoLoaded, DoneSlots
    <2>7. OneSlotEach' /\ NoneUncounted'
      BY <2>1, <2>3 DEF IInv, OneSlotEach, NoneUncounted, DoneSlots
    <2>8. TypeOK'
      BY <1>1, <1>4, <1>11, <1>13, <2>1 DEF IInv, TypeOK, Descriptor
    <2> QED
      BY <1>1, <1>12, <2>3, <2>5, <2>6, <2>7, <2>8 DEF IInv
  <1> QED
    BY <1>14, <1>15

(* An attempt to delete the factory unloads no plugin with a module, and   *)
(* it frees the factory only when no plugin was loaded.                    *)
LEMMA DelFactoryStep ==
    ASSUME IInv, tc_del_module_factory
    PROVE  IInv'
  <1>1. /\ descriptors' = [d \in Slots |-> IF d \in Unloaded THEN FreeDescriptor ELSE descriptors[d]]
        /\ orphans' = orphans \ Unloaded
        /\ freed' = (descriptor_count = 0)
        /\ UNCHANGED <<descriptor_count, instance_count, modules>>
    BY DEF tc_del_module_factory, counters
  <1>2. \A d \in Slots : descriptors[d] \in Descriptor
    BY DEF IInv, TypeOK, Descriptor
  <1>3. \A d \in Unloaded : d \in Slots /\ descriptors[d].ref_count = 0
    <2>1. Refusing \subseteq Slots /\ Slots \subseteq Nat
      BY DEF Refusing, Slots
    <2>2. \A d \in Unloaded : d \in Slots /\ d \notin Refusing
      <3>1. CASE Refusing = {}
        BY <3>1 DEF Unloaded
      <3>2. CASE Refusing # {}
        <4>1. Min(Refusing) \in Refusing /\ \A y \in Refusing : Min(Refusing) <= y
          BY <2>1, <3>2, MinOf
        <4>2. Unloaded = {d \in Slots : d < Min(Refusing)}
          BY <3>2 DEF Unloaded
        <4>3. Min(Refusing) \in Nat
          BY <2>1, <4>1
        <4>4. ASSUME NEW d \in Unloaded PROVE d \in Slots /\ d \notin Refusing
          <5>1. d \in Slots /\ d \in Nat /\ d < Min(Refusing)
            BY <2>1, <4>2
          <5>2. ~(Min(Refusing) <= d)
            BY <4>3, <5>1
          <5> QED
            BY <4>1, <5>1, <5>2
        <4> QED
          BY <4>4
      <3> QED
        BY <3>1, <3>2
    <2> QED
      BY <1>2, <2>2 DEF Refusing, fini_refused, Descriptor
  <1>4. \A d \in Unloaded : Of(d) = {}
    BY <1>3, ZeroCount DEF IInv
  <1>5. /\ FreeDescriptor \in Descriptor
        /\ FreeDescriptor.ref_count = 0 /\ FreeDescriptor.status = "FREE"
    BY DEF FreeDescriptor, Descriptor
  <1>6. Live' = Live /\ \A d : Of(d)' = Of(d)
    BY <1>1 DEF Live, Of
  <1>7. /\ descriptors' \in [Slots -> Descriptor]
        /\ \A d \in Slots : descriptors'[d].ref_count = descriptors[d].ref_count
    BY <1>1, <1>2, <1>3, <1>5
  <1>8. DoneSlots' = DoneSlots \ Unloaded /\ \A d \in DoneSlots' : descriptors'[d] = descriptors[d]
    BY <1>1, <1>5 DEF DoneSlots
  <1>9. TypeOK'
    BY <1>1, <1>7 DEF IInv, TypeOK, Descriptor
  <1>10. CountsExact'
    BY <1>1, <1>6, <1>7 DEF IInv, CountsExact
  <1>11. PointsIntoLoaded'
    <2> SUFFICES ASSUME NEW h \in Live
                 PROVE  /\ modules[h].slot \in DoneSlots' /\ modules[h].type \in ModTypes
                        /\ descriptors'[modules[h].slot].type = modules[h].type
      BY <1>1, <1>6 DEF PointsIntoLoaded
    <2>1. modules[h].slot \notin Unloaded
      BY <1>4 DEF Of
    <2> QED
      BY <1>8, <2>1 DEF IInv, PointsIntoLoaded
  <1>12. OneSlotEach'
    BY <1>8 DEF IInv, OneSlotEach
  <1>13. Cardinality(DoneSlots') <= Cardinality(DoneSlots) /\ Cardinality(DoneSlots') \in Nat
    <2>1. IsFiniteSet(DoneSlots) /\ DoneSlots' \subseteq DoneSlots
      BY <1>8, AllFinite
    <2> QED
      BY <2>1, FS_Subset, FS_CardinalityType
  <1>14. NoneUncounted'
    BY <1>1, <1>13, AllFinite DEF IInv, TypeOK, NoneUncounted
  <1>15. UsedOrOrphan'
    BY <1>1, <1>6, <1>8 DEF IInv, UsedOrOrphan
  <1>16. freed' => DoneSlots' = {}
    <2> SUFFICES ASSUME descriptor_count = 0 PROVE DoneSlots = {}
      BY <1>1, <1>8
    <2>1. Cardinality(DoneSlots) = 0
      BY AllFinite DEF IInv, NoneUncounted
    <2> QED
      BY <2>1, AllFinite, FS_EmptySet
  <1> QED
    BY <1>9, <1>10, <1>11, <1>12, <1>14, <1>15, <1>16 DEF IInv

LEMMA NextInv == IInv /\ [Next]_vars => IInv'
  <1> SUFFICES ASSUME IInv, [Next]_vars PROVE IInv'
    OBVIOUS
  <1>1. CASE UNCHANGED vars
    BY <1>1 DEF vars, counters, IInv, TypeOK, PointsIntoLoaded, OneSlotEach, CountsExact,
                NoneUncounted, UsedOrOrphan, DoneSlots, Live, Of
  <1>2. CASE tc_new_module
    BY <1>2, LoadFailsStep, InitFailsStep, InitDoneStep DEF tc_new_module
  <1> QED
    BY <1>1, <1>2, DelModuleStep, DelFactoryStep DEF Next, Done

-----------------------------------------------------------------------------

(* For every number of slots and modules and every set of plugins: the     *)
(* class of a live module stays loaded, in one slot and with an exact      *)
(* count, a plugin without a module is unloaded unless an initialisation   *)
(* failed in it, and a factory with loaded plugins is not freed.           *)
THEOREM FactorySafe == Spec => [](ClassStaysLoaded /\ CountsExact /\ UnloadedWhenUnused)
  <1>1. IInv => ClassStaysLoaded
    <2> SUFFICES ASSUME IInv PROVE ClassStaysLoaded
      OBVIOUS
    <2>1. \A h \in Live : OfType(modules[h].type) = {modules[h].slot}
      BY DEF IInv, PointsIntoLoaded, OneSlotEach, DoneSlots, OfType
    <2>2. freed => Live = {}
      BY DEF IInv, PointsIntoLoaded
    <2> QED
      BY <2>1, <2>2 DEF ClassStaysLoaded
  <1>2. IInv => UnloadedWhenUnused
    <2> SUFFICES ASSUME IInv, NEW d \in DoneSlots
                 PROVE  (Of(d) # {} \/ d \in orphans) /\ ~freed /\ descriptor_count > 0
      BY DEF UnloadedWhenUnused, DoneSlots
    <2>1. Cardinality(DoneSlots) # 0 /\ Cardinality(DoneSlots) \in Nat
      BY AllFinite, FS_EmptySet
    <2>2. descriptor_count > 0
      BY <2>1 DEF IInv, TypeOK, NoneUncounted
    <2> QED
      BY <2>2 DEF IInv, UsedOrOrphan
  <1>3. Spec => []IInv
    BY InitInv, NextInv, PTL DEF Spec
  <1>4. IInv => CountsExact
    BY DEF IInv
  <1> QED
    BY <1>1, <1>2, <1>3, <1>4, PTL

(* The count of references of a plugin is the number of its live modules,  *)
(* through failed initialisations and deletions in any order.              *)
THEOREM ReferencesCounted == Spec => []CountsExact
  BY FactorySafe, PTL

(* A plugin without a module is unloaded, unless an initialisation failed  *)
(* in it, and a factory with loaded plugins is not freed.                  *)
THEOREM UnusedUnloaded == Spec => []UnloadedWhenUnused
  BY FactorySafe, PTL
=============================================================================
