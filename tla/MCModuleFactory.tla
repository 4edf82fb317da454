--------------------------- MODULE MCModuleFactory ---------------------------
(* Four plugins for three slots, so that a load may find no slot, and the  *)
(* slot that stops the deletion of the factory has others before and after *)
(* it; four modules, so that a plugin has several while another has one.   *)
EXTENDS ModuleFactory, TLC

Plugins == Permutations(ModTypes)
=============================================================================
