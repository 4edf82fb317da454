-------------------------- MODULE MCControlSocket --------------------------
(* Two filters, four commands and three slots: the fourth load finds the   *)
(* table full, or takes the slot of a failed initialisation again.         *)
EXTENDS ControlSocket
=============================================================================
