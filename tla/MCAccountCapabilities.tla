----------------------- MODULE MCAccountCapabilities -----------------------
(* Instances of AccountCapabilities for TLC. *)
EXTENDS AccountCapabilities, TLC
=============================================================================
