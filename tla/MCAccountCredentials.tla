------------------------ MODULE MCAccountCredentials ------------------------
(* Instances of AccountCredentials for TLC. *)
EXTENDS AccountCredentials, TLC

(* Requests, the passkeys of the start and the unused session ids are      *)
(* alike.                                                                  *)
Symmetry ==
    Permutations(Requests) \cup Permutations(Keys) \cup Permutations(Sids \ Seeds)
=============================================================================
