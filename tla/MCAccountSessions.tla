------------------------- MODULE MCAccountSessions -------------------------
(* Instances of AccountSessions for TLC. *)
EXTENDS AccountSessions, TLC

(* Requests of one kind, and the sessions of the start, are alike. *)
Symmetry ==
    UNION {Permutations(kind) : kind \in
        {Seeds, SignIns, Refreshes, Logouts, Revokers, Changers}}
=============================================================================
