-------------------------- MODULE MCMemberSessions --------------------------
(* The sockets of one kind are interchangeable. *)
EXTENDS MemberSessions, TLC

Symmetry == Permutations(Guests) \cup Permutations(Sockets \ Guests)
=============================================================================
