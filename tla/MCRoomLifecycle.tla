-------------------------- MODULE MCRoomLifecycle --------------------------
(* Instances of RoomLifecycle for TLC. *)
EXTENDS RoomLifecycle, TLC

(* Requests of one kind are interchangeable when their SQL outcomes may be *)
(* lost alike, and so are room ids.                                        *)
Alike(kind) == Permutations(kind \cap Doubtful) \cup Permutations(kind \ Doubtful)
Symmetry ==
    Alike(Joins) \cup Alike(Leaves) \cup Alike(Creates) \cup Alike(Deletes)
        \cup Alike(Writers) \cup Alike(Owners) \cup Permutations(RoomIds)
=============================================================================
