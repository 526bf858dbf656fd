------------------------ MODULE MCMediaPermissions ------------------------
(* Instances of MediaPermissions for TLC. *)
EXTENDS MediaPermissions, TLC

Open == [guests |-> FALSE, screen |-> TRUE, video |-> TRUE, moderated |-> FALSE, max |-> 9]
Narrow == [Open EXCEPT !.max = 1, !.screen = FALSE]
Choices == {Narrow}

(* Two users, one with a microphone and a screen, one with a camera; as    *)
(* guests they may not broadcast.  Both come from one address.             *)
Users == <<1, 1>>
Staying == {<<1, 1>>, <<2, 1>>}
Equipment == <<{"microphone", "screen"}, {"camera"}>>
OneAddress == <<{1, 2}, {1, 2}>>

Symmetry == Permutations(Ops)
==========================================================================
