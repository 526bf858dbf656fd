------------------------- MODULE RoomCustodyProofs -------------------------
(***************************************************************************)
(* Further proofs about RoomLifecycle, for any number of tasks of every    *)
(* kind, with expired waits, lost SQL outcomes and dying workers: a room   *)
(* is not evicted under a join that has reserved it, a quarantined id      *)
(* stays reserved until recovery takes it, the members of a room are found *)
(* under its id unless a failed deletion has revived it, and a completed   *)
(* drain leaves nobody behind.  Until a worker dies live rooms keep the    *)
(* router their creator registered and follow their row, and nothing is    *)
(* left over once every task has ended.  Recovery closes only rooms of the *)
(* worker that died.                                                       *)
(***************************************************************************)
EXTENDS RoomLifecycleProofs

----------------------------------------------------------------------------
(* The inductive invariant of eviction. *)

(* An incarnation is only ever found at the id its creator asked for. *)
Homed ==
    /\ \A t \in Tasks \ {Recovery} : pc[t] = "idle" => arc[t] = None
    /\ \A r \in RoomIds : rooms[r] \in Joins => room[rooms[r]] = r
    /\ \A t \in Tasks : arc[t] \in Joins => room[t] = room[arc[t]]

(* A deletion has tombstoned i and has neither lifted nor finished it. *)
Dooming(t, i) == arc[t] = i /\ pc[t] \in {"delete", "restore", "empty"}

(* It keeps the tombstone; while the room is mapped, or another deletion   *)
(* has found it, it keeps its token as well; so it is the only one.        *)
Doomed ==
    \A t \in Deletes, i \in Joins : Dooming(t, i) =>
        /\ state[i].deleting
        /\ rooms[room[t]] = i => token[room[t]] = t
        /\ \A u \in Deletes : pc[u] = "tombstone" /\ arc[u] = i => token[room[t]] = t
        /\ \A u \in Deletes : Dooming(u, i) => u = t

(* Under the creation lock recovery finds the room it looked up, or none. *)
Closing == pc[Recovery] = "close" => rooms[room[Recovery]] \in {arc[Recovery], None}

(* An evicted room is tombstoned, empty and out of the map; nobody has     *)
(* reserved it and no deletion will lift the tombstone.                    *)
Gone(i) ==
    /\ state[i].deleting /\ state[i].members = {}
    /\ \A t \in Joins : ~Reserved(t, i)
    /\ rooms[room[i]] # i
    /\ \A t \in Deletes : arc[t] = i => pc[t] # "tombstone" /\ ~Dooming(t, i)
Evicted == \A e \in Joins \cup Leaves : pc[e] = "teardown" => Gone(arc[e])

EvictionInvariant == PendingInvariant /\ Homed /\ Doomed /\ Closing /\ Evicted

----------------------------------------------------------------------------
(* The inductive invariant of the registry. *)

(* A mapped room is tombstoned exactly while its id is reserved. *)
TokenTells ==
    \A r \in RoomIds :
        rooms[r] # None => (state[rooms[r]].deleting <=> token[r] # None)

(* A REST update excludes creation, and every other one, by its marker. *)
Marking == {"find", "admit", "persist", "announce", "quarantine", "dormant", "write"}
Marked ==
    \A o \in Owners :
        /\ pc[o] \in Marking =>
             /\ room[o] \in identity
             /\ \A u \in Owners : pc[u] \in Marking /\ room[u] = room[o] => u = o
        /\ pc[o] \in {"dormant", "write"} => rooms[room[o]] = None

(* A room is built where nothing is reserved, and it is built live. *)
Unclaimed ==
    \A t \in Joins :
        /\ Building(t) => token[room[t]] = None /\ room[t] \notin identity
        /\ pc[t] \in {"route", "register", "publish"} => ~state[t].deleting

(* While a task holds the reservation of an id, nobody else's room is      *)
(* mapped there.                                                           *)
Claiming ==
    /\ \A r \in RoomIds : token[r] = Recovery => rooms[r] = None
    /\ \A t \in Joins \cup Leaves \cup Deletes :
         pc[t] = "teardown" /\ token[room[t]] = t => rooms[room[t]] = None
    /\ \A t \in Deletes :
         /\ pc[t] = "tombstone" => rooms[room[t]] \in {None, arc[t]}
         /\ pc[t] \in {"delete", "restore", "empty"} /\ token[room[t]] = t
              => rooms[room[t]] \in {None, arc[t]}

(* The map stays empty once a drain has emptied it. *)
Cleared == \A d \in Drains : pc[d] = "clear" => \A r \in RoomIds : rooms[r] = None

Registry == TokenTells /\ Marked /\ Unclaimed /\ Claiming /\ Cleared

(* Until a worker dies, whoever is tearing a room down or sweeping it, and *)
(* a deletion that has reserved its id, still holds the reservation.       *)
Holding ==
    /\ \A t \in Joins \cup Leaves \cup Deletes :
         pc[t] = "teardown" => token[room[t]] = t /\ rooms[room[t]] = None
    /\ \A t \in Writers \cup Owners : pc[t] = "sweep" => token[room[t]] = t
    /\ \A t \in Deletes :
         /\ pc[t] \in {"tombstone", "delete", "restore", "empty"}
              => rooms[room[t]] \in {None, arc[t]}
         /\ pc[t] \in {"delete", "restore", "empty"} => token[room[t]] = t

(* A room that is live, or may yet be restored, has its own router. *)
Equipped == \A t \in Joins : pc[t] = "publish" => routers[room[t]] = t
Restorable(i) == \E t \in Deletes : arc[t] = i /\ pc[t] \in {"delete", "restore"}
Routed ==
    \A r \in RoomIds :
        rooms[r] # None /\ (~state[rooms[r]].deleting \/ Restorable(rooms[r]))
            => routers[r] = rooms[r]

Custody == Registry /\ pc[Recovery] = "idle" /\ Holding /\ Equipped /\ Routed
CustodyInvariant == Healthy => Custody

----------------------------------------------------------------------------
(* What a step of t does to incarnations, reservations and deletions. *)

(* t keeps its room once it has one, and finds an Arc only in the map at   *)
(* that id or by publishing its own room.                                  *)
OwnArc(t) ==
    /\ t # Recovery => pc'[t] # "idle"
    /\ t # Recovery /\ pc[t] # "idle" => room'[t] = room[t]
    /\ \/ arc'[t] = arc[t] /\ (room'[t] = room[t] \/ (t # Recovery /\ pc[t] = "idle"))
       \/ room'[t] \in RoomIds /\ arc'[t] = rooms[room'[t]]
       \/ arc'[t] = t /\ room[t] \in RoomIds /\ rooms'[room[t]] = t

(* t overwrites a reservation only under the creation lock, unmapping the  *)
(* room, and otherwise removes none but its own, as its last step there.   *)
OwnTokens(t) ==
    \A r \in RoomIds : token'[r] # token[r] =>
        \/ token[r] = None
        \/ token[r] = t /\ pc'[t] \in Ended \cup {"next"}
        \/ t \in Joins \cup Leaves \cup {Recovery} /\ creation = t /\ rooms'[r] = None

(* Only a new room and a restored one are live again, and a restore that   *)
(* does not find its room mapped says so; only a join that has reserved a  *)
(* live room enters it, and none once the drain has begun.                 *)
OwnState(t) ==
    \A i \in Joins :
        /\ state[i].deleting /\ ~state'[i].deleting =>
             \/ t = i /\ pc[t] = "load"
             \/ /\ t \in Deletes /\ pc[t] = "restore" /\ arc[t] = i /\ pc'[t] \in Ended
                /\ rooms[room[t]] = i \/ pc'[t] = "revived"
        /\ \/ state'[i].members \subseteq state[i].members
           \/ t \in Joins /\ Reserved(t, i) /\ ~state[i].deleting /\ ~draining

(* A deletion finds its room in the map and reserves a free id. *)
OwnDeletion(t) ==
    t \in Deletes =>
        /\ pc'[t] = "tombstone" =>
             pc[t] = "lock" /\ arc'[t] = rooms[room[t]] /\ token' = token
        /\ pc'[t] \in {"delete", "restore", "empty"} =>
             /\ arc'[t] = arc[t]
             /\ \/ pc[t] \in {"delete", "restore", "empty"}
                \/ /\ pc[t] = "tombstone"
                   /\ token[room[t]] = None /\ token'[room[t]] = t
                   /\ arc[t] \in Joins => state'[arc[t]].deleting

(* A join reserves a live room or its own. *)
OwnReservation(t) ==
    t \in Joins => \A i \in Joins :
        Reserved(t, i)' => Reserved(t, i) \/ ~state[i].deleting \/ (i = t /\ pc[t] = "publish")

(* An eviction finds the room mapped, live, empty and unreserved. *)
OwnEviction(t) ==
    t \in Joins \cup Leaves /\ pc'[t] = "teardown" =>
        LET i == arc[t] IN
        /\ creation = t /\ arc'[t] = i
        /\ rooms[room[t]] = i /\ ~state[i].deleting
        /\ rooms'[room[t]] = None
        /\ state'[i].deleting /\ state'[i].members = {} /\ state'[i].pending = 0

OwnCustody(t) ==
    /\ OwnArc(t) /\ OwnTokens(t) /\ OwnState(t)
    /\ OwnDeletion(t) /\ OwnReservation(t) /\ OwnEviction(t)

(* The members and the tombstone after each operator on a Room. *)
LEMMA OperatorMembers ==
    ASSUME NEW s \in RoomStates
    PROVE  /\ Tombstoned(s).members = s.members
           /\ Emptied(s).members = {}
           /\ Restored(s).members = s.members
           /\ Unreserved(s).members = s.members
           /\ \A t : Seated(s, t).members = s.members \cup {t}
           /\ \A t, gone : Published(s, t, gone).members = s.members \ gone
           /\ \A m : /\ [s EXCEPT !.members = m].members = m
                     /\ [s EXCEPT !.deleting = TRUE, !.members = m].members = m
                     /\ [s EXCEPT !.deleting = TRUE, !.members = m].deleting
           /\ \A n : [s EXCEPT !.pending = n].members = s.members
  BY DEF RoomStates, Tombstoned, Emptied, Restored, Unreserved, Seated, Published

(* Steps of a join. *)
LEMMA JoinCustody ==
    ASSUME TypeOK, Placed, CreationExclusive, NEW t \in Joins, Join(t)
    PROVE  OwnCustody(t)
  <1> USE DEF registryVars, taskVars, Goto
  <1>0. /\ t \in Tasks /\ t # Recovery /\ t \notin Deletes /\ None \notin Tasks
        /\ state \in [Joins -> RoomStates]
    BY Kinds, TaskAssumption DEF TypeOK
  <1>r. /\ pc \in [Tasks -> Labels] /\ room \in [Tasks -> RoomIds \cup {None}]
        /\ arc \in [Tasks -> Joins \cup {None}] /\ token \in [RoomIds -> Tasks \cup {None}]
        /\ rooms \in [RoomIds -> Joins \cup {None}]
    BY DEF TypeOK
  <1>1. OwnArc(t)
    BY <1>0, <1>r DEF OwnArc, Placed, Join, JoinLookup, JoinReserve, JoinCreate, JoinLoad,
       JoinRoute, JoinRegister, JoinRollback, JoinPublish, JoinSnapshot, JoinControl,
       JoinRefused, JoinInsert, DropCreation, DropRelease, Teardown
  <1>2. pc[t] = "release" => creation = t
    BY <1>0 DEF CreationExclusive, UnderCreation
  <1>3. OwnTokens(t)
    BY <1>0, <1>r, <1>2 DEF OwnTokens, Join, JoinLookup, JoinReserve, JoinCreate, JoinLoad,
       JoinRoute, JoinRegister, JoinRollback, JoinPublish, JoinSnapshot, JoinControl,
       JoinRefused, JoinInsert, DropCreation, DropRelease, Evict, Teardown, Release, Ended
  <1>4. OwnState(t)
    <2> SUFFICES ASSUME NEW i \in Joins
                 PROVE  /\ state[i].deleting /\ ~state'[i].deleting => t = i /\ pc[t] = "load"
                        /\ \/ state'[i].members \subseteq state[i].members
                           \/ Reserved(t, i) /\ ~state[i].deleting /\ ~draining
      BY <1>0 DEF OwnState
    <2>1. PICK s \in RoomStates : s = state[i]
      BY <1>0
    <2>2. CASE JoinReserve(t) \/ JoinPublish(t)
      <3>1. \/ state'[i] = s \/ state'[i] = [s EXCEPT !.pending = s.pending + 1]
            \/ state'[i] = [s EXCEPT !.pending = 1]
        BY <1>0, <2>1, <2>2 DEF JoinReserve, JoinPublish
      <3> QED BY <2>1, <3>1 DEF RoomStates
    <2>3. CASE JoinLoad(t)
      <3>1. state'[i] = s \/ (t = i /\ state'[i].members = {} /\ pc[t] = "load")
        BY <1>0, <2>1, <2>3 DEF JoinLoad, NewRoom
      <3> QED BY <2>1, <3>1
    <2>4. CASE JoinInsert(t)
      <3>1. \/ state'[i] = s
            \/ state'[i] = Seated(s, t) /\ Reserved(t, i) /\ ~s.deleting /\ ~draining
        BY <1>0, <2>1, <2>4 DEF JoinInsert, Reserved, PolicyUnchanged
      <3> QED BY <2>1, <3>1, OperatorFields
    <2>5. CASE DropRelease(t)
      <3>1. state'[i] = s \/ state'[i] = Unreserved(s) \/ state'[i] = Tombstoned(Unreserved(s))
        BY <1>0, <2>1, <2>5 DEF DropRelease, Evict
      <3>2. Unreserved(s) \in RoomStates
        BY RoomOperators
      <3> QED BY <2>1, <3>1, <3>2, OperatorFields, OperatorMembers
    <2>6. CASE state' = state
      BY <2>6
    <2> QED BY <2>2, <2>3, <2>4, <2>5, <2>6 DEF Join, JoinLookup, JoinCreate, JoinRoute,
            JoinRegister, JoinRollback, JoinSnapshot, JoinControl, JoinRefused, DropCreation,
            Teardown
  <1>5. OwnReservation(t)
    <2> SUFFICES ASSUME NEW i \in Joins, Reserved(t, i)', ~Reserved(t, i)
                 PROVE  ~state[i].deleting \/ (i = t /\ pc[t] = "publish")
      BY DEF OwnReservation
    <2>1. JoinReserve(t) \/ JoinPublish(t)
      BY <1>0, <1>r DEF Reserved, Join, JoinLookup, JoinCreate, JoinLoad, JoinRoute,
         JoinRegister, JoinRollback, JoinSnapshot, JoinControl, JoinRefused, JoinInsert,
         DropCreation, DropRelease, Teardown
    <2> QED BY <1>0, <1>r, <2>1 DEF Reserved, JoinReserve, JoinPublish
  <1>6. OwnEviction(t)
    <2> SUFFICES ASSUME pc'[t] = "teardown" PROVE OwnEviction(t)
      BY DEF OwnEviction
    <2>1. DropRelease(t)
      BY <1>0, <1>r DEF Join, JoinLookup, JoinReserve, JoinCreate, JoinLoad, JoinRoute,
         JoinRegister, JoinRollback, JoinPublish, JoinSnapshot, JoinControl, JoinRefused,
         JoinInsert, DropCreation, Teardown
    <2>2. arc[t] \in Joins /\ room[t] \in RoomIds
      BY <1>0, <2>1 DEF Placed, DropRelease
    <2>3. PICK s \in RoomStates : s = Unreserved(state[arc[t]])
      BY <1>0, <2>2, RoomOperators
    <2>4. /\ Evictable(room[t], arc[t], s) /\ Evict(t, room[t], arc[t], s)
          /\ arc'[t] = arc[t] /\ pc[t] = "release"
      BY <1>0, <1>r, <2>1, <2>3 DEF DropRelease
    <2>5. state'[arc[t]] = Tombstoned(s) /\ rooms'[room[t]] = None
      BY <1>0, <1>r, <2>2, <2>4 DEF Evict
    <2>6. s.deleting = state[arc[t]].deleting
      BY <1>0, <2>2, <2>3, OperatorFields
    <2> QED BY <1>2, <2>3, <2>4, <2>5, <2>6, OperatorFields, OperatorMembers
            DEF OwnEviction, Evictable
  <1> QED BY <1>0, <1>1, <1>3, <1>4, <1>5, <1>6 DEF OwnCustody, OwnDeletion

(* Steps of a leave. *)
LEMMA LeaveCustody ==
    ASSUME TypeOK, Placed, CreationExclusive, NEW t \in Leaves, Leave(t)
    PROVE  OwnCustody(t)
  <1> USE DEF registryVars, taskVars, Goto
  <1>0. /\ t \in Tasks /\ t # Recovery /\ t \notin Deletes /\ t \notin Joins
        /\ None \notin Tasks /\ state \in [Joins -> RoomStates]
    BY Kinds, TaskAssumption DEF TypeOK
  <1>r. /\ pc \in [Tasks -> Labels] /\ room \in [Tasks -> RoomIds \cup {None}]
        /\ arc \in [Tasks -> Joins \cup {None}] /\ token \in [RoomIds -> Tasks \cup {None}]
        /\ rooms \in [RoomIds -> Joins \cup {None}]
    BY DEF TypeOK
  <1>1. OwnArc(t)
    BY <1>0, <1>r DEF OwnArc, Leave, LeaveLookup, LeaveRemove, LeaveCreation, LeaveEvict,
       Teardown
  <1>2. pc[t] = "recheck" => creation = t
    BY <1>0 DEF CreationExclusive, UnderCreation
  <1>3. OwnTokens(t)
    BY <1>0, <1>r, <1>2 DEF OwnTokens, Leave, LeaveLookup, LeaveRemove, LeaveCreation,
       LeaveEvict, Evict, Teardown, Release, Ended
  <1>4. OwnState(t)
    <2> SUFFICES ASSUME NEW i \in Joins
                 PROVE  /\ state[i].deleting => state'[i].deleting
                        /\ state'[i].members \subseteq state[i].members
      BY <1>0 DEF OwnState
    <2>1. PICK s \in RoomStates : s = state[i]
      BY <1>0
    <2>2. \/ state'[i] = s \/ state'[i] = Tombstoned(s)
          \/ state'[i] = [s EXCEPT !.members = s.members \ {victim[t]}]
      BY <1>0, <2>1 DEF Leave, LeaveLookup, LeaveRemove, LeaveCreation, LeaveEvict, Evict,
         Teardown
    <2> QED BY <2>1, <2>2 DEF RoomStates, Tombstoned
  <1>6. OwnEviction(t)
    <2> SUFFICES ASSUME pc'[t] = "teardown" PROVE OwnEviction(t)
      BY DEF OwnEviction
    <2>1. LeaveEvict(t)
      BY <1>0, <1>r DEF Leave, LeaveLookup, LeaveRemove, LeaveCreation, Teardown
    <2>2. arc[t] \in Joins /\ room[t] \in RoomIds
      BY <1>0, <2>1 DEF Placed, LeaveEvict
    <2>3. PICK s \in RoomStates : s = state[arc[t]]
      BY <1>0, <2>2
    <2>4. /\ Evictable(room[t], arc[t], s) /\ Evict(t, room[t], arc[t], s)
          /\ arc'[t] = arc[t] /\ pc[t] = "recheck"
      BY <1>0, <1>r, <2>1, <2>3 DEF LeaveEvict
    <2>5. state'[arc[t]] = Tombstoned(s) /\ rooms'[room[t]] = None
      BY <1>0, <1>r, <2>2, <2>4 DEF Evict
    <2> QED BY <1>2, <2>3, <2>4, <2>5, OperatorFields, OperatorMembers
            DEF OwnEviction, Evictable
  <1> QED BY <1>0, <1>1, <1>3, <1>4, <1>6 DEF OwnCustody, OwnDeletion, OwnReservation

(* Steps of a create_persisted_room. *)
LEMMA CreateCustody ==
    ASSUME TypeOK, NEW t \in Creates, Create(t)
    PROVE  OwnCustody(t)
  <1> USE DEF registryVars, taskVars, Goto
  <1>0. /\ t \in Tasks /\ t # Recovery /\ t \notin Joins \cup Leaves \cup Deletes
        /\ pc \in [Tasks -> Labels]
    BY Kinds DEF TypeOK
  <1>1. token' = token /\ state' = state /\ arc' = arc
    BY DEF Create, CreateLock, CreateInsert
  <1>2. OwnArc(t)
    BY <1>0, <1>1 DEF OwnArc, Create, CreateLock, CreateInsert
  <1> QED BY <1>0, <1>1, <1>2 DEF OwnCustody, OwnTokens, OwnState, OwnDeletion,
             OwnReservation,
          OwnEviction

(* Steps of a delete_persisted_room. *)
LEMMA DeleteCustody ==
    ASSUME TypeOK, Placed, NEW t \in Deletes, Delete(t)
    PROVE  OwnCustody(t)
  <1> USE DEF registryVars, taskVars, Goto
  <1>0. /\ t \in Tasks /\ t # Recovery /\ t \notin Joins \cup Leaves
        /\ None \notin Tasks /\ None \notin Joins /\ state \in [Joins -> RoomStates]
    BY Kinds, TaskAssumption DEF TypeOK
  <1>r. /\ pc \in [Tasks -> Labels] /\ room \in [Tasks -> RoomIds \cup {None}]
        /\ arc \in [Tasks -> Joins \cup {None}] /\ token \in [RoomIds -> Tasks \cup {None}]
        /\ rooms \in [RoomIds -> Joins \cup {None}]
    BY DEF TypeOK
  <1>1. OwnArc(t)
    BY <1>0, <1>r DEF OwnArc, Placed, Delete, DeleteRead, DeleteLock, DeleteTombstone,
       DeleteRow, DeleteRestore, DeleteEmpty, Teardown
  <1>2. OwnTokens(t)
    BY <1>0, <1>r DEF OwnTokens, Delete, DeleteRead, DeleteLock, DeleteTombstone, DeleteRow,
       DeleteRestore, DeleteEmpty, Teardown, Release, Ended
  <1>3. OwnState(t)
    <2> SUFFICES ASSUME NEW i \in Joins
                 PROVE  /\ state[i].deleting /\ ~state'[i].deleting =>
                             /\ pc[t] = "restore" /\ arc[t] = i /\ pc'[t] \in Ended
                             /\ rooms[room[t]] = i \/ pc'[t] = "revived"
                        /\ state'[i].members \subseteq state[i].members
      BY DEF OwnState
    <2>1. PICK s \in RoomStates : s = state[i]
      BY <1>0
    <2>2. \/ state'[i] = s \/ state'[i] = Tombstoned(s)
          \/ state'[i] = [s EXCEPT !.members = {}]
          \/ /\ state'[i] = Restored(s)
             /\ pc[t] = "restore" /\ arc[t] = i /\ pc'[t] \in Ended
             /\ rooms[room[t]] = i \/ pc'[t] = "revived"
      <3>1. CASE DeleteRestore(t)
        <4>1. pc[t] = "restore" /\ room[t] \in RoomIds /\ t \in Tasks
          BY <1>0, <3>1 DEF DeleteRestore, Placed
        <4>2. CASE state' = state
          BY <2>1, <4>2
        <4>3. CASE state' # state
          <5>1. /\ arc[t] \in Joins
                /\ state' = [state EXCEPT ![arc[t]] = Restored(state[arc[t]])]
            BY <1>0, <1>r, <3>1, <4>3 DEF DeleteRestore
          <5>2. pc'[t] \in Ended /\ (rooms[room[t]] = arc[t] \/ pc'[t] = "revived")
            BY <1>0, <1>r, <3>1, <4>1, <4>3, <5>1 DEF DeleteRestore, Ended
          <5> QED BY <1>0, <2>1, <4>1, <5>1, <5>2
        <4> QED BY <4>2, <4>3
      <3>2. CASE DeleteTombstone(t) \/ DeleteEmpty(t)
        BY <1>0, <2>1, <3>2 DEF DeleteTombstone, DeleteEmpty
      <3>3. CASE state' = state
        BY <2>1, <3>3
      <3> QED BY <3>1, <3>2, <3>3 DEF Delete, DeleteRead, DeleteLock, DeleteRow, Teardown
    <2> QED BY <2>1, <2>2 DEF RoomStates, Tombstoned, Restored
  <1>4. OwnDeletion(t)
    <2>1. pc'[t] = "tombstone" =>
             pc[t] = "lock" /\ arc'[t] = rooms[room[t]] /\ token' = token
      BY <1>0, <1>r DEF Delete, DeleteRead, DeleteLock, DeleteTombstone, DeleteRow,
         DeleteRestore, DeleteEmpty, Teardown
    <2>2. ASSUME pc'[t] \in {"delete", "restore", "empty"}
          PROVE  /\ arc'[t] = arc[t]
                 /\ pc[t] \in {"delete", "restore", "empty"} \/ DeleteTombstone(t)
      BY <1>0, <1>r, <2>2 DEF Delete, DeleteRead, DeleteLock, DeleteTombstone, DeleteRow,
         DeleteRestore, DeleteEmpty, Teardown
    <2>3. ASSUME DeleteTombstone(t), pc'[t] \in {"delete", "restore", "empty"}
          PROVE  /\ pc[t] = "tombstone" /\ token[room[t]] = None /\ token'[room[t]] = t
                 /\ arc[t] \in Joins => state'[arc[t]].deleting
      <3>1. room[t] \in RoomIds
        BY <2>3 DEF DeleteTombstone, Placed
      <3>2. arc[t] \in Joins => state'[arc[t]] = Tombstoned(state[arc[t]])
        BY <1>0, <1>r, <2>3 DEF DeleteTombstone
      <3>3. arc[t] \in Joins => state'[arc[t]].deleting
        BY <1>0, <3>2, OperatorFields
      <3> QED BY <1>0, <1>r, <2>3, <3>1, <3>3 DEF DeleteTombstone
    <2> QED BY <2>1, <2>2, <2>3 DEF OwnDeletion
  <1> QED BY <1>0, <1>1, <1>2, <1>3, <1>4 DEF OwnCustody, OwnReservation, OwnEviction

(* Steps of a policy write. *)
LEMMA WriteCustody ==
    ASSUME TypeOK, Placed, NEW t \in Writers \cup Owners,
           \/ WriterLookup(t) \/ OwnerMark(t) \/ OwnerFind(t) \/ Write(t)
           \/ DormantCheck(t) \/ DormantWrite(t)
    PROVE  OwnCustody(t)
  <1> USE DEF registryVars, taskVars, Goto
  <1>0. /\ t \in Tasks /\ t # Recovery /\ t \notin Joins \cup Leaves \cup Deletes
        /\ state \in [Joins -> RoomStates]
    BY Kinds DEF TypeOK
  <1>r. /\ pc \in [Tasks -> Labels] /\ room \in [Tasks -> RoomIds \cup {None}]
        /\ arc \in [Tasks -> Joins \cup {None}] /\ token \in [RoomIds -> Tasks \cup {None}]
        /\ rooms \in [RoomIds -> Joins \cup {None}]
    BY DEF TypeOK
  <1>1. OwnArc(t)
    BY <1>0, <1>r DEF OwnArc, Placed, Write, WriterLookup, OwnerMark, OwnerFind, Admit,
       Persist, Announce, Quarantine, Sweep, DormantCheck, DormantWrite
  <1>2. OwnTokens(t)
    BY <1>0, <1>r DEF OwnTokens, Write, WriterLookup, OwnerMark, OwnerFind, Admit,
       Persist, Announce, Quarantine, Sweep, DormantCheck, DormantWrite
  <1>3. OwnState(t)
    <2> SUFFICES ASSUME NEW i \in Joins
                 PROVE  /\ state[i].deleting => state'[i].deleting
                        /\ state'[i].members \subseteq state[i].members
      BY <1>0 DEF OwnState
    <2>1. PICK s \in RoomStates : s = state[i]
      BY <1>0
    <2>2. \/ state'[i] = s \/ state'[i] = Emptied(s)
          \/ \E gone : state'[i] = Published(s, t, gone)
      BY <1>0, <2>1 DEF Write, WriterLookup, OwnerMark, OwnerFind, Admit, Persist, Announce,
         Quarantine, Sweep, DormantCheck, DormantWrite
    <2> QED BY <2>1, <2>2, OperatorFields, OperatorMembers
  <1> QED BY <1>0, <1>1, <1>2, <1>3 DEF OwnCustody, OwnDeletion, OwnReservation, OwnEviction

(* Steps of worker recovery. *)
LEMMA RecoverCustody ==
    ASSUME TypeOK, Placed, CreationExclusive, Closing, NEW t \in {Recovery}, Recover(t)
    PROVE  OwnCustody(t)
  <1> USE DEF registryVars, taskVars, Goto
  <1>0. /\ t \in Tasks /\ t = Recovery /\ t \notin Joins \cup Leaves \cup Deletes
        /\ state \in [Joins -> RoomStates] /\ None \notin Tasks /\ affected \subseteq RoomIds
    BY Kinds, TaskAssumption DEF TypeOK
  <1>r. /\ pc \in [Tasks -> Labels] /\ room \in [Tasks -> RoomIds \cup {None}]
        /\ arc \in [Tasks -> Joins \cup {None}] /\ token \in [RoomIds -> Tasks \cup {None}]
        /\ rooms \in [RoomIds -> Joins \cup {None}]
    BY DEF TypeOK
  <1>1. OwnArc(t)
    BY <1>0, <1>r DEF OwnArc, Recover, RecoverSnapshot, RecoverReplace, RecoverNext,
       RecoverLock, RecoverClose, Teardown
  <1>2. pc[t] = "close" => creation = t /\ rooms[room[t]] \in {arc[t], None}
    BY <1>0 DEF CreationExclusive, UnderCreation, Closing
  <1>3. OwnTokens(t)
    BY <1>0, <1>r, <1>2 DEF OwnTokens, Recover, RecoverSnapshot, RecoverReplace,
       RecoverNext,
       RecoverLock, RecoverClose, Teardown, Release
  <1>4. OwnState(t)
    <2> SUFFICES ASSUME NEW i \in Joins
                 PROVE  /\ state[i].deleting => state'[i].deleting
                        /\ state'[i].members \subseteq state[i].members
      BY <1>0 DEF OwnState
    <2>1. PICK s \in RoomStates : s = state[i]
      BY <1>0
    <2>2. state'[i] = s \/ state'[i] = Emptied(s)
      BY <1>0, <2>1 DEF Recover, RecoverSnapshot, RecoverReplace, RecoverNext, RecoverLock,
         RecoverClose, Teardown
    <2> QED BY <2>1, <2>2, OperatorFields, OperatorMembers
  <1> QED BY <1>0, <1>1, <1>3, <1>4 DEF OwnCustody, OwnDeletion, OwnReservation, OwnEviction

(* Steps of a drain. *)
LEMMA DrainCustody ==
    ASSUME TypeOK, NEW t \in Drains, Drain(t)
    PROVE  OwnCustody(t)
  <1> USE DEF registryVars, taskVars, Goto
  <1>0. /\ t \in Tasks /\ t # Recovery /\ t \notin Joins \cup Leaves \cup Deletes
        /\ state \in [Joins -> RoomStates] /\ pc \in [Tasks -> Labels]
    BY Kinds DEF TypeOK
  <1>1. token' = token /\ room' = room /\ arc' = arc
    BY DEF Drain, DrainBegin, DrainMap, DrainRoom, DrainEnd
  <1>2. OwnArc(t)
    BY <1>0, <1>1 DEF OwnArc, Drain, DrainBegin, DrainMap, DrainRoom, DrainEnd
  <1>3. OwnState(t)
    <2> SUFFICES ASSUME NEW i \in Joins
                 PROVE  /\ state[i].deleting => state'[i].deleting
                        /\ state'[i].members \subseteq state[i].members
      BY <1>0 DEF OwnState
    <2>1. PICK s \in RoomStates : s = state[i]
      BY <1>0
    <2>2. state'[i] = s \/ state'[i] = [s EXCEPT !.deleting = TRUE, !.members = {}]
      BY <1>0, <2>1 DEF Drain, DrainBegin, DrainMap, DrainRoom, DrainEnd
    <2> QED BY <2>1, <2>2 DEF RoomStates
  <1> QED BY <1>0, <1>1, <1>2, <1>3 DEF OwnCustody, OwnTokens, OwnDeletion, OwnReservation,
          OwnEviction

(* A step of a request obeys the frame. *)
LEMMA StepCustody ==
    ASSUME SafetyInvariant, Closing, NEW t \in Tasks, Step(t)
    PROVE  OwnCustody(t)
  <1> USE DEF SafetyInvariant
  <1>1. CASE t \in Joins /\ Join(t)
    BY <1>1, JoinCustody
  <1>2. CASE t \in Leaves /\ Leave(t)
    BY <1>2, LeaveCustody
  <1>3. CASE t \in Creates /\ Create(t)
    BY <1>3, CreateCustody
  <1>4. CASE t \in Deletes /\ Delete(t)
    BY <1>4, DeleteCustody
  <1>5. CASE \/ t \in Writers /\ (WriterLookup(t) \/ Write(t))
             \/ t \in Owners /\ (OwnerMark(t) \/ OwnerFind(t) \/ Write(t) \/ DormantCheck(t)
                                   \/ DormantWrite(t))
    BY <1>5, WriteCustody
  <1>6. CASE t \in Drains /\ Drain(t)
    BY <1>6, DrainCustody
  <1>7. CASE t = Recovery /\ Recover(t)
    BY <1>7, RecoverCustody
  <1> QED BY <1>1, <1>2, <1>3, <1>4, <1>5, <1>6, <1>7 DEF Step

----------------------------------------------------------------------------
(* A room is not evicted under a join that has reserved it. *)

(* A published incarnation keeps its id; an unpublished one cannot be      *)
(* held, mapped or evicted.                                                *)
LEMMA HomedStep ==
    ASSUME TypeOK, Known, Homed, NEW t \in Tasks, OwnPlace(t), OwnRooms(t), OwnCustody(t)
    PROVE  /\ Homed'
           /\ \A i \in Joins : ~Unpublished(i) => room'[i] = room[i]
  <1> USE DEF OwnCustody
  <1>0. None \notin Joins /\ Recovery \notin Joins /\ Joins \subseteq Tasks
    BY Kinds
  <1>1. ASSUME NEW i \in Joins, ~Unpublished(i)
        PROVE  room'[i] = room[i]
    BY <1>0, <1>1 DEF OwnPlace, OwnArc, Unpublished, Early
  <1>2. ASSUME NEW u \in Tasks \ {Recovery}, pc'[u] = "idle"
        PROVE  arc'[u] = None
    BY <1>2 DEF OwnPlace, OwnArc, Homed
  <1>3. ASSUME NEW r \in RoomIds, rooms'[r] \in Joins
        PROVE  room'[rooms'[r]] = r
    <2>1. CASE rooms'[r] = rooms[r]
      BY <1>1, <1>3, <2>1 DEF Homed, Known
    <2>2. CASE rooms'[r] # rooms[r]
      <3>1. t \in Joins /\ pc[t] = "publish" /\ r = room[t] /\ rooms'[r] = t
        BY <1>0, <1>3, <2>2 DEF OwnRooms
      <3> QED BY <1>0, <3>1 DEF OwnArc
    <2> QED BY <2>1, <2>2
  <1>4. ASSUME NEW u \in Tasks, arc'[u] \in Joins
        PROVE  room'[u] = room'[arc'[u]]
    <2>1. CASE arc'[u] = arc[u] /\ room'[u] = room[u]
      BY <1>1, <1>4, <2>1 DEF Homed, Known
    <2>2. CASE u = t /\ arc'[t] = arc[t] /\ t # Recovery /\ pc[t] = "idle"
      BY <1>0, <1>4, <2>2 DEF Homed
    <2>3. CASE u = t /\ room'[t] \in RoomIds /\ arc'[t] = rooms[room'[t]]
      BY <1>1, <1>4, <2>3 DEF Homed, Known
    <2>4. CASE u = t /\ arc'[t] = t
      BY <2>4
    <2> QED BY <2>1, <2>2, <2>3, <2>4 DEF OwnPlace, OwnArc
  <1> QED BY <1>1, <1>2, <1>3, <1>4 DEF Homed

(* Under the creation lock nobody maps a room for recovery to miss. *)
LEMMA ClosingStep ==
    ASSUME TypeOK, Placed, CreationExclusive, Known, Homed, Closing, NEW t \in Tasks, Step(t),
           OwnPlace(t), OwnRooms(t)
    PROVE  Closing'
  <1> SUFFICES ASSUME pc'[Recovery] = "close"
               PROVE  rooms'[room'[Recovery]] \in {arc'[Recovery], None}
    BY DEF Closing
  <1>1. CASE t = Recovery
    <2>1. Recover(t)
      BY <1>1, Kinds DEF Step
    <2>2. RecoverLock(t)
      BY <1>1, <2>1, Kinds DEF TypeOK, Recover, RecoverSnapshot, RecoverReplace,
         RecoverNext,
         RecoverClose, Teardown, Goto
    <2> QED BY <1>1, <2>2, Kinds DEF RecoverLock, StillAffected, registryVars, taskVars,
               TypeOK,
            Goto
  <1>2. CASE t # Recovery
    <2>1. UNCHANGED <<pc[Recovery], room[Recovery], arc[Recovery]>>
      BY <1>2, Kinds DEF OwnPlace
    <2>2. creation = Recovery
      BY <2>1, Kinds DEF CreationExclusive, UnderCreation
    <2>3. ~(t \in Joins /\ pc[t] = "publish")
      BY <1>2, <2>2 DEF CreationExclusive, UnderCreation
    <2>4. room[Recovery] \in RoomIds
      <3>1. arc[Recovery] \in Joins /\ room[Recovery] = room[arc[Recovery]]
        BY <2>1, Kinds DEF Placed, Homed
      <3> QED BY <3>1, Kinds DEF Known, Unpublished, Early, Placed
    <2> QED BY <2>1, <2>3, <2>4 DEF Closing, OwnRooms
  <1> QED BY <1>1, <1>2

(* Two deletions never doom the same room: the second finds it reserved. *)
LEMMA DoomedStep ==
    ASSUME TypeOK, Placed, CreationExclusive, Known, Homed, Doomed, NEW t \in Tasks,
           OwnPlace(t), OwnRooms(t), OwnCustody(t)
    PROVE  Doomed'
  <1> USE DEF OwnCustody
  <1>0. /\ None \notin Tasks /\ Joins \subseteq Tasks /\ Deletes \subseteq Tasks
        /\ Deletes \cap (Joins \cup Leaves \cup {Recovery}) = {} /\ None \notin Joins
    BY Kinds, TaskAssumption
  <1> SUFFICES ASSUME NEW d \in Deletes, NEW i \in Joins, Dooming(d, i)'
               PROVE  /\ state'[i].deleting
                      /\ rooms'[room'[d]] = i => token'[room'[d]] = d
                      /\ \A u \in Deletes :
                           pc'[u] = "tombstone" /\ arc'[u] = i => token'[room'[d]] = d
                      /\ \A u \in Deletes : Dooming(u, i)' => u = d
    BY DEF Doomed
  <1>1. /\ room'[d] = room[d] /\ arc[d] = i /\ arc'[d] = i
        /\ room[d] \in RoomIds /\ ~Unpublished(i) /\ room[d] = room[i]
        /\ pc'[d] \in {"delete", "restore", "empty"}
        /\ pc[d] \in {"delete", "restore", "empty", "tombstone"}
    <2>1. CASE d # t
      BY <1>0, <2>1 DEF OwnPlace, Dooming, Placed, Known, Homed
    <2>2. CASE d = t
      BY <1>0, <2>2 DEF OwnArc, OwnDeletion, Dooming, Placed, Known, Homed
    <2> QED BY <2>1, <2>2
  <1>2. CASE Dooming(d, i)
    <2>1. /\ state[i].deleting
          /\ rooms[room[d]] = i => token[room[d]] = d
          /\ \A u \in Deletes : pc[u] = "tombstone" /\ arc[u] = i => token[room[d]] = d
          /\ \A u \in Deletes : Dooming(u, i) => u = d
      BY <1>2 DEF Doomed
    <2>2. state'[i].deleting
      <3> SUFFICES ASSUME ~state'[i].deleting PROVE FALSE
        OBVIOUS
      <3>1. \/ t = i /\ pc[t] = "load"
            \/ t \in Deletes /\ pc[t] = "restore" /\ arc[t] = i /\ pc'[t] \in Ended
        BY <2>1 DEF OwnState
      <3>2. ~(t = i /\ pc[t] = "load")
        BY <1>1 DEF Unpublished, Early
      <3>3. t = d
        BY <2>1, <3>1, <3>2 DEF Dooming
      <3> QED BY <1>1, <3>1, <3>2, <3>3 DEF Ended
    <2>3. ASSUME token[room[d]] = d, token'[room[d]] # d
          PROVE  /\ t \in Joins \cup Leaves \cup {Recovery}
                 /\ creation = t /\ rooms'[room[d]] = None
      <3>1. ~(t = d /\ pc'[t] \in Ended \cup {"next"})
        BY <1>1 DEF Ended
      <3> QED BY <1>0, <1>1, <2>3, <3>1 DEF OwnTokens
    <2>4. rooms'[room[d]] = i => token'[room[d]] = d
      <3> SUFFICES ASSUME rooms'[room[d]] = i PROVE token'[room[d]] = d
        OBVIOUS
      <3>1. rooms[room[d]] = i
        BY <1>0, <1>1 DEF OwnRooms, Unpublished, Early
      <3> QED BY <1>0, <2>1, <2>3, <3>1
    <2>5. ASSUME NEW u \in Deletes, pc'[u] = "tombstone", arc'[u] = i
          PROVE  token'[room[d]] = d
      <3>1. CASE u # t
        <4>1. pc[u] = "tombstone" /\ arc[u] = i
          BY <1>0, <2>5, <3>1 DEF OwnPlace
        <4>2. creation = u
          BY <1>0, <4>1 DEF CreationExclusive, UnderCreation
        <4> QED BY <2>1, <2>3, <2>5, <3>1, <4>1, <4>2
      <3>2. CASE u = t
        <4>1. rooms[room[t]] = i /\ token' = token /\ room'[t] = room[t]
          BY <1>0, <2>5, <3>2 DEF OwnDeletion, OwnArc, Homed
        <4>2. room[t] \in RoomIds
          BY <1>0, <2>5, <3>2, <4>1 DEF OwnDeletion, OwnArc, Homed, Placed, TypeOK
        <4>3. room[t] = room[i]
          BY <4>1, <4>2 DEF Homed
        <4> QED BY <1>1, <2>1, <4>1, <4>3
      <3> QED BY <3>1, <3>2
    <2>6. ASSUME NEW u \in Deletes, Dooming(u, i)'
          PROVE  u = d
      <3>1. CASE u # t
        BY <1>0, <2>1, <2>6, <3>1 DEF OwnPlace, Dooming
      <3>2. CASE u = t
        <4>1. arc[t] = i /\ room[t] = room[i]
          BY <1>0, <2>6, <3>2 DEF OwnDeletion, Dooming, Homed
        <4>2. \/ pc[t] \in {"delete", "restore", "empty"}
              \/ pc[t] = "tombstone" /\ token[room[t]] = None
          BY <2>6, <3>2 DEF OwnDeletion, Dooming
        <4>3. pc[t] = "tombstone" => token[room[d]] = d
          BY <2>1, <2>6, <3>2, <4>1
        <4> QED BY <1>0, <1>1, <2>1, <2>6, <3>2, <4>1, <4>2, <4>3 DEF Dooming
      <3> QED BY <3>1, <3>2
    <2> QED BY <1>1, <2>2, <2>4, <2>5, <2>6
  <1>3. CASE ~Dooming(d, i)
    <2>1. d = t /\ pc[t] = "tombstone"
      BY <1>0, <1>1, <1>3 DEF Dooming, OwnPlace
    <2>2. token[room[d]] = None /\ token'[room[d]] = d /\ state'[i].deleting
      BY <1>1, <2>1 DEF OwnDeletion
    <2>3. ASSUME NEW u \in Deletes, Dooming(u, i)', u # d
          PROVE  FALSE
      <3>1. Dooming(u, i) /\ room[u] = room[i]
        BY <1>0, <2>1, <2>3 DEF OwnPlace, Dooming, Homed
      <3>2. token[room[u]] = u
        BY <1>1, <2>1, <3>1 DEF Doomed
      <3> QED BY <1>0, <1>1, <2>2, <2>3, <3>1, <3>2
    <2> QED BY <1>1, <2>2, <2>3
  <1> QED BY <1>2, <1>3

(* What an eviction has established stays so until its teardown ends. *)
LEMMA EvictedStep ==
    ASSUME PendingInvariant, PendingAccounting', Homed, Doomed, Evicted, Homed', NEW t \in Tasks,
           Step(t), OwnPlace(t), OwnRooms(t), OwnCustody(t)
    PROVE  Evicted'
  <1> USE DEF PendingInvariant, SafetyInvariant, OwnCustody
  <1>0. /\ None \notin Joins /\ Joins \subseteq Tasks /\ Leaves \subseteq Tasks
        /\ Deletes \subseteq Tasks /\ Deletes \cap (Joins \cup Leaves \cup {Recovery}) = {}
        /\ Recovery \notin Joins \cup Leaves
    BY Kinds
  <1> SUFFICES ASSUME NEW e \in Joins \cup Leaves, pc'[e] = "teardown"
               PROVE  Gone(arc[e])'
    BY DEF Evicted
  <1>1. PICK i : i = arc'[e]
    OBVIOUS
  <1>2. i \in Joins /\ arc[e] = i /\ ~Unpublished(i) /\ room'[i] = room[i]
    <2>1. arc[e] = arc'[e]
      BY <1>0 DEF OwnPlace, OwnEviction
    <2>2. i \in Joins
      <3>1. CASE e # t
        BY <1>0, <1>1, <2>1, <3>1 DEF OwnPlace, Placed
      <3>2. CASE e = t
        BY <1>0, <1>1, <2>1, <3>2 DEF OwnPlace, OwnEviction
      <3> QED BY <3>1, <3>2
    <2>3. ~Unpublished(i)
      BY <1>0, <1>1, <2>1, <2>2 DEF Known
    <2> QED BY <1>0, <1>1, <2>1, <2>2, <2>3, HomedStep
  <1>3. CASE e = t
    <2>1. /\ creation = t /\ rooms[room[t]] = i /\ ~state[i].deleting
          /\ rooms'[room[t]] = None
          /\ state'[i].deleting /\ state'[i].members = {} /\ state'[i].pending = 0
      BY <1>2, <1>3 DEF OwnEviction
    <2>2. \A u \in Joins : ~Reserved(u, i)'
      <3>1. Cardinality(Holders(i)') = 0 /\ IsFiniteSet(Holders(i)')
        <4>1. Cardinality(Holders(i)') = 0
          BY <1>2, <2>1 DEF PendingAccounting, Holders
        <4>2. Holders(i)' \subseteq Joins
          BY DEF Holders
        <4> QED BY <4>1, <4>2, FS_Subset, ParameterAssumption
      <3>2. Holders(i)' = {}
        BY <3>1, FS_EmptySet
      <3> QED BY <3>2 DEF Holders
    <2>3. room[t] = room[i]
      BY <1>0, <1>2, <1>3 DEF Homed
    <2>4. ASSUME NEW d \in Deletes, arc'[d] = i
          PROVE  pc'[d] # "tombstone" /\ ~Dooming(d, i)'
      <3>1. d # t /\ arc[d] = i /\ pc'[d] = pc[d]
        BY <1>0, <1>3, <2>4 DEF OwnPlace
      <3>2. pc[d] # "tombstone"
        BY <1>0, <2>1, <3>1 DEF CreationExclusive, UnderCreation
      <3>3. ~Dooming(d, i)
        BY <1>2, <2>1 DEF Doomed
      <3> QED BY <2>4, <3>1, <3>2, <3>3 DEF Dooming
    <2> QED BY <1>0, <1>1, <1>2, <2>1, <2>2, <2>3, <2>4 DEF Gone
  <1>4. CASE e # t
    <2>1. Gone(i)
      BY <1>0, <1>2, <1>4 DEF Evicted, OwnPlace
    <2>a. ~(t = i /\ pc[t] \in {"load", "publish"})
      BY <1>2 DEF Unpublished, Early
    <2>2. state'[i].deleting
      BY <1>2, <2>1, <2>a DEF Gone, OwnState, Dooming
    <2>3. state'[i].members = {}
      BY <1>2, <2>1 DEF Gone, OwnState
    <2>4. ASSUME NEW u \in Joins, Reserved(u, i)'
          PROVE  FALSE
      <3>1. CASE u # t
        BY <1>0, <2>1, <2>4, <3>1 DEF OwnPlace, Reserved, Gone
      <3>2. CASE u = t
        BY <1>2, <2>1, <2>4, <2>a, <3>2 DEF OwnReservation, Gone
      <3> QED BY <3>1, <3>2
    <2>5. rooms'[room[i]] # i
      <3>1. CASE room[i] \in RoomIds
        BY <1>0, <1>2, <2>1, <2>a, <3>1 DEF Gone, OwnRooms
      <3>2. CASE room[i] \notin RoomIds
        <4>1. pc[i] = "idle"
          BY <1>0, <1>2, <3>2 DEF Placed
        <4> QED BY <1>2, <4>1 DEF Unpublished, Early
      <3> QED BY <3>1, <3>2
    <2>6. ASSUME NEW d \in Deletes, arc'[d] = i
          PROVE  pc'[d] # "tombstone" /\ ~Dooming(d, i)'
      <3>1. CASE d # t
        BY <1>0, <2>1, <2>6, <3>1 DEF OwnPlace, Gone, Dooming
      <3>2. CASE d = t
        <4>1. pc'[t] # "tombstone"
          <5> SUFFICES ASSUME pc'[t] = "tombstone" PROVE FALSE
            OBVIOUS
          <5>1. rooms[room[t]] = i
            BY <2>6, <3>2 DEF OwnDeletion
          <5>2. room'[t] = room[i]
            BY <1>0, <1>2, <2>6, <3>2 DEF Homed
          <5>3. room'[t] = room[t]
            BY <1>0, <3>2 DEF OwnArc, OwnDeletion
          <5> QED BY <2>1, <5>1, <5>2, <5>3 DEF Gone
        <4>2. ~Dooming(t, i)'
          BY <2>1, <2>6, <3>2 DEF OwnDeletion, Gone, Dooming
        <4> QED BY <3>2, <4>1, <4>2
      <3> QED BY <3>1, <3>2
    <2> QED BY <1>1, <1>2, <2>2, <2>3, <2>4, <2>5, <2>6 DEF Gone
  <1> QED BY <1>3, <1>4

(* The eviction invariant holds initially. *)
LEMMA EvictionInit == Init => EvictionInvariant
  <1> SUFFICES ASSUME Init PROVE EvictionInvariant
    OBVIOUS
  <1>1. /\ \A t \in Tasks : pc[t] = "idle" /\ arc[t] = None
        /\ \A r \in RoomIds : rooms[r] = None
        /\ None \notin Joins /\ Joins \cup Leaves \cup Deletes \cup {Recovery} \subseteq Tasks
    BY Kinds DEF Init
  <1>2. Homed /\ Doomed /\ Closing /\ Evicted
    BY <1>1 DEF Homed, Doomed, Dooming, Closing, Evicted
  <1> QED BY <1>2, PendingInit DEF EvictionInvariant

(* The eviction invariant is inductive. *)
LEMMA EvictionStep == EvictionInvariant /\ [Next]_vars => EvictionInvariant'
  <1> SUFFICES ASSUME EvictionInvariant, [Next]_vars PROVE EvictionInvariant'
    OBVIOUS
  <1> USE DEF EvictionInvariant
  <1>1. PendingInvariant'
    BY PendingInductive
  <1>2. ASSUME NEW t \in Tasks, Step(t)
        PROVE  Homed' /\ Doomed' /\ Closing' /\ Evicted'
    <2>1. OwnPlace(t) /\ OwnLocks(t) /\ OwnRooms(t)
      BY <1>2, StepFrames DEF PendingInvariant, SafetyInvariant
    <2>2. OwnCustody(t)
      BY <1>2, StepCustody DEF PendingInvariant
    <2>3. Homed'
      BY <2>1, <2>2, HomedStep DEF PendingInvariant, SafetyInvariant
    <2>4. Doomed'
      BY <2>1, <2>2, DoomedStep DEF PendingInvariant, SafetyInvariant
    <2>5. Closing'
      BY <1>2, <2>1, ClosingStep DEF PendingInvariant, SafetyInvariant
    <2>6. Evicted'
      <3>1. PendingAccounting'
        BY <1>1 DEF PendingInvariant
      <3> QED BY <1>2, <2>1, <2>2, <2>3, <3>1, EvictedStep
    <2> QED BY <2>3, <2>4, <2>5, <2>6
  <1>3. ASSUME UNCHANGED <<pc, room, arc, rooms, token, state>>
        PROVE  Homed' /\ Doomed' /\ Closing' /\ Evicted'
    BY <1>3 DEF Homed, Doomed, Dooming, Closing, Evicted, Gone, Reserved
  <1>4. ASSUME (\E t \in Tasks : Settle(t)) \/ (\E w \in Workers : WorkerDies(w))
                  \/ UNCHANGED vars
        PROVE  UNCHANGED <<pc, room, arc, rooms, token, state>>
    BY <1>4 DEF Settle, WorkerDies, vars, registryVars, taskVars
  <1> QED BY <1>1, <1>2, <1>3, <1>4 DEF Next, Terminated

(* The eviction invariant holds in every reachable state. *)
THEOREM EvictionHolds == Spec => []EvictionInvariant
  BY EvictionInit, EvictionStep, PTL DEF Spec

(* From the final check of an eviction until its teardown ends nobody is a *)
(* member of the evicted room or holds a reservation on it, whatever       *)
(* deletions, restores and recoveries do to the same id meanwhile.         *)
THEOREM ReservationsKeepRooms == Spec => []ReservedRoomKept
  <1>1. EvictionInvariant => ReservedRoomKept
    BY DEF EvictionInvariant, Evicted, Gone, ReservedRoomKept
  <1> QED BY <1>1, EvictionHolds, PTL

----------------------------------------------------------------------------
(* What a step of t does to the registry. *)

(* The five ways to reserve an id and the three ways to release one. *)
TokenMoves(t) ==
    \A r \in RoomIds : token'[r] # token[r] =>
        /\ r = room[t]
        /\ \/ /\ t \in Joins \cup Leaves /\ creation = t /\ token'[r] = t
              /\ arc[t] \in Joins /\ rooms[r] = arc[t] /\ ~state[arc[t]].deleting
              /\ rooms'[r] = None
           \/ /\ t \in Deletes /\ pc[t] = "tombstone" /\ token[r] = None /\ token'[r] = t
              /\ arc[t] \in Joins => state'[arc[t]].deleting
           \/ /\ t \in Writers \cup Owners /\ pc[t] = "quarantine"
              /\ token[r] = None /\ token'[r] = t
              /\ arc[t] \in Joins /\ rooms[r] = arc[t] /\ state'[arc[t]].deleting
           \/ t \in Owners /\ pc[t] = "write" /\ token[r] = None /\ token'[r] = t
           \/ /\ t \in Joins \cup Leaves \cup Deletes /\ pc[t] = "teardown"
              /\ token[r] = t /\ token'[r] = None
           \/ /\ t = Recovery /\ creation = t /\ pc[t] = "close" /\ pc'[t] = "teardown"
              /\ token'[r] = t /\ rooms'[r] = None
           \/ t = Recovery /\ token[r] = t /\ token'[r] = None
           \/ /\ t \in Deletes /\ token[r] = t /\ token'[r] = None
              /\ pc[t] = "restore" \/ (pc[t] = "delete" /\ arc[t] = None)
              /\ arc[t] \in Joins => ~state'[arc[t]].deleting

(* A tombstone goes with an unmapping, a reservation or the drain; lifting *)
(* one goes with the release.                                              *)
StateMoves(t) ==
    \A i \in Joins :
        /\ state'[i].deleting /\ ~state[i].deleting =>
             \/ t \in Drains /\ pc[t] = "clear"
             \/ i = arc[t] /\ (rooms'[room[t]] = None \/ token'[room[t]] # None)
        /\ state[i].deleting /\ ~state'[i].deleting =>
             \/ t = i /\ pc[t] = "load"
             \/ /\ t \in Deletes /\ pc[t] = "restore" /\ arc[t] = i
                /\ token[room[t]] = t => token'[room[t]] = None

(* Who may register or remove a router, and where. *)
RouterMoves(t) ==
    /\ \A r \in RoomIds : routers'[r] # routers[r] =>
         /\ r = room[t]
         /\ \/ t \in Joins /\ Building(t)
            \/ t \in Joins \cup Leaves \cup Deletes \cup {Recovery} /\ pc[t] = "teardown"
            \/ t \in Writers \cup Owners /\ pc[t] = "sweep"
    /\ t \in Joins /\ pc'[t] = "publish" => routers'[room[t]] = t
    /\ rooms' # rooms => routers' = routers

(* Markers are set and cleared by the updates that hold them. *)
MarkerMoves(t) ==
    /\ \A r \in RoomIds :
         /\ r \in identity' \ identity => t \in Owners /\ creation = None
         /\ r \in identity \ identity' =>
              t \in Owners /\ r = room[t] /\ pc[t] \in Marking /\ pc'[t] \notin Marking
    /\ t \in Owners /\ pc'[t] \in Marking =>
         \/ pc[t] \in Marking /\ room'[t] = room[t] /\ identity' = identity
         \/ pc[t] = "idle" /\ room'[t] \notin identity /\ room'[t] \in identity'
    /\ t \in Owners /\ pc'[t] \in {"dormant", "write"} =>
         /\ rooms' = rooms /\ room'[t] = room[t]
         /\ pc[t] \in {"dormant", "write"} \/ rooms[room[t]] = None

(* A join starts to build under the creation lock, where nothing is        *)
(* reserved, and what it builds is live.                                   *)
BuildMoves(t) ==
    t \in Joins =>
        /\ Building(t)' =>
             /\ room'[t] = room[t] /\ token' = token /\ identity' = identity
             /\ Building(t) \/ (token[room[t]] = None /\ room[t] \notin identity)
        /\ pc'[t] \in {"route", "register", "publish"} =>
             /\ pc[t] \in {"load", "route", "register"}
             /\ pc[t] = "load" \/ ~state[t].deleting => ~state'[t].deleting

(* A teardown or a sweep starts with the id reserved by its own task. *)
ReleaseMoves(t) ==
    /\ t \in Joins \cup Leaves /\ pc'[t] = "teardown" =>
         room'[t] = room[t] /\ token'[room[t]] = t /\ rooms'[room[t]] = None
    /\ t \in Deletes /\ pc'[t] = "teardown" =>
         /\ pc[t] = "empty" /\ room'[t] = room[t] /\ token' = token
         /\ rooms[room[t]] \in {None, arc[t]} => rooms'[room[t]] = None
    /\ t \in Writers \cup Owners /\ pc'[t] = "sweep" =>
         /\ pc[t] = "quarantine" /\ room'[t] = room[t]
         /\ rooms[room[t]] = arc[t] /\ ~state[arc[t]].deleting
         /\ token[room[t]] = None => token'[room[t]] = t

(* A deletion keeps what it found and reserved. *)
DeletionMoves(t) ==
    t \in Deletes =>
        /\ pc'[t] \in {"tombstone", "delete", "restore", "empty"} =>
             /\ room'[t] = room[t] /\ rooms' = rooms
             /\ \/ pc'[t] = "tombstone" /\ pc[t] = "lock" /\ arc'[t] = rooms[room[t]]
                \/ /\ pc[t] = "tombstone" /\ pc'[t] = "delete" /\ arc'[t] = arc[t]
                   /\ token[room[t]] = None /\ token'[room[t]] = t
                \/ /\ pc[t] \in {"delete", "restore"} /\ pc'[t] \in {"restore", "empty"}
                   /\ arc'[t] = arc[t] /\ token' = token

(* A drain empties the map and keeps it so. *)
ClearMoves(t) ==
    t \in Drains /\ pc'[t] = "clear" =>
        (\A r \in RoomIds : rooms'[r] = None) \/ (pc[t] = "clear" /\ rooms' = rooms)

OwnRegistry(t) ==
    /\ TokenMoves(t) /\ StateMoves(t) /\ RouterMoves(t) /\ MarkerMoves(t)
    /\ BuildMoves(t) /\ ReleaseMoves(t) /\ DeletionMoves(t) /\ ClearMoves(t)

(* Steps of a join. *)
LEMMA JoinRegistry ==
    ASSUME TypeOK, Placed, CreationExclusive, NEW t \in Joins, Join(t)
    PROVE  OwnRegistry(t)
  <1> USE DEF registryVars, taskVars, mediaVars, Goto
  <1>0. /\ t \in Tasks /\ t # Recovery /\ None \notin Tasks
        /\ t \notin Leaves \cup Deletes \cup Writers \cup Owners \cup Drains
        /\ state \in [Joins -> RoomStates]
    BY Kinds, TaskAssumption DEF TypeOK
  <1>r. /\ pc \in [Tasks -> Labels] /\ room \in [Tasks -> RoomIds \cup {None}]
        /\ arc \in [Tasks -> Joins \cup {None}] /\ token \in [RoomIds -> Tasks \cup {None}]
        /\ rooms \in [RoomIds -> Joins \cup {None}]
        /\ routers \in [RoomIds -> Joins \cup {None}]
    BY DEF TypeOK
  <1>u. pc[t] # "idle" => room[t] \in RoomIds
    BY DEF Placed
  <1>c. pc[t] = "release" => creation = t /\ arc[t] \in Joins
    BY <1>0 DEF CreationExclusive, UnderCreation, Placed
  <1>e. ASSUME DropRelease(t), token' # token
        PROVE  /\ arc[t] \in Joins /\ rooms[room[t]] = arc[t] /\ ~state[arc[t]].deleting
               /\ rooms'[room[t]] = None /\ token' = [token EXCEPT ![room[t]] = t]
    <2>1. arc[t] \in Joins /\ room[t] \in RoomIds
      BY <1>c, <1>u, <1>e DEF DropRelease
    <2>2. Unreserved(state[arc[t]]).deleting = state[arc[t]].deleting
      BY <1>0, <2>1, OperatorFields
    <2>3. /\ Evictable(room[t], arc[t], Unreserved(state[arc[t]]))
          /\ Evict(t, room[t], arc[t], Unreserved(state[arc[t]]))
      BY <1>e DEF DropRelease
    <2> QED BY <1>r, <2>1, <2>2, <2>3 DEF Evictable, Evict
  <1>1. TokenMoves(t)
    <2>1. CASE DropRelease(t)
      BY <1>0, <1>r, <1>u, <1>c, <1>e, <2>1 DEF TokenMoves, DropRelease
    <2>2. CASE Teardown(t)
      BY <1>0, <1>r, <1>u, <2>2 DEF TokenMoves, Teardown, Release
    <2>3. CASE token' = token
      BY <2>3 DEF TokenMoves
    <2> QED BY <2>1, <2>2, <2>3 DEF Join, JoinLookup, JoinReserve, JoinCreate, JoinLoad,
            JoinRoute, JoinRegister, JoinRollback, JoinPublish, JoinSnapshot, JoinControl,
            JoinRefused, JoinInsert, DropCreation
  <1>2. StateMoves(t)
    <2> SUFFICES ASSUME NEW i \in Joins
                 PROVE  /\ state'[i].deleting /\ ~state[i].deleting =>
                             i = arc[t] /\ rooms'[room[t]] = None
                        /\ state[i].deleting /\ ~state'[i].deleting => t = i /\ pc[t] = "load"
      BY <1>0 DEF StateMoves
    <2>1. PICK s \in RoomStates : s = state[i]
      BY <1>0
    <2>2. CASE JoinReserve(t) \/ JoinPublish(t)
      <3>1. \/ state'[i] = s \/ state'[i] = [s EXCEPT !.pending = s.pending + 1]
            \/ state'[i] = [s EXCEPT !.pending = 1]
        BY <1>0, <2>1, <2>2 DEF JoinReserve, JoinPublish
      <3> QED BY <2>1, <3>1 DEF RoomStates
    <2>3. CASE JoinLoad(t)
      <3>1. state'[i] = s \/ (t = i /\ ~state'[i].deleting /\ pc[t] = "load")
        BY <1>0, <2>1, <2>3 DEF JoinLoad, NewRoom
      <3> QED BY <2>1, <3>1
    <2>4. CASE JoinInsert(t)
      <3>1. state'[i] = s \/ state'[i] = Seated(s, t)
        BY <1>0, <2>1, <2>4 DEF JoinInsert
      <3> QED BY <2>1, <3>1, OperatorFields
    <2>5. CASE DropRelease(t)
      <3>1. \/ state'[i] = s \/ state'[i] = Unreserved(s)
            \/ i = arc[t] /\ Evict(t, room[t], arc[t], Unreserved(s))
        BY <1>0, <2>1, <2>5 DEF DropRelease, Evict
      <3>2. Evict(t, room[t], arc[t], Unreserved(s)) =>
               rooms'[room[t]] = None /\ state'[arc[t]] = Tombstoned(Unreserved(s))
        BY <1>0, <1>r, <1>u, <1>c, <2>5 DEF Evict, DropRelease
      <3>3. Unreserved(s) \in RoomStates
        BY RoomOperators
      <3> QED BY <2>1, <3>1, <3>2, <3>3, OperatorFields
    <2>6. CASE state' = state
      BY <2>6
    <2> QED BY <2>2, <2>3, <2>4, <2>5, <2>6 DEF Join, JoinLookup, JoinCreate, JoinRoute,
            JoinRegister, JoinRollback, JoinSnapshot, JoinControl, JoinRefused, DropCreation,
            Teardown
  <1>3. RouterMoves(t)
    BY <1>0, <1>r, <1>u DEF RouterMoves, Building, Join, JoinLookup, JoinReserve,
       JoinCreate,
       JoinLoad, JoinRoute, JoinRegister, JoinRollback, JoinPublish, JoinSnapshot, JoinControl,
       JoinRefused, JoinInsert, DropCreation, DropRelease, Teardown
  <1>4. MarkerMoves(t)
    <2>1. identity' = identity
      BY DEF Join, JoinLookup, JoinReserve, JoinCreate, JoinLoad, JoinRoute, JoinRegister,
         JoinRollback, JoinPublish, JoinSnapshot, JoinControl, JoinRefused, JoinInsert,
         DropCreation, DropRelease, Teardown
    <2> QED BY <1>0, <2>1 DEF MarkerMoves
  <1>5. BuildMoves(t)
    <2>1. ASSUME pc'[t] \in {"load", "route", "register", "publish"}
          PROVE  JoinCreate(t) \/ JoinLoad(t) \/ JoinRoute(t) \/ JoinRegister(t)
      BY <1>0, <1>r, <2>1 DEF Join, JoinLookup, JoinReserve, JoinRollback, JoinPublish,
         JoinSnapshot, JoinControl, JoinRefused, JoinInsert, DropCreation, DropRelease, Teardown
    <2>2. Building(t)' =>
             /\ room'[t] = room[t] /\ token' = token /\ identity' = identity
             /\ Building(t) \/ (token[room[t]] = None /\ room[t] \notin identity)
      BY <1>0, <1>r, <2>1 DEF Building, JoinCreate, CreationRefused, JoinLoad, JoinRoute,
         JoinRegister
    <2>3. ASSUME pc'[t] \in {"route", "register", "publish"}
          PROVE  /\ pc[t] \in {"load", "route", "register"}
                 /\ pc[t] = "load" \/ ~state[t].deleting => ~state'[t].deleting
      <3>1. CASE JoinLoad(t)
        BY <1>0, <1>r, <2>3, <3>1 DEF JoinLoad, NewRoom
      <3>2. CASE JoinCreate(t) \/ JoinRoute(t) \/ JoinRegister(t)
        BY <1>0, <1>r, <2>3, <3>2 DEF JoinCreate, JoinRoute, JoinRegister
      <3> QED BY <2>1, <2>3, <3>1, <3>2
    <2> QED BY <2>2, <2>3 DEF BuildMoves
  <1>6. ReleaseMoves(t)
    <2> SUFFICES ASSUME pc'[t] = "teardown"
                 PROVE  room'[t] = room[t] /\ token'[room[t]] = t /\ rooms'[room[t]] = None
      BY <1>0 DEF ReleaseMoves
    <2>1. DropRelease(t)
      BY <1>0, <1>r DEF Join, JoinLookup, JoinReserve, JoinCreate, JoinLoad, JoinRoute,
         JoinRegister, JoinRollback, JoinPublish, JoinSnapshot, JoinControl, JoinRefused,
         JoinInsert, DropCreation, Teardown
    <2> QED BY <1>0, <1>r, <1>u, <2>1 DEF DropRelease, Evict
  <1> QED BY <1>0, <1>1, <1>2, <1>3, <1>4, <1>5, <1>6 DEF OwnRegistry, DeletionMoves,
             ClearMoves

(* Steps of a leave. *)
LEMMA LeaveRegistry ==
    ASSUME TypeOK, Placed, CreationExclusive, NEW t \in Leaves, Leave(t)
    PROVE  OwnRegistry(t)
  <1> USE DEF registryVars, taskVars, mediaVars, Goto
  <1>0. /\ t \in Tasks /\ t # Recovery /\ None \notin Tasks
        /\ t \notin Joins \cup Deletes \cup Writers \cup Owners \cup Drains
        /\ state \in [Joins -> RoomStates]
    BY Kinds, TaskAssumption DEF TypeOK
  <1>r. /\ pc \in [Tasks -> Labels] /\ room \in [Tasks -> RoomIds \cup {None}]
        /\ arc \in [Tasks -> Joins \cup {None}] /\ token \in [RoomIds -> Tasks \cup {None}]
        /\ rooms \in [RoomIds -> Joins \cup {None}]
        /\ routers \in [RoomIds -> Joins \cup {None}]
    BY DEF TypeOK
  <1>u. pc[t] # "idle" => room[t] \in RoomIds
    BY DEF Placed
  <1>c. pc[t] = "recheck" => creation = t /\ arc[t] \in Joins
    BY <1>0 DEF CreationExclusive, UnderCreation, Placed
  <1>1. TokenMoves(t)
    BY <1>0, <1>r, <1>u, <1>c DEF TokenMoves, Leave, LeaveLookup, LeaveRemove,
       LeaveCreation,
       LeaveEvict, Evictable, Evict, Teardown, Release
  <1>2. StateMoves(t)
    <2> SUFFICES ASSUME NEW i \in Joins
                 PROVE  /\ state'[i].deleting /\ ~state[i].deleting =>
                             i = arc[t] /\ rooms'[room[t]] = None
                        /\ state[i].deleting => state'[i].deleting
      BY <1>0 DEF StateMoves
    <2>1. PICK s \in RoomStates : s = state[i]
      BY <1>0
    <2>2. \/ state'[i] = s
          \/ state'[i] = Tombstoned(s) /\ i = arc[t] /\ rooms'[room[t]] = None
          \/ state'[i] = [s EXCEPT !.members = s.members \ {victim[t]}]
      <3>1. CASE LeaveEvict(t)
        BY <1>0, <1>r, <1>u, <2>1, <3>1 DEF LeaveEvict, Evict
      <3>2. CASE LeaveRemove(t)
        BY <1>0, <2>1, <3>2 DEF LeaveRemove
      <3>3. CASE state' = state
        BY <2>1, <3>3
      <3> QED BY <3>1, <3>2, <3>3 DEF Leave, LeaveLookup, LeaveCreation, Teardown
    <2> QED BY <2>1, <2>2 DEF RoomStates, Tombstoned
  <1>3. RouterMoves(t)
    BY <1>0, <1>r, <1>u DEF RouterMoves, Leave, LeaveLookup, LeaveRemove, LeaveCreation,
       LeaveEvict, Teardown
  <1>4. MarkerMoves(t)
    <2>1. identity' = identity
      BY DEF Leave, LeaveLookup, LeaveRemove, LeaveCreation, LeaveEvict, Teardown
    <2> QED BY <1>0, <2>1 DEF MarkerMoves
  <1>5. ReleaseMoves(t)
    BY <1>0, <1>r, <1>u DEF ReleaseMoves, Leave, LeaveLookup, LeaveRemove, LeaveCreation,
       LeaveEvict, Evict, Teardown
  <1> QED BY <1>0, <1>1, <1>2, <1>3, <1>4, <1>5 DEF OwnRegistry, BuildMoves, DeletionMoves,
          ClearMoves

(* Steps of a create_persisted_room, which leaves the registry alone. *)
LEMMA CreateRegistry ==
    ASSUME TypeOK, NEW t \in Creates, Create(t)
    PROVE  OwnRegistry(t)
  <1>0. t \notin Joins \cup Leaves \cup Deletes \cup Writers \cup Owners \cup Drains
    BY Kinds
  <1>1. UNCHANGED <<rooms, token, identity, state, routers>>
    BY DEF Create, CreateLock, CreateInsert, registryVars, mediaVars
  <1> QED BY <1>0, <1>1 DEF OwnRegistry, TokenMoves, StateMoves, RouterMoves, MarkerMoves,
          BuildMoves, ReleaseMoves, DeletionMoves, ClearMoves

(* Steps of a delete_persisted_room. *)
LEMMA DeleteRegistry ==
    ASSUME TypeOK, Placed, NEW t \in Deletes, Delete(t)
    PROVE  OwnRegistry(t)
  <1> USE DEF registryVars, taskVars, mediaVars, Goto
  <1>0. /\ t \in Tasks /\ t # Recovery /\ None \notin Tasks /\ None \notin Joins
        /\ t \notin Joins \cup Leaves \cup Writers \cup Owners \cup Drains
        /\ state \in [Joins -> RoomStates]
    BY Kinds, TaskAssumption DEF TypeOK
  <1>r. /\ pc \in [Tasks -> Labels] /\ room \in [Tasks -> RoomIds \cup {None}]
        /\ arc \in [Tasks -> Joins \cup {None}] /\ token \in [RoomIds -> Tasks \cup {None}]
        /\ rooms \in [RoomIds -> Joins \cup {None}]
        /\ routers \in [RoomIds -> Joins \cup {None}]
    BY DEF TypeOK
  <1>u. pc[t] # "idle" => room[t] \in RoomIds
    BY DEF Placed
  <1>a. arc[t] \in Joins => /\ Tombstoned(state[arc[t]]).deleting
                            /\ ~Restored(state[arc[t]]).deleting
    BY <1>0, OperatorFields
  <1>b. CASE DeleteTombstone(t)
    <2>0. pc[t] = "tombstone" /\ room[t] \in RoomIds
      BY <1>b, <1>u DEF DeleteTombstone
    <2>1. UNCHANGED <<rooms, identity, routers, room, arc>> /\ pc'[t] \in {"delete", "done"}
      BY <1>0, <1>r, <1>b DEF DeleteTombstone
    <2>2. \/ UNCHANGED <<token, state>> /\ pc'[t] = "done"
          \/ /\ token[room[t]] = None /\ token' = [token EXCEPT ![room[t]] = t]
             /\ arc[t] \in Joins => state' = [state EXCEPT ![arc[t]] = Tombstoned(state[arc[t]])]
             /\ arc[t] \notin Joins => state' = state
      BY <1>0, <1>r, <1>b DEF DeleteTombstone
    <2>3. TokenMoves(t)
      BY <1>0, <1>r, <1>a, <2>0, <2>2 DEF TokenMoves
    <2>4. StateMoves(t)
      BY <1>0, <1>r, <1>a, <2>0, <2>2 DEF StateMoves
    <2>5. DeletionMoves(t)
      BY <1>0, <1>r, <2>0, <2>1, <2>2 DEF DeletionMoves
    <2> QED BY <1>0, <2>1, <2>3, <2>4, <2>5 DEF OwnRegistry, RouterMoves, MarkerMoves,
            BuildMoves, ReleaseMoves, ClearMoves
  <1>c. CASE DeleteRestore(t)
    <2>0. pc[t] = "restore" /\ room[t] \in RoomIds
      BY <1>c, <1>u DEF DeleteRestore
    <2>1. UNCHANGED <<rooms, identity, routers, room, arc>>
      BY <1>0, <1>r, <1>c DEF DeleteRestore
    <2>2. \/ UNCHANGED <<token, state>> /\ pc'[t] = "restore"
          \/ /\ token' = Release(room[t], t) /\ pc'[t] \in Ended
             /\ arc[t] \in Joins => state' = [state EXCEPT ![arc[t]] = Restored(state[arc[t]])]
             /\ arc[t] \notin Joins => state' = state
      BY <1>0, <1>r, <1>c DEF DeleteRestore, Ended
    <2>3. TokenMoves(t)
      BY <1>0, <1>r, <1>a, <2>0, <2>2 DEF TokenMoves, Release
    <2>4. StateMoves(t)
      BY <1>0, <1>r, <1>a, <2>0, <2>2 DEF StateMoves, Release
    <2>5. DeletionMoves(t)
      BY <1>0, <1>r, <2>0, <2>1, <2>2 DEF DeletionMoves, Ended
    <2> QED BY <1>0, <2>0, <2>1, <2>2, <2>3, <2>4, <2>5 DEF OwnRegistry, RouterMoves,
            MarkerMoves, BuildMoves, ReleaseMoves, ClearMoves, Ended
  <1>d. CASE DeleteEmpty(t)
    <2>0. pc[t] = "empty" /\ room[t] \in RoomIds
      BY <1>d, <1>u DEF DeleteEmpty
    <2>1. /\ UNCHANGED <<token, identity, routers, room, arc>>
          /\ pc'[t] \in {"teardown", "abandoned"}
      BY <1>0, <1>r, <1>d DEF DeleteEmpty
    <2>2. \A i \in Joins : state'[i].deleting = state[i].deleting
      <3> TAKE i \in Joins
      <3>1. PICK s \in RoomStates : s = state[i]
        BY <1>0
      <3>2. state'[i] = s \/ state'[i] = [s EXCEPT !.members = {}]
        BY <1>0, <1>d, <3>1 DEF DeleteEmpty
      <3> QED BY <3>1, <3>2 DEF RoomStates
    <2>3. ReleaseMoves(t)
      BY <1>0, <1>r, <1>d, <2>0, <2>1 DEF ReleaseMoves, DeleteEmpty
    <2>4. TokenMoves(t) /\ StateMoves(t)
      BY <2>1, <2>2 DEF TokenMoves, StateMoves
    <2> QED BY <1>0, <2>1, <2>3, <2>4 DEF OwnRegistry, RouterMoves, MarkerMoves, BuildMoves,
            DeletionMoves, ClearMoves
  <1>e. CASE DeleteRow(t)
    <2>1. /\ UNCHANGED <<rooms, identity, state, routers, room, arc>> /\ pc[t] = "delete"
          /\ \/ token' = token /\ pc'[t] \in {"empty", "restore", "unknown"}
             \/ token' = Release(room[t], t) /\ arc[t] = None /\ pc'[t] = "done"
      BY <1>0, <1>r, <1>e DEF DeleteRow
    <2>2. TokenMoves(t)
      BY <1>0, <1>r, <1>u, <2>1 DEF TokenMoves, Release
    <2>3. DeletionMoves(t)
      BY <1>0, <2>1 DEF DeletionMoves
    <2> QED BY <1>0, <2>1, <2>2, <2>3 DEF OwnRegistry, StateMoves, RouterMoves, MarkerMoves,
            BuildMoves, ReleaseMoves, ClearMoves
  <1>f. CASE Teardown(t)
    <2>1. /\ UNCHANGED <<rooms, identity, state, room, arc>> /\ pc[t] = "teardown"
          /\ pc'[t] \in Ended /\ token' \in {token, Release(room[t], t)}
      BY <1>0, <1>r, <1>f DEF Teardown, Ended
    <2>2. TokenMoves(t)
      BY <1>0, <1>r, <1>u, <2>1 DEF TokenMoves, Release
    <2>3. RouterMoves(t)
      BY <1>0, <1>r, <1>u, <1>f DEF RouterMoves, Teardown
    <2> QED BY <1>0, <2>1, <2>2, <2>3 DEF OwnRegistry, StateMoves, MarkerMoves, BuildMoves,
            ReleaseMoves, DeletionMoves, ClearMoves, Ended
  <1>g. CASE DeleteRead(t) \/ DeleteLock(t)
    <2>1. /\ UNCHANGED <<rooms, token, identity, state, routers>>
          /\ pc'[t] \in {"done", "lock", "tombstone"}
      BY <1>0, <1>r, <1>g DEF DeleteRead, DeleteLock
    <2>2. DeletionMoves(t)
      BY <1>0, <1>r, <1>g, <2>1 DEF DeletionMoves, DeleteRead, DeleteLock
    <2> QED BY <1>0, <2>1, <2>2 DEF OwnRegistry, TokenMoves, StateMoves, RouterMoves,
            MarkerMoves, BuildMoves, ReleaseMoves, ClearMoves
  <1> QED BY <1>b, <1>c, <1>d, <1>e, <1>f, <1>g DEF Delete

(* Steps of a policy write. *)
LEMMA WriteRegistry ==
    ASSUME TypeOK, Placed, NEW t \in Writers \cup Owners,
           \/ t \in Writers /\ (WriterLookup(t) \/ Write(t))
           \/ t \in Owners /\ (OwnerMark(t) \/ OwnerFind(t) \/ Write(t) \/ DormantCheck(t)
                                 \/ DormantWrite(t))
    PROVE  OwnRegistry(t)
  <1> USE DEF registryVars, taskVars, mediaVars, Goto
  <1>0. /\ t \in Tasks /\ t # Recovery /\ None \notin Tasks /\ None \notin Joins
        /\ t \notin Joins \cup Leaves \cup Deletes \cup Drains
        /\ ~(t \in Writers /\ t \in Owners)
        /\ state \in [Joins -> RoomStates]
    BY Kinds, TaskAssumption DEF TypeOK
  <1>r. /\ pc \in [Tasks -> Labels] /\ room \in [Tasks -> RoomIds \cup {None}]
        /\ arc \in [Tasks -> Joins \cup {None}] /\ token \in [RoomIds -> Tasks \cup {None}]
        /\ rooms \in [RoomIds -> Joins \cup {None}] /\ identity \subseteq RoomIds
        /\ routers \in [RoomIds -> Joins \cup {None}]
    BY DEF TypeOK
  <1>u. pc[t] # "idle" => room[t] \in RoomIds
    BY DEF Placed
  <1>a. rooms' = rooms
    BY DEF Write, WriterLookup, OwnerMark, OwnerFind, Admit, Persist, Announce, Quarantine,
       Sweep, DormantCheck, DormantWrite
  <1>b. CASE Quarantine(t)
    <2>0. pc[t] = "quarantine" /\ room[t] \in RoomIds /\ arc[t] \in Joins
      BY <1>b, <1>u DEF Quarantine, Placed
    <2>1. UNCHANGED <<routers, room, arc>> /\ identity' = Unmarked(t)
      BY <1>b DEF Quarantine
    <2>2. \/ /\ rooms[room[t]] = arc[t] /\ ~state[arc[t]].deleting
             /\ state' = [state EXCEPT ![arc[t]] = Emptied(state[arc[t]])]
             /\ token' = [token EXCEPT ![room[t]] = IF @ = None THEN t ELSE @]
             /\ pc'[t] = "sweep"
          \/ UNCHANGED <<state, token>> /\ pc'[t] = "unknown"
      BY <1>0, <1>r, <1>b DEF Quarantine, MappedLive
    <2>3. Emptied(state[arc[t]]).deleting
      BY <1>0, <2>0, OperatorFields
    <2>4. TokenMoves(t)
      BY <1>0, <1>r, <2>0, <2>2, <2>3 DEF TokenMoves
    <2>5. StateMoves(t)
      BY <1>0, <1>r, <2>0, <2>2, <2>3 DEF StateMoves
    <2>6. MarkerMoves(t)
      BY <1>0, <1>r, <2>0, <2>1, <2>2 DEF MarkerMoves, Unmarked, Marking
    <2>7. ReleaseMoves(t)
      BY <1>0, <1>r, <2>0, <2>1, <2>2 DEF ReleaseMoves
    <2> QED BY <1>0, <2>1, <2>4, <2>5, <2>6, <2>7 DEF OwnRegistry, RouterMoves, BuildMoves,
            DeletionMoves, ClearMoves
  <1>c. CASE DormantWrite(t)
    <2>1. /\ UNCHANGED <<routers, room, arc, state>> /\ identity' = Unmarked(t)
          /\ pc[t] = "write" /\ pc'[t] \in {"done", "unknown"} /\ t \in Owners
          /\ token' \in {token, [token EXCEPT ![room[t]] = IF @ = None THEN t ELSE @]}
      <3>1. t \in Owners
        BY <1>0, <1>c DEF DormantWrite, WriterLookup, Write, Admit, Persist, Announce,
           Quarantine, Sweep
      <3> QED BY <1>0, <1>r, <1>c, <3>1 DEF DormantWrite
    <2>2. TokenMoves(t)
      BY <1>0, <1>r, <1>u, <2>1 DEF TokenMoves
    <2>3. MarkerMoves(t)
      BY <1>0, <1>r, <1>u, <2>1 DEF MarkerMoves, Unmarked, Marking
    <2> QED BY <1>0, <2>1, <2>2, <2>3 DEF OwnRegistry, StateMoves, RouterMoves, BuildMoves,
            ReleaseMoves, DeletionMoves, ClearMoves
  <1>d. CASE Sweep(t)
    <2>1. /\ UNCHANGED <<token, identity, room, arc, state>>
          /\ pc[t] = "sweep" /\ pc'[t] = "unknown"
      BY <1>0, <1>r, <1>d DEF Sweep
    <2>2. RouterMoves(t)
      BY <1>0, <1>r, <1>u, <1>d DEF RouterMoves, Sweep
    <2> QED BY <1>0, <2>1, <2>2 DEF OwnRegistry, TokenMoves, StateMoves, MarkerMoves,
               Marking,
            BuildMoves, ReleaseMoves, DeletionMoves, ClearMoves
  <1>e. ASSUME UNCHANGED <<token, routers>>, pc'[t] # "sweep", MarkerMoves(t),
               \A i \in Joins : state'[i].deleting = state[i].deleting
        PROVE  OwnRegistry(t)
    BY <1>0, <1>e DEF OwnRegistry, TokenMoves, StateMoves, RouterMoves, BuildMoves,
       ReleaseMoves, DeletionMoves, ClearMoves
  <1>f. CASE Announce(t)
    <2>1. \A i \in Joins : state'[i].deleting = state[i].deleting
      BY <1>0, <1>f, OperatorFields DEF Announce
    <2>2. MarkerMoves(t)
      BY <1>0, <1>r, <1>u, <1>f DEF MarkerMoves, Announce, Unmarked, Marking
    <2> QED BY <1>0, <1>r, <1>e, <1>f, <2>1, <2>2 DEF Announce
  <1>g. CASE Admit(t) \/ Persist(t)
    <2>1. MarkerMoves(t)
      BY <1>0, <1>r, <1>u, <1>g DEF MarkerMoves, Admit, Persist, Unmarked, Marking
    <2> QED BY <1>0, <1>r, <1>e, <1>g, <2>1 DEF Admit, Persist
  <1>h. CASE DormantCheck(t)
    <2>1. MarkerMoves(t)
      BY <1>0, <1>r, <1>u, <1>a, <1>h DEF MarkerMoves, DormantCheck, Unmarked, Marking
    <2> QED BY <1>0, <1>r, <1>e, <1>h, <2>1 DEF DormantCheck
  <1>i. CASE OwnerFind(t)
    <2>1. MarkerMoves(t)
      BY <1>0, <1>r, <1>u, <1>a, <1>i DEF MarkerMoves, OwnerFind, Marking
    <2> QED BY <1>0, <1>r, <1>e, <1>i, <2>1 DEF OwnerFind
  <1>j. CASE t \in Owners /\ OwnerMark(t)
    <2>1. MarkerMoves(t)
      BY <1>0, <1>r, <1>a, <1>j DEF MarkerMoves, OwnerMark, Marking, CreationFree
    <2> QED BY <1>0, <1>r, <1>e, <1>j, <2>1 DEF OwnerMark
  <1>k. CASE t \in Writers /\ WriterLookup(t)
    <2>1. MarkerMoves(t)
      BY <1>0, <1>k DEF MarkerMoves, WriterLookup
    <2> QED BY <1>0, <1>r, <1>e, <1>k, <2>1 DEF WriterLookup
  <1> QED BY <1>b, <1>c, <1>d, <1>f, <1>g, <1>h, <1>i, <1>j, <1>k DEF Write

(* Steps of a drain. *)
LEMMA DrainRegistry ==
    ASSUME TypeOK, NEW t \in Drains, Drain(t)
    PROVE  OwnRegistry(t)
  <1> USE DEF registryVars, taskVars, mediaVars, Goto
  <1>0. /\ t \in Tasks /\ t \notin Joins \cup Leaves \cup Deletes \cup Writers \cup Owners
        /\ state \in [Joins -> RoomStates] /\ pc \in [Tasks -> Labels]
    BY Kinds DEF TypeOK
  <1>1. UNCHANGED <<token, identity, routers>>
    BY DEF Drain, DrainBegin, DrainMap, DrainRoom, DrainEnd
  <1>2. StateMoves(t)
    <2>1. ASSUME NEW i \in Joins, state'[i] # state[i]
          PROVE  pc[t] = "clear" /\ state'[i].deleting
      <3>1. PICK s \in RoomStates : s = state[i]
        BY <1>0
      <3>2. DrainRoom(t)
        BY <2>1 DEF Drain, DrainBegin, DrainMap, DrainEnd
      <3>3. state'[i] = [s EXCEPT !.deleting = TRUE, !.members = {}] /\ pc[t] = "clear"
        BY <1>0, <2>1, <3>1, <3>2 DEF DrainRoom
      <3> QED BY <3>3 DEF RoomStates
    <2> QED BY <2>1 DEF StateMoves
  <1>3. ClearMoves(t)
    BY <1>0 DEF ClearMoves, Drain, DrainBegin, DrainMap, DrainRoom, DrainEnd
  <1> QED BY <1>0, <1>1, <1>2, <1>3 DEF OwnRegistry, TokenMoves, RouterMoves, MarkerMoves,
          BuildMoves, ReleaseMoves, DeletionMoves

(* Steps of worker recovery. *)
LEMMA RecoverRegistry ==
    ASSUME TypeOK, Placed, CreationExclusive, Known, Homed, Closing, NEW t \in {Recovery},
           Recover(t)
    PROVE  OwnRegistry(t)
  <1> USE DEF registryVars, taskVars, mediaVars, Goto
  <1>0. /\ t \in Tasks /\ t = Recovery /\ None \notin Tasks
        /\ t \notin Joins \cup Leaves \cup Deletes \cup Writers \cup Owners \cup Drains
        /\ state \in [Joins -> RoomStates] /\ Joins \subseteq Tasks
    BY Kinds, TaskAssumption DEF TypeOK
  <1>r. /\ pc \in [Tasks -> Labels] /\ token \in [RoomIds -> Tasks \cup {None}]
        /\ rooms \in [RoomIds -> Joins \cup {None}]
        /\ routers \in [RoomIds -> Joins \cup {None}]
    BY DEF TypeOK
  <1>p. pc[t] \in {"close", "teardown"} =>
          arc[t] \in Joins /\ room[t] \in RoomIds
    <2> SUFFICES ASSUME pc[t] \in {"close", "teardown"}
                 PROVE  arc[t] \in Joins /\ room[t] \in RoomIds
      OBVIOUS
    <2>1. arc[t] \in Joins /\ room[t] = room[arc[t]]
      BY <1>0 DEF Placed, Homed
    <2> QED BY <1>0, <2>1 DEF Known, Unpublished, Early, Placed
  <1>c. pc[t] = "close" => creation = t /\ rooms[room[t]] \in {arc[t], None}
    BY <1>0 DEF CreationExclusive, UnderCreation, Closing
  <1>1. CASE RecoverClose(t)
    <2>0. /\ pc[t] = "close" /\ UNCHANGED <<identity, routers, room, arc>>
          /\ arc[t] \in Joins /\ room[t] \in RoomIds
      BY <1>1, <1>p DEF RecoverClose
    <2>1. \/ UNCHANGED <<state, rooms, token>>
          \/ /\ state' = [state EXCEPT ![arc[t]] = Emptied(state[arc[t]])]
             /\ token' = [token EXCEPT ![room[t]] = t] /\ rooms'[room[t]] = None
             /\ pc'[t] = "teardown"
      BY <1>0, <1>r, <1>c, <1>1, <2>0 DEF RecoverClose
    <2>2. Emptied(state[arc[t]]).deleting
      BY <1>0, <2>0, OperatorFields
    <2>3. TokenMoves(t)
      BY <1>0, <1>r, <1>c, <2>0, <2>1 DEF TokenMoves
    <2>4. StateMoves(t)
      BY <1>0, <1>r, <2>0, <2>1, <2>2 DEF StateMoves
    <2> QED BY <1>0, <2>0, <2>3, <2>4 DEF OwnRegistry, RouterMoves, MarkerMoves, BuildMoves,
            ReleaseMoves, DeletionMoves, ClearMoves
  <1>2. CASE Teardown(t)
    <2>1. UNCHANGED <<rooms, identity, state, room, arc>> /\ pc[t] = "teardown"
      BY <1>2 DEF Teardown
    <2>2. TokenMoves(t)
      BY <1>0, <1>r, <1>p, <1>2, <2>1 DEF TokenMoves, Teardown, Release
    <2>3. RouterMoves(t)
      BY <1>0, <1>r, <1>p, <1>2, <2>1 DEF RouterMoves, Teardown
    <2> QED BY <1>0, <2>1, <2>2, <2>3 DEF OwnRegistry, StateMoves, MarkerMoves, BuildMoves,
            ReleaseMoves, DeletionMoves, ClearMoves
  <1>3. CASE RecoverSnapshot(t) \/ RecoverReplace(t) \/ RecoverNext(t) \/ RecoverLock(t)
    <2>1. UNCHANGED <<rooms, token, identity, state, routers>>
      BY <1>3 DEF RecoverSnapshot, RecoverReplace, RecoverNext, RecoverLock
    <2> QED BY <1>0, <2>1 DEF OwnRegistry, TokenMoves, StateMoves, RouterMoves, MarkerMoves,
            BuildMoves, ReleaseMoves, DeletionMoves, ClearMoves
  <1> QED BY <1>1, <1>2, <1>3 DEF Recover

(* A step of a request obeys the frame. *)
LEMMA StepRegistry ==
    ASSUME EvictionInvariant, NEW t \in Tasks, Step(t)
    PROVE  OwnRegistry(t)
  <1> USE DEF EvictionInvariant, PendingInvariant, SafetyInvariant
  <1>1. CASE t \in Joins /\ Join(t)
    BY <1>1, JoinRegistry
  <1>2. CASE t \in Leaves /\ Leave(t)
    BY <1>2, LeaveRegistry
  <1>3. CASE t \in Creates /\ Create(t)
    BY <1>3, CreateRegistry
  <1>4. CASE t \in Deletes /\ Delete(t)
    BY <1>4, DeleteRegistry
  <1>5. CASE \/ t \in Writers /\ (WriterLookup(t) \/ Write(t))
             \/ t \in Owners /\ (OwnerMark(t) \/ OwnerFind(t) \/ Write(t) \/ DormantCheck(t)
                                   \/ DormantWrite(t))
    BY <1>5, WriteRegistry
  <1>6. CASE t \in Drains /\ Drain(t)
    BY <1>6, DrainRegistry
  <1>7. CASE t = Recovery /\ Recover(t)
    BY <1>7, RecoverRegistry
  <1> QED BY <1>1, <1>2, <1>3, <1>4, <1>5, <1>6, <1>7 DEF Step

----------------------------------------------------------------------------
(* The registry invariant. *)

Frames(t) == OwnPlace(t) /\ OwnRooms(t) /\ OwnCustody(t) /\ OwnRegistry(t)

(* Facts about the constants that the steps below share. *)
LEMMA Disjoint ==
    /\ None \notin Tasks /\ None \notin Joins
    /\ Joins \subseteq Tasks /\ Leaves \subseteq Tasks /\ Deletes \subseteq Tasks
    /\ Writers \subseteq Tasks /\ Owners \subseteq Tasks /\ Drains \subseteq Tasks
    /\ Joins \cap (Leaves \cup Deletes \cup Writers \cup Owners \cup Drains) = {}
    /\ Leaves \cap (Deletes \cup Writers \cup Owners \cup Drains) = {}
    /\ Deletes \cap (Writers \cup Owners \cup Drains) = {}
    /\ Drains \cap (Writers \cup Owners) = {}
    /\ Recovery \notin Joins \cup Leaves \cup Deletes \cup Writers \cup Owners \cup Drains
  BY TaskAssumption DEF Tasks

(* Facts about the task that takes the step, from the invariant. *)
LEMMA Position ==
    ASSUME EvictionInvariant, Registry, NEW t \in Tasks
    PROVE  /\ arc[t] \in Joins => room[t] = room[arc[t]] /\ ~Unpublished(arc[t])
           /\ t \in Joins /\ Building(t) =>
                /\ creation = t /\ rooms[room[t]] = None /\ token[room[t]] = None
                /\ room[t] \notin identity /\ Unpublished(t) /\ room[t] \in RoomIds
           /\ t \in Deletes /\ pc[t] \in {"tombstone", "delete"} => creation = t
           /\ t \in Deletes /\ pc[t] = "tombstone" => rooms[room[t]] \in {None, arc[t]}
           /\ t \in Deletes /\ pc[t] \in {"delete", "restore", "empty"} /\ token[room[t]] = t =>
                rooms[room[t]] \in {None, arc[t]}
           /\ t \in Joins \cup Leaves \cup Deletes /\ pc[t] = "teardown" /\ token[room[t]] = t =>
                rooms[room[t]] = None
           /\ t \in Owners /\ pc[t] = "write" => rooms[room[t]] = None /\ room[t] \in identity
           /\ t \in Drains /\ pc[t] = "clear" =>
                creation = t /\ \A r \in RoomIds : rooms[r] = None
           /\ t \in Joins \cup Leaves \cup Deletes \cup Writers \cup Owners /\ pc[t] # "idle" =>
                room[t] \in RoomIds
  <1> USE DEF EvictionInvariant, PendingInvariant, SafetyInvariant, Registry
  <1>1. arc[t] \in Joins => room[t] = room[arc[t]] /\ ~Unpublished(arc[t])
    BY DEF Homed, Known
  <1>2. t \in Joins /\ Building(t) =>
           /\ creation = t /\ rooms[room[t]] = None /\ token[room[t]] = None
           /\ room[t] \notin identity /\ Unpublished(t) /\ room[t] \in RoomIds
    BY DEF Building, CreationExclusive, UnderCreation, BuildsAlone, Unclaimed, Unpublished,
       Early, Placed
  <1>3. /\ t \in Deletes /\ pc[t] \in {"tombstone", "delete"} => creation = t
        /\ t \in Drains /\ pc[t] = "clear" =>
             creation = t /\ \A r \in RoomIds : rooms[r] = None
    BY DEF CreationExclusive, UnderCreation, Cleared
  <1>4. t \in Owners /\ pc[t] = "write" => rooms[room[t]] = None /\ room[t] \in identity
    BY DEF Marked, Marking
  <1>5. t \in Joins \cup Leaves \cup Deletes \cup Writers \cup Owners /\ pc[t] # "idle" =>
                room[t] \in RoomIds
    BY DEF Placed
  <1> QED BY <1>1, <1>2, <1>3, <1>4, <1>5 DEF Claiming

(* A mapped room stays tombstoned exactly while its id is reserved. *)
LEMMA TokenTellsStep ==
    ASSUME EvictionInvariant, Registry, NEW t \in Tasks, Frames(t)
    PROVE  TokenTells'
  <1> USE DEF Frames
  <1>0. /\ rooms \in [RoomIds -> Joins \cup {None}] /\ Homed /\ Known /\ TokenTells
        /\ Unclaimed /\ TypeOK /\ Doomed /\ Claiming
    BY DEF EvictionInvariant, PendingInvariant, SafetyInvariant, Registry, TypeOK
  <1> SUFFICES ASSUME NEW r \in RoomIds, rooms'[r] # None
               PROVE  state'[rooms'[r]].deleting <=> token'[r] # None
    BY DEF TokenTells
  <1>1. CASE rooms'[r] # rooms[r]
    <2>1. t \in Joins /\ pc[t] = "publish" /\ r = room[t] /\ rooms'[r] = t
      BY <1>1 DEF OwnRooms
    <2>2. Building(t)
      BY <2>1 DEF Building
    <2>3. rooms[r] = None /\ token[r] = None /\ Unpublished(t)
      BY <2>1, <2>2, Position
    <2>4. token'[r] = None
      BY <2>1, <2>3, Disjoint DEF OwnRegistry, TokenMoves
    <2>5. ~state[t].deleting
      BY <1>0, <2>1 DEF Unclaimed
    <2>6. ~state'[t].deleting
      BY <2>1, <2>3, <2>5, Disjoint, Position DEF OwnRegistry, StateMoves
    <2> QED BY <2>1, <2>4, <2>6
  <1>2. CASE rooms'[r] = rooms[r]
    <2>1. PICK i \in Joins : i = rooms[r]
      BY <1>0, <1>2
    <2>2. room[i] = r /\ ~Unpublished(i) /\ (state[i].deleting <=> token[r] # None)
      BY <1>0, <2>1, Disjoint DEF Homed, Known, TokenTells
    <2>3. CASE token'[r] # token[r]
      <3>1. r = room[t]
        BY <2>3 DEF OwnRegistry, TokenMoves
      <3>2. CASE t \in Deletes /\ pc[t] = "tombstone" /\ token'[r] = t
                  /\ (arc[t] \in Joins => state'[arc[t]].deleting)
        BY <1>2, <2>1, <3>1, <3>2, Disjoint, Position
      <3>3. CASE t \in Writers \cup Owners /\ rooms[r] = arc[t] /\ state'[arc[t]].deleting
                  /\ token'[r] = t
        BY <1>2, <2>1, <3>3, Disjoint
      <3>4. CASE t \in Deletes /\ token[r] = t /\ token'[r] = None
                  /\ (pc[t] = "restore" \/ (pc[t] = "delete" /\ arc[t] = None))
                  /\ (arc[t] \in Joins => ~state'[arc[t]].deleting)
        BY <1>2, <2>1, <3>1, <3>4, Disjoint, Position
      <3>5. ~(t \in Owners /\ pc[t] = "write")
        BY <2>1, <3>1, Disjoint, Position
      <3>6. ~(t \in Joins \cup Leaves \cup Deletes /\ pc[t] = "teardown" /\ token[r] = t)
        BY <2>1, <3>1, Disjoint, Position
      <3>7. ~(t = Recovery /\ token[r] = t)
        BY <1>0, <2>1, Disjoint DEF Claiming
      <3> QED BY <1>2, <2>1, <2>3, <3>2, <3>3, <3>4, <3>5, <3>6, <3>7, Disjoint
              DEF OwnRegistry, TokenMoves
    <2>4. CASE token'[r] = token[r]
      <3>1. state'[i].deleting => state[i].deleting
        <4> SUFFICES ASSUME state'[i].deleting, ~state[i].deleting PROVE FALSE
          OBVIOUS
        <4>1. ~(t \in Drains /\ pc[t] = "clear")
          BY <2>1, Disjoint, Position
        <4>2. i = arc[t] /\ (rooms'[room[t]] = None \/ token'[room[t]] # None)
          BY <4>1 DEF OwnRegistry, StateMoves
        <4>3. room[t] = r
          BY <2>2, <4>2, Position
        <4> QED BY <1>2, <2>1, <2>2, <2>4, <4>2, <4>3, Disjoint
      <3>2. state[i].deleting => state'[i].deleting
        <4> SUFFICES ASSUME state[i].deleting, ~state'[i].deleting PROVE FALSE
          OBVIOUS
        <4>1. ~(t = i /\ pc[t] = "load")
          BY <2>2 DEF Unpublished, Early
        <4>2. /\ t \in Deletes /\ pc[t] = "restore" /\ arc[t] = i
              /\ token[room[t]] = t => token'[room[t]] = None
          BY <4>1 DEF OwnRegistry, StateMoves
        <4>3. room[t] = r
          BY <2>2, <4>2, Position
        <4>4. token[room[t]] = t
          BY <1>0, <2>1, <4>2, <4>3 DEF Doomed, Dooming
        <4> QED BY <2>4, <4>2, <4>3, <4>4, Disjoint
      <3> QED BY <1>2, <2>1, <2>2, <2>4, <3>1, <3>2
    <2> QED BY <2>3, <2>4
  <1> QED BY <1>1, <1>2

(* Updates hold their markers, and no room appears under a dormant one. *)
LEMMA MarkedStep ==
    ASSUME EvictionInvariant, Registry, NEW t \in Tasks, Frames(t)
    PROVE  Marked'
  <1> USE DEF Frames
  <1>0. /\ Marked /\ Placed /\ Unclaimed
        /\ \A o \in Owners : pc[o] \in Marking => room[o] \in RoomIds
    BY DEF EvictionInvariant, PendingInvariant, SafetyInvariant, Registry, Placed, Marking
  <1>1. ASSUME NEW o \in Owners, pc'[o] \in Marking
        PROVE  room'[o] \in identity'
    <2>1. CASE o = t
      BY <1>0, <1>1, <2>1 DEF OwnRegistry, MarkerMoves, Marked
    <2>2. CASE o # t
      <3>1. pc[o] \in Marking /\ room'[o] = room[o] /\ room[o] \in identity /\ room[o] \in RoomIds
        BY <1>0, <1>1, <2>2, Disjoint DEF OwnPlace, Marked
      <3> QED BY <1>0, <2>2, <3>1 DEF OwnRegistry, MarkerMoves, Marked
    <2> QED BY <2>1, <2>2
  <1>2. ASSUME NEW o \in Owners, pc'[o] \in Marking, NEW u \in Owners, pc'[u] \in Marking,
               room'[u] = room'[o]
        PROVE  u = o
    <2>1. \A v \in Owners : v # t /\ pc'[v] \in Marking =>
             pc[v] \in Marking /\ room'[v] = room[v] /\ room[v] \in identity
      BY <1>0, Disjoint DEF OwnPlace, Marked
    <2>2. t \in Owners /\ pc'[t] \in Marking =>
             \/ pc[t] \in Marking /\ room'[t] = room[t]
             \/ room'[t] \notin identity
      BY DEF OwnRegistry, MarkerMoves
    <2> QED BY <1>0, <1>2, <2>1, <2>2 DEF Marked
  <1>3. ASSUME NEW o \in Owners, pc'[o] \in {"dormant", "write"}
        PROVE  rooms'[room'[o]] = None
    <2>1. CASE o = t
      BY <1>0, <1>3, <2>1 DEF OwnRegistry, MarkerMoves, Marked
    <2>2. CASE o # t
      <3>1. /\ room'[o] = room[o] /\ room[o] \in identity /\ room[o] \in RoomIds
            /\ rooms[room[o]] = None
        BY <1>0, <1>3, <2>2, Disjoint DEF OwnPlace, Marked, Marking
      <3>2. t \in Joins /\ pc[t] = "publish" => room[t] # room[o]
        BY <1>0, <3>1 DEF Unclaimed, Building
      <3> QED BY <3>1, <3>2 DEF OwnRooms
    <2> QED BY <2>1, <2>2
  <1> QED BY <1>1, <1>2, <1>3 DEF Marked

(* Nothing is reserved or marked under a join that builds. *)
LEMMA UnclaimedStep ==
    ASSUME EvictionInvariant, Registry, NEW t \in Tasks, Frames(t)
    PROVE  Unclaimed'
  <1> USE DEF Frames
  <1>0. Unclaimed /\ Known /\ CreationExclusive
    BY DEF EvictionInvariant, PendingInvariant, SafetyInvariant, Registry
  <1>1. ASSUME NEW j \in Joins, j # t, Building(j)'
        PROVE  /\ Building(j) /\ pc'[j] = pc[j] /\ room'[j] = room[j] /\ creation = j
               /\ rooms[room[j]] = None /\ token[room[j]] = None /\ room[j] \notin identity
               /\ Unpublished(j) /\ room[j] \in RoomIds
    <2>1. Building(j) /\ pc'[j] = pc[j] /\ room'[j] = room[j]
      BY <1>1, Disjoint DEF OwnPlace, Building
    <2> QED BY <1>1, <2>1, Disjoint, Position
  <1>2. ASSUME NEW j \in Joins, Building(j)'
        PROVE  token'[room'[j]] = None /\ room'[j] \notin identity'
    <2>1. CASE j = t
      BY <1>0, <1>2, <2>1 DEF OwnRegistry, BuildMoves, Unclaimed
    <2>2. CASE j # t
      <3>1. creation # t /\ creation # None
        BY <1>1, <1>2, <2>2, Disjoint
      <3>2. token'[room[j]] = None
        <4> SUFFICES ASSUME token'[room[j]] # token[room[j]] PROVE FALSE
          BY <1>1, <1>2, <2>2
        <4>1. room[t] = room[j]
          BY <1>1, <1>2, <2>2 DEF OwnRegistry, TokenMoves
        <4>2. ~(t \in Deletes /\ pc[t] = "tombstone") /\ ~(t \in Owners /\ pc[t] = "write")
          BY <1>1, <1>2, <2>2, <3>1, <4>1, Position
        <4> QED BY <1>1, <1>2, <2>2, <3>1, <4>1, <4>2, Disjoint DEF OwnRegistry, TokenMoves
      <3>3. room[j] \notin identity'
        BY <1>1, <1>2, <2>2, <3>1 DEF OwnRegistry, MarkerMoves
      <3> QED BY <1>1, <1>2, <2>2, <3>2, <3>3
    <2> QED BY <2>1, <2>2
  <1>3. ASSUME NEW j \in Joins, pc'[j] \in {"route", "register", "publish"}
        PROVE  ~state'[j].deleting
    <2>1. CASE j = t
      BY <1>0, <1>3, <2>1 DEF OwnRegistry, BuildMoves, Unclaimed
    <2>2. CASE j # t
      <3>1. Building(j)'
        BY <1>3 DEF Building
      <3>2. ~state[j].deleting
        BY <1>0, <1>1, <1>3, <2>2, <3>1 DEF Unclaimed
      <3>3. ~(t \in Drains /\ pc[t] = "clear") /\ j # arc[t]
        BY <1>1, <2>2, <3>1, Position
      <3> QED BY <3>2, <3>3 DEF OwnRegistry, StateMoves
    <2> QED BY <2>1, <2>2
  <1> QED BY <1>2, <1>3 DEF Unclaimed

(* Where an id is reserved no room appears. *)
LEMMA NothingAppears ==
    ASSUME EvictionInvariant, Registry, NEW t \in Tasks, Frames(t), NEW r \in RoomIds,
           token[r] # None
    PROVE  rooms'[r] \in {None, rooms[r]}
  <1>1. t \in Joins /\ pc[t] = "publish" => room[t] # r
    BY Position DEF Building
  <1> QED BY <1>1 DEF Frames, OwnRooms

(* A reservation is issued only by the task that takes the step. *)
LEMMA TokensAreOwn ==
    ASSUME NEW t \in Tasks, Frames(t), NEW r \in RoomIds, token'[r] \notin {None, t}
    PROVE  token'[r] = token[r]
  BY Disjoint DEF Frames, OwnRegistry, TokenMoves

(* The holder of a reservation has the id to itself. *)
LEMMA ClaimingStep ==
    ASSUME EvictionInvariant, Registry, NEW t \in Tasks, Frames(t)
    PROVE  Claiming'
  <1> USE DEF Frames
  <1>0. Claiming /\ Placed
    BY DEF EvictionInvariant, PendingInvariant, SafetyInvariant, Registry
  <1>1. ASSUME NEW r \in RoomIds, token'[r] = Recovery
        PROVE  rooms'[r] = None
    <2>1. CASE token'[r] = token[r]
      BY <1>0, <1>1, <2>1, NothingAppears, Kinds, Disjoint DEF Claiming
    <2>2. CASE token'[r] # token[r]
      <3>1. t = Recovery
        BY <1>1, <2>2, TokensAreOwn, Kinds, Disjoint
      <3> QED BY <1>1, <2>2, <3>1, Disjoint DEF OwnRegistry, TokenMoves
    <2> QED BY <2>1, <2>2
  <1>2. ASSUME NEW u \in Joins \cup Leaves \cup Deletes, pc'[u] = "teardown",
               token'[room'[u]] = u
        PROVE  rooms'[room'[u]] = None
    <2>1. CASE u = t
      BY <1>0, <1>2, <2>1 DEF OwnRegistry, ReleaseMoves, Claiming
    <2>2. CASE u # t
      <3>1. room'[u] = room[u] /\ pc[u] = "teardown" /\ room[u] \in RoomIds /\ u \in Tasks
        BY <1>0, <1>2, <2>2, Disjoint DEF OwnPlace, Placed
      <3>2. token[room[u]] = u
        BY <1>2, <2>2, <3>1, TokensAreOwn, Disjoint
      <3>3. rooms[room[u]] = None
        BY <1>0, <3>1, <3>2 DEF Claiming
      <3> QED BY <3>1, <3>2, <3>3, NothingAppears, Disjoint
    <2> QED BY <2>1, <2>2
  <1>3. ASSUME NEW u \in Deletes, pc'[u] = "tombstone"
        PROVE  rooms'[room'[u]] \in {None, arc'[u]}
    <2>1. CASE u = t
      BY <1>3, <2>1 DEF OwnRegistry, DeletionMoves
    <2>2. CASE u # t
      <3>1. /\ room'[u] = room[u] /\ arc'[u] = arc[u] /\ pc[u] = "tombstone"
            /\ room[u] \in RoomIds /\ u \in Tasks /\ rooms[room[u]] \in {None, arc[u]}
        BY <1>0, <1>3, <2>2, Disjoint DEF OwnPlace, Placed, Claiming
      <3>2. creation = u
        BY <1>3, <3>1, Position
      <3>3. ~(t \in Joins /\ pc[t] = "publish")
        BY <2>2, <3>2, Position DEF Building
      <3> QED BY <3>1, <3>3 DEF OwnRooms
    <2> QED BY <2>1, <2>2
  <1>4. ASSUME NEW u \in Deletes, pc'[u] \in {"delete", "restore", "empty"},
               token'[room'[u]] = u
        PROVE  rooms'[room'[u]] \in {None, arc'[u]}
    <2>1. CASE u = t
      BY <1>0, <1>4, <2>1 DEF OwnRegistry, DeletionMoves, Claiming
    <2>2. CASE u # t
      <3>1. /\ room'[u] = room[u] /\ arc'[u] = arc[u] /\ pc[u] = pc'[u]
            /\ room[u] \in RoomIds /\ u \in Tasks
        BY <1>0, <1>4, <2>2, Disjoint DEF OwnPlace, Placed
      <3>2. token[room[u]] = u
        BY <1>4, <2>2, <3>1, TokensAreOwn, Disjoint
      <3>3. rooms[room[u]] \in {None, arc[u]}
        BY <1>0, <1>4, <3>1, <3>2 DEF Claiming
      <3> QED BY <3>1, <3>2, <3>3, NothingAppears, Disjoint
    <2> QED BY <2>1, <2>2
  <1> QED BY <1>1, <1>2, <1>3, <1>4 DEF Claiming

(* The drain holds the creation lock while the map is empty. *)
LEMMA ClearedStep ==
    ASSUME EvictionInvariant, Registry, NEW t \in Tasks, Frames(t)
    PROVE  Cleared'
  <1> USE DEF Frames
  <1> SUFFICES ASSUME NEW d \in Drains, pc'[d] = "clear", NEW r \in RoomIds
               PROVE  rooms'[r] = None
    BY DEF Cleared
  <1>0. Cleared
    BY DEF Registry
  <1>1. CASE d = t
    BY <1>0, <1>1 DEF OwnRegistry, ClearMoves, Cleared
  <1>2. CASE d # t
    <2>1. pc[d] = "clear" /\ d \in Tasks
      BY <1>2, Disjoint DEF OwnPlace
    <2>2. creation = d /\ rooms[r] = None
      BY <2>1, Position
    <2>3. ~(t \in Joins /\ pc[t] = "publish")
      BY <1>2, <2>2, Position DEF Building
    <2> QED BY <2>2, <2>3 DEF OwnRooms
  <1> QED BY <1>1, <1>2

(* Every step keeps to its frames. *)
LEMMA StepsKeepFrames ==
    ASSUME EvictionInvariant, NEW t \in Tasks, Step(t)
    PROVE  Frames(t)
  <1>0. SafetyInvariant /\ Closing
    BY DEF EvictionInvariant, PendingInvariant
  <1> QED BY <1>0, StepFrames, StepCustody, StepRegistry DEF Frames, SafetyInvariant

(* The registry invariant holds initially and is inductive. *)
LEMMA RegistryInit == Init => Registry
  <1> SUFFICES ASSUME Init PROVE Registry
    OBVIOUS
  <1>1. /\ \A t \in Tasks : pc[t] = "idle"
        /\ \A r \in RoomIds : rooms[r] = None
    BY DEF Init
  <1> QED BY <1>1, Disjoint DEF Registry, TokenTells, Marked, Marking, Unclaimed, Building,
          Claiming, Cleared

LEMMA RegistryStep == EvictionInvariant /\ Registry /\ [Next]_vars => Registry'
  <1> SUFFICES ASSUME EvictionInvariant, Registry, [Next]_vars PROVE Registry'
    OBVIOUS
  <1>1. ASSUME NEW t \in Tasks, Step(t)
        PROVE  Registry'
    <2>1. Frames(t)
      BY <1>1, StepsKeepFrames
    <2>2. TokenTells' /\ Marked' /\ Unclaimed'
      BY <2>1, TokenTellsStep, MarkedStep, UnclaimedStep
    <2>3. Claiming' /\ Cleared'
      BY <2>1, ClaimingStep, ClearedStep
    <2> QED BY <2>2, <2>3 DEF Registry
  <1>2. ASSUME UNCHANGED <<pc, room, arc, rooms, token, identity, state>>
        PROVE  Registry'
    BY <1>2 DEF Registry, TokenTells, Marked, Unclaimed, Building, Claiming, Cleared
  <1>3. ASSUME (\E t \in Tasks : Settle(t)) \/ (\E w \in Workers : WorkerDies(w))
                  \/ UNCHANGED vars
        PROVE  UNCHANGED <<pc, room, arc, rooms, token, identity, state>>
    BY <1>3 DEF Settle, WorkerDies, vars, registryVars, taskVars
  <1> QED BY <1>1, <1>2, <1>3 DEF Next, Terminated

(* A mapped room is tombstoned exactly while its id is reserved, and the   *)
(* holder of a reservation has the id to itself, whatever dies.            *)
THEOREM RegistryHolds == Spec => []Registry
  BY EvictionHolds, RegistryInit, RegistryStep, PTL DEF Spec

(* An id reserved because an SQL outcome is unknown is never released, and *)
(* overwritten only by recovery when it closes a room of that id: no       *)
(* eviction, deletion or restore touches a quarantine.                     *)
THEOREM QuarantinesAreKept == Spec => QuarantineHolds
  <1>1. ASSUME EvictionInvariant, Registry, Next, NEW r \in RoomIds,
               token[r] \in Writers \cup Owners, token'[r] # token[r]
        PROVE  /\ pc[Recovery] = "close" /\ pc'[Recovery] = "teardown"
               /\ room[Recovery] = r /\ token'[r] = Recovery
    <2>1. PICK t \in Tasks : Step(t)
      BY <1>1 DEF Next, Settle, WorkerDies, Terminated, vars, registryVars
    <2>2. Frames(t) /\ TokenTells
      BY <1>1, <2>1, StepsKeepFrames DEF Registry
    <2>3. ~(arc[t] \in Joins /\ rooms[r] = arc[t] /\ ~state[arc[t]].deleting)
      BY <1>1, <2>2, Disjoint DEF TokenTells
    <2> QED BY <1>1, <2>2, <2>3, Disjoint DEF Frames, OwnRegistry, TokenMoves
  <1>2. EvictionInvariant /\ Registry /\ [Next]_vars =>
          [\A r \in RoomIds : token[r] \in Writers \cup Owners =>
             \/ token'[r] = token[r]
             \/ /\ pc[Recovery] = "close" /\ pc'[Recovery] = "teardown"
                /\ room[Recovery] = r /\ token'[r] = Recovery]_vars
    BY <1>1
  <1> QED BY <1>2, EvictionHolds, RegistryHolds, PTL DEF Spec, QuarantineHolds

----------------------------------------------------------------------------
(* Reservations are kept and live rooms keep their routers, until a worker *)
(* dies.                                                                   *)

(* What the task that takes the step holds, until a worker dies. *)
LEMMA Standing ==
    ASSUME EvictionInvariant, Custody, NEW t \in Tasks \ {Recovery}
    PROVE  /\ arc[t] \in Joins => room[t] = room[arc[t]] /\ ~Unpublished(arc[t])
           /\ t \in Joins /\ Building(t) =>
                /\ creation = t /\ rooms[room[t]] = None /\ token[room[t]] = None
                /\ room[t] \notin identity /\ Unpublished(t) /\ room[t] \in RoomIds
           /\ t \in Deletes /\ pc[t] \in {"tombstone", "delete"} => creation = t
           /\ t \in Deletes /\ pc[t] \in {"tombstone", "delete", "restore", "empty"} =>
                rooms[room[t]] \in {None, arc[t]}
           /\ t \in Deletes /\ pc[t] \in {"delete", "restore", "empty"} => token[room[t]] = t
           /\ t \in Joins \cup Leaves \cup Deletes /\ pc[t] = "teardown" =>
                token[room[t]] = t /\ rooms[room[t]] = None
           /\ t \in Writers \cup Owners /\ pc[t] = "sweep" => token[room[t]] = t
           /\ t \in Owners /\ pc[t] = "write" => rooms[room[t]] = None /\ room[t] \in identity
           /\ t \in Drains /\ pc[t] = "clear" =>
                creation = t /\ \A r \in RoomIds : rooms[r] = None
           /\ t \in Joins \cup Leaves \cup Deletes \cup Writers \cup Owners /\ pc[t] # "idle" =>
                room[t] \in RoomIds
  BY Position DEF Custody, Holding

(* A reservation somebody else still needs is neither overwritten nor      *)
(* released.                                                               *)
LEMMA HoldingStep ==
    ASSUME EvictionInvariant, Custody, NEW t \in Tasks \ {Recovery}, Frames(t)
    PROVE  Holding'
  <1> USE DEF Frames
  <1>0. Holding /\ TokenTells /\ Placed
    BY DEF EvictionInvariant, PendingInvariant, SafetyInvariant, Registry, Custody
  <1>1. ASSUME NEW u \in Tasks, u # t, NEW r \in RoomIds, token[r] = u
        PROVE  token'[r] = u
    <2> SUFFICES ASSUME token'[r] # token[r] PROVE FALSE
      BY <1>1
    <2>1. arc[t] \in Joins /\ rooms[r] = arc[t] /\ ~state[arc[t]].deleting
      BY <1>1, Disjoint DEF OwnRegistry, TokenMoves
    <2>2. token[r] = None
      BY <1>0, <2>1, Disjoint DEF TokenTells
    <2> QED BY <1>1, <2>2, Disjoint
  <1>2. ASSUME NEW r \in RoomIds, token[r] # None
        PROVE  rooms'[r] \in {None, rooms[r]}
    <2>1. t \in Joins /\ pc[t] = "publish" => room[t] # r
      BY <1>2, Standing DEF Building
    <2> QED BY <2>1 DEF OwnRooms
  <1>3. ASSUME NEW u \in Joins \cup Leaves \cup Deletes, pc'[u] = "teardown"
        PROVE  token'[room'[u]] = u /\ rooms'[room'[u]] = None
    <2>1. CASE u = t
      BY <1>0, <1>3, <2>1 DEF OwnRegistry, ReleaseMoves, Holding
    <2>2. CASE u # t
      <3>1. /\ room'[u] = room[u] /\ pc[u] = "teardown" /\ room[u] \in RoomIds /\ u \in Tasks
            /\ token[room[u]] = u /\ rooms[room[u]] = None
        BY <1>0, <1>3, <2>2, Disjoint DEF OwnPlace, Holding, Placed
      <3> QED BY <1>1, <1>2, <2>2, <3>1, Disjoint
    <2> QED BY <2>1, <2>2
  <1>4. ASSUME NEW u \in Writers \cup Owners, pc'[u] = "sweep"
        PROVE  token'[room'[u]] = u
    <2>1. CASE u = t
      <3>1. /\ pc[t] = "quarantine" /\ room'[t] = room[t]
            /\ rooms[room[t]] = arc[t] /\ ~state[arc[t]].deleting
            /\ token[room[t]] = None => token'[room[t]] = t
        BY <1>4, <2>1 DEF OwnRegistry, ReleaseMoves
      <3>2. room[t] \in RoomIds /\ arc[t] \in Joins
        BY <1>0, <1>4, <2>1, <3>1 DEF Placed
      <3>3. token[room[t]] = None
        BY <1>0, <3>1, <3>2, Disjoint DEF TokenTells
      <3> QED BY <2>1, <3>1, <3>3
    <2>2. CASE u # t
      <3>1. /\ room'[u] = room[u] /\ pc[u] = "sweep" /\ room[u] \in RoomIds /\ u \in Tasks
            /\ token[room[u]] = u
        BY <1>0, <1>4, <2>2, Disjoint DEF OwnPlace, Holding, Placed
      <3> QED BY <1>1, <2>2, <3>1
    <2> QED BY <2>1, <2>2
  <1>5. ASSUME NEW u \in Deletes, pc'[u] \in {"delete", "restore", "empty"}
        PROVE  token'[room'[u]] = u
    <2>1. CASE u = t
      BY <1>0, <1>5, <2>1 DEF OwnRegistry, DeletionMoves, Holding
    <2>2. CASE u # t
      <3>1. /\ room'[u] = room[u] /\ pc[u] = pc'[u] /\ room[u] \in RoomIds /\ u \in Tasks
            /\ token[room[u]] = u
        BY <1>0, <1>5, <2>2, Disjoint DEF OwnPlace, Holding, Placed
      <3> QED BY <1>1, <2>2, <3>1
    <2> QED BY <2>1, <2>2
  <1>6. ASSUME NEW u \in Deletes, pc'[u] \in {"tombstone", "delete", "restore", "empty"}
        PROVE  rooms'[room'[u]] \in {None, arc'[u]}
    <2>1. CASE u = t
      BY <1>0, <1>6, <2>1 DEF OwnRegistry, DeletionMoves, Holding
    <2>2. CASE u # t
      <3>1. /\ room'[u] = room[u] /\ arc'[u] = arc[u] /\ pc[u] = pc'[u] /\ room[u] \in RoomIds
            /\ u \in Tasks \ {Recovery} /\ rooms[room[u]] \in {None, arc[u]}
        BY <1>0, <1>6, <2>2, Disjoint DEF OwnPlace, Holding, Placed
      <3>2. CASE pc[u] \in {"tombstone", "delete"}
        <4>1. creation = u
          BY <3>1, <3>2, Standing
        <4>2. ~(t \in Joins /\ pc[t] = "publish")
          BY <2>2, <4>1, Standing DEF Building
        <4> QED BY <3>1, <4>2 DEF OwnRooms
      <3>3. CASE pc[u] \in {"restore", "empty"}
        <4>1. token[room[u]] # None
          BY <3>1, <3>3, Disjoint, Standing
        <4> QED BY <1>2, <3>1, <4>1
      <3> QED BY <1>6, <3>1, <3>2, <3>3
    <2> QED BY <2>1, <2>2
  <1> QED BY <1>3, <1>4, <1>5, <1>6 DEF Holding

(* Nobody but its creator touches the router under a join that builds. *)
LEMMA EquippedStep ==
    ASSUME EvictionInvariant, Custody, NEW t \in Tasks \ {Recovery}, Frames(t)
    PROVE  Equipped'
  <1> USE DEF Frames
  <1> SUFFICES ASSUME NEW j \in Joins, pc'[j] = "publish"
               PROVE  routers'[room'[j]] = j
    BY DEF Equipped
  <1>0. Building(j)'
    BY DEF Building
  <1>1. CASE j = t
    BY <1>0, <1>1 DEF OwnRegistry, RouterMoves, BuildMoves
  <1>2. CASE j # t
    <2>1. /\ Building(j) /\ pc[j] = "publish" /\ room'[j] = room[j]
          /\ j \in Tasks \ {Recovery}
      BY <1>0, <1>2, Disjoint DEF OwnPlace, Building
    <2>2. /\ creation = j /\ rooms[room[j]] = None /\ token[room[j]] = None
          /\ room[j] \in RoomIds
      BY <2>1, Standing
    <2>3. routers[room[j]] = j
      BY <2>1 DEF Custody, Equipped
    <2>4. ASSUME routers'[room[j]] # routers[room[j]]
          PROVE  FALSE
      <3>1. room[t] = room[j]
        BY <2>2, <2>4 DEF OwnRegistry, RouterMoves
      <3>2. ~(t \in Joins /\ Building(t))
        BY <1>2, <2>2, Standing
      <3>3. token[room[t]] # t
        BY <2>2, <3>1, Disjoint
      <3> QED BY <2>2, <2>4, <3>2, <3>3, Standing DEF OwnRegistry, RouterMoves
    <2> QED BY <2>1, <2>3, <2>4
  <1> QED BY <1>1, <1>2

(* A mapped room that is live or may be restored was so before the step. *)
LEMMA LiveBefore ==
    ASSUME EvictionInvariant, Custody, NEW t \in Tasks \ {Recovery}, Frames(t),
           NEW r \in RoomIds, NEW i \in Joins, rooms[r] = i,
           ~state'[i].deleting \/ Restorable(i)'
    PROVE  ~state[i].deleting \/ Restorable(i)
  <1> USE DEF Frames
  <1>0. Homed /\ Known /\ TokenTells
    BY DEF EvictionInvariant, PendingInvariant, Registry, Custody
  <1>1. room[i] = r /\ ~Unpublished(i) /\ (state[i].deleting <=> token[r] # None)
    BY <1>0, Disjoint DEF Homed, Known, TokenTells
  <1>2. CASE ~state'[i].deleting
    <2>1. ~(t = i /\ pc[t] = "load")
      BY <1>1 DEF Unpublished, Early
    <2> QED BY <1>2, <2>1 DEF OwnRegistry, StateMoves, Restorable
  <1>3. CASE Restorable(i)'
    <2>1. PICK d \in Deletes : arc'[d] = i /\ pc'[d] \in {"delete", "restore"}
      BY <1>3 DEF Restorable
    <2>2. CASE d # t
      BY <2>1, <2>2, Disjoint DEF OwnPlace, Restorable
    <2>3. CASE d = t /\ pc[t] \in {"delete", "restore"} /\ arc[t] = i
      BY <2>3 DEF Restorable
    <2>4. CASE d = t /\ token[room[t]] = None /\ arc[t] = i
      BY <1>1, <2>4, Standing
    <2> QED BY <2>1, <2>2, <2>3, <2>4 DEF OwnRegistry, DeletionMoves
  <1> QED BY <1>2, <1>3

(* A live room, or one that may be restored, keeps its router: whoever     *)
(* removes a router there has the id to itself.                            *)
LEMMA RoutedStep ==
    ASSUME EvictionInvariant, Custody, NEW t \in Tasks \ {Recovery}, Frames(t)
    PROVE  Routed'
  <1> USE DEF Frames
  <1>0. /\ rooms \in [RoomIds -> Joins \cup {None}] /\ Homed /\ Known /\ TokenTells
        /\ Equipped /\ Routed /\ Holding
    BY DEF EvictionInvariant, PendingInvariant, SafetyInvariant, Registry, Custody, TypeOK
  <1> SUFFICES ASSUME NEW r \in RoomIds, rooms'[r] # None,
                      ~state'[rooms'[r]].deleting \/ Restorable(rooms[r])'
               PROVE  routers'[r] = rooms'[r]
    BY DEF Routed
  <1>1. CASE rooms'[r] # rooms[r]
    <2>1. t \in Joins /\ pc[t] = "publish" /\ r = room[t] /\ rooms'[r] = t
      BY <1>1 DEF OwnRooms
    <2>2. routers[r] = t
      BY <1>0, <2>1 DEF Equipped
    <2> QED BY <1>1, <2>1, <2>2 DEF OwnRegistry, RouterMoves
  <1>2. CASE rooms'[r] = rooms[r]
    <2>1. PICK i \in Joins : i = rooms[r]
      BY <1>0, <1>2
    <2>2. room[i] = r /\ ~Unpublished(i) /\ (state[i].deleting <=> token[r] # None)
      BY <1>0, <2>1, Disjoint DEF Homed, Known, TokenTells
    <2>3. ~state[i].deleting \/ Restorable(i)
      BY <1>2, <2>1, LiveBefore DEF Restorable
    <2>4. routers[r] = i
      BY <1>0, <2>1, <2>3, Disjoint DEF Routed
    <2>5. ASSUME routers'[r] # routers[r]
          PROVE  FALSE
      <3>1. r = room[t]
        BY <2>5 DEF OwnRegistry, RouterMoves
      <3>2. t \in Writers \cup Owners /\ pc[t] = "sweep" /\ token[r] = t
        <4>1. ~(t \in Joins /\ Building(t))
          BY <2>1, <3>1, Disjoint, Standing
        <4>2. ~(t \in Joins \cup Leaves \cup Deletes /\ pc[t] = "teardown")
          BY <2>1, <3>1, Disjoint, Standing
        <4> QED BY <2>5, <3>1, <4>1, <4>2, Standing DEF OwnRegistry, RouterMoves
      <3>3. Restorable(i)
        BY <2>2, <2>3, <3>2, Disjoint
      <3>4. PICK d \in Deletes : arc[d] = i /\ pc[d] \in {"delete", "restore"}
        BY <3>3 DEF Restorable
      <3>5. token[r] = d
        BY <1>0, <2>2, <3>4, Disjoint DEF Holding, Homed
      <3> QED BY <3>2, <3>5, Disjoint
    <2> QED BY <1>2, <2>1, <2>4, <2>5
  <1> QED BY <1>1, <1>2

(* A worker that has died stays dead: only a healthy state precedes a      *)
(* healthy one.                                                            *)
LEMMA HealthyBefore ==
    ASSUME TypeOK, [Next]_vars, Healthy'
    PROVE  Healthy
  <1>1. ASSUME NEW w \in Workers
        PROVE  worker[w] \in {"died", "gone"} => worker'[w] \in {"died", "gone"}
    <2>0. worker \in [Workers -> {"spare", "up", "died", "gone"}]
      BY DEF TypeOK
    <2>1. CASE worker' = worker
      BY <2>1
    <2>2. ASSUME NEW v \in Workers, worker[v] = "up", worker' = [worker EXCEPT ![v] = "died"]
          PROVE  worker[w] \in {"died", "gone"} => worker'[w] \in {"died", "gone"}
      BY <2>0, <2>2
    <2>3. ASSUME NEW v \in Workers, worker[v] = "died", worker' = [worker EXCEPT ![v] = "gone"]
          PROVE  worker[w] \in {"died", "gone"} => worker'[w] \in {"died", "gone"}
      BY <2>0, <2>3
    <2>4. ASSUME NEW v \in Workers, worker[v] = "spare", worker' = [worker EXCEPT ![v] = "up"]
          PROVE  worker[w] \in {"died", "gone"} => worker'[w] \in {"died", "gone"}
      BY <2>0, <2>4
    <2>5. ASSUME NEW t \in Tasks, Step(t)
          PROVE  worker[w] \in {"died", "gone"} => worker'[w] \in {"died", "gone"}
      <3> USE DEF mediaVars
      <3>1. CASE Join(t)
        BY <2>1, <3>1 DEF Join, JoinLookup, JoinReserve, JoinCreate, JoinLoad, JoinRoute,
           JoinRegister, JoinRollback, JoinPublish, JoinSnapshot, JoinControl, JoinRefused,
           JoinInsert, DropCreation, DropRelease, Teardown
      <3>2. CASE Leave(t) \/ Create(t)
        BY <2>1, <3>2 DEF Leave, LeaveLookup, LeaveRemove, LeaveCreation, LeaveEvict,
           Teardown,
           Create, CreateLock, CreateInsert
      <3>3. CASE Delete(t)
        BY <2>1, <3>3 DEF Delete, DeleteRead, DeleteLock, DeleteTombstone, DeleteRow,
           DeleteRestore, DeleteEmpty, Teardown
      <3>4. CASE \/ WriterLookup(t) \/ Write(t) \/ OwnerMark(t) \/ OwnerFind(t)
                 \/ DormantCheck(t) \/ DormantWrite(t)
        BY <2>1, <3>4 DEF Write, WriterLookup, OwnerMark, OwnerFind, Admit, Persist,
           Announce, Quarantine, Sweep, DormantCheck, DormantWrite
      <3>5. CASE Drain(t)
        BY <2>1, <3>5 DEF Drain, DrainBegin, DrainMap, DrainRoom, DrainEnd
      <3>6. CASE RecoverSnapshot(t)
        BY <2>3, <3>6 DEF RecoverSnapshot
      <3>7. CASE RecoverReplace(t)
        BY <2>1, <2>4, <3>7 DEF RecoverReplace
      <3>8. CASE RecoverNext(t) \/ RecoverLock(t) \/ RecoverClose(t) \/ Teardown(t)
        BY <2>1, <3>8 DEF RecoverNext, RecoverLock, RecoverClose, Teardown
      <3> QED BY <2>5, <3>1, <3>2, <3>3, <3>4, <3>5, <3>6, <3>7, <3>8 DEF Step, Recover
    <2>6. ASSUME NEW v \in Workers, WorkerDies(v)
          PROVE  worker[w] \in {"died", "gone"} => worker'[w] \in {"died", "gone"}
      BY <2>2, <2>6 DEF WorkerDies
    <2>7. CASE (\E t \in Tasks : Settle(t)) \/ UNCHANGED vars
      BY <2>1, <2>7 DEF Settle, vars, mediaVars
    <2> QED BY <2>5, <2>6, <2>7 DEF Next, Terminated
  <1> QED BY <1>1 DEF Healthy, TypeOK

(* While no worker has died recovery sleeps, and the others keep to their  *)
(* frames.                                                                 *)
LEMMA StepsWhileHealthy ==
    ASSUME EvictionInvariant, Healthy, Custody, NEW t \in Tasks, Step(t)
    PROVE  t \in Tasks \ {Recovery} /\ Frames(t)
  <1>1. t # Recovery
    <2> SUFFICES ASSUME t = Recovery PROVE FALSE
      OBVIOUS
    <2>1. Recover(t) /\ pc[t] = "idle"
      BY Kinds DEF Step, Custody
    <2>2. RecoverSnapshot(t)
      BY <2>1 DEF Recover, RecoverReplace, RecoverNext, RecoverLock, RecoverClose, Teardown
    <2> QED BY <2>2 DEF RecoverSnapshot, Healthy
  <1> QED BY <1>1, StepsKeepFrames

(* Custody holds initially. *)
LEMMA CustodyInit == Init => CustodyInvariant
  <1> SUFFICES ASSUME Init PROVE Custody
    BY DEF CustodyInvariant
  <1>1. /\ \A t \in Tasks : pc[t] = "idle"
        /\ \A r \in RoomIds : rooms[r] = None
        /\ Recovery \in Tasks
    BY Kinds DEF Init
  <1> QED BY <1>1, RegistryInit, Disjoint DEF Custody, Holding, Equipped, Routed

(* Custody is inductive while no worker dies. *)
LEMMA CustodyStep ==
    EvictionInvariant /\ CustodyInvariant /\ [Next]_vars => CustodyInvariant'
  <1> SUFFICES ASSUME EvictionInvariant, CustodyInvariant, [Next]_vars, Healthy'
               PROVE  Custody'
    BY DEF CustodyInvariant
  <1>0. Healthy /\ Custody /\ Registry'
    <2>1. TypeOK
      BY DEF EvictionInvariant, PendingInvariant, SafetyInvariant
    <2>2. Healthy /\ Custody
      BY <2>1, HealthyBefore DEF CustodyInvariant
    <2> QED BY <2>2, RegistryStep DEF Custody
  <1>1. ASSUME NEW t \in Tasks, Step(t)
        PROVE  Custody'
    <2>1. t # Recovery
      BY <1>0, <1>1, StepsWhileHealthy
    <2>2. Frames(t)
      BY <1>0, <1>1, StepsWhileHealthy
    <2>3. pc'[Recovery] = "idle"
      BY <1>0, <2>1, <2>2, Kinds DEF Frames, OwnPlace, Custody
    <2> QED BY <1>0, <2>1, <2>2, <2>3, HoldingStep, EquippedStep, RoutedStep DEF Custody
  <1>2. ASSUME UNCHANGED <<pc, room, arc, rooms, token, identity, state, routers>>
        PROVE  Custody'
    BY <1>0, <1>2 DEF Custody, Holding, Equipped, Routed, Restorable
  <1>3. ASSUME (\E t \in Tasks : Settle(t)) \/ (\E w \in Workers : WorkerDies(w))
                  \/ UNCHANGED vars
        PROVE  UNCHANGED <<pc, room, arc, rooms, token, identity, state, routers>>
    BY <1>3 DEF Settle, WorkerDies, vars, registryVars, taskVars, mediaVars
  <1> QED BY <1>1, <1>2, <1>3 DEF Next, Terminated

(* Until a worker dies, reservations and routers are in the custody of the *)
(* tasks that took them.                                                   *)
THEOREM CustodyHolds == Spec => []CustodyInvariant
  BY EvictionHolds, CustodyInit, CustodyStep, PTL DEF Spec

(* Until a worker dies, every live room is served by the router its own    *)
(* creator registered: no delayed teardown, sweep or rollback removes or   *)
(* replaces it.                                                            *)
THEOREM LiveRoomsKeepTheirRouter == Spec => []OwnRouter
  <1>1. CustodyInvariant => OwnRouter
    BY DEF CustodyInvariant, Custody, Routed, OwnRouter
  <1> QED BY <1>1, CustodyHolds, PTL

----------------------------------------------------------------------------
(* Nobody is left in a room that cannot be found. *)

(* An incarnation out of the map is empty and those who hold its Arc find  *)
(* it tombstoned, unless a failed deletion has revived it.                 *)
Unmapped(i) == \A r \in RoomIds : rooms[r] # i
Rooted ==
    ~draining => \A i \in Joins : Unmapped(i) =>
        \/ Revived(i)
        \/ /\ state[i].members = {}
           /\ \A u \in Tasks \ {Recovery} : arc[u] = i => state[i].deleting

(* A room leaves the map only by eviction, deletion, recovery or the       *)
(* drain.                                                                  *)
LEMMA UnmapStep ==
    ASSUME EvictionInvariant, NEW t \in Tasks, Step(t),
           NEW r \in RoomIds, rooms[r] # None, rooms'[r] = None
    PROVE  \/ t \in Joins \cup Leaves /\ pc'[t] = "teardown" /\ rooms[r] = arc[t]
           \/ /\ t \in Deletes /\ pc[t] = "empty" /\ pc'[t] = "teardown"
              /\ rooms[r] = arc[t] /\ state'[arc[t]].members = {}
           \/ /\ t = Recovery /\ rooms[r] = arc[t]
              /\ state'[arc[t]].members = {} /\ state'[arc[t]].deleting
           \/ /\ t \in Drains /\ pc[t] = "lock"
              /\ doomed' = {rooms[q] : q \in RoomIds} \ {None}
  <1> USE DEF registryVars, Goto
  <1>0. /\ rooms \in [RoomIds -> Joins \cup {None}] /\ pc \in [Tasks -> Labels]
        /\ state \in [Joins -> RoomStates] /\ DrainFlagged
    BY DEF EvictionInvariant, PendingInvariant, SafetyInvariant, TypeOK
  <1>1. CASE t \in Joins /\ Join(t)
    BY <1>0, <1>1, Disjoint DEF Join, JoinLookup, JoinReserve, JoinCreate, JoinLoad,
       JoinRoute, JoinRegister, JoinRollback, JoinPublish, JoinSnapshot, JoinControl,
       JoinRefused, JoinInsert, DropCreation, DropRelease, Evictable, Evict, Teardown
  <1>2. CASE t \in Leaves /\ Leave(t)
    BY <1>0, <1>2 DEF Leave, LeaveLookup, LeaveRemove, LeaveCreation, LeaveEvict, Evictable,
       Evict, Teardown
  <1>3. CASE t \in Creates /\ Create(t)
    BY <1>3 DEF Create, CreateLock, CreateInsert
  <1>4. CASE t \in Deletes /\ Delete(t)
    <2>1. DeleteEmpty(t)
      BY <1>4 DEF Delete, DeleteRead, DeleteLock, DeleteTombstone, DeleteRow, DeleteRestore,
         Teardown
    <2>2. rooms[r] = arc[t] /\ pc[t] = "empty" /\ pc'[t] = "teardown" /\ arc[t] \in Joins
      BY <1>0, <2>1 DEF DeleteEmpty
    <2>3. PICK s \in RoomStates : s = state[arc[t]]
      BY <1>0, <2>2
    <2>4. state'[arc[t]] = [s EXCEPT !.members = {}]
      BY <1>0, <2>1, <2>2, <2>3 DEF DeleteEmpty
    <2> QED BY <1>4, <2>2, <2>4 DEF RoomStates
  <1>5. CASE \/ WriterLookup(t) \/ Write(t) \/ OwnerMark(t) \/ OwnerFind(t)
             \/ DormantCheck(t) \/ DormantWrite(t)
    BY <1>5 DEF Write, WriterLookup, OwnerMark, OwnerFind, Admit, Persist, Announce,
       Quarantine, Sweep, DormantCheck, DormantWrite
  <1>6. CASE t \in Drains /\ Drain(t)
    BY <1>0, <1>6 DEF DrainFlagged, Drain, DrainBegin, DrainMap, DrainRoom, DrainEnd
  <1>7. CASE t = Recovery /\ Recover(t)
    <2>1. RecoverClose(t)
      BY <1>7 DEF Recover, RecoverSnapshot, RecoverReplace, RecoverNext, RecoverLock,
         Teardown
    <2>2. rooms[r] = arc[t] /\ arc[t] \in Joins
      BY <1>0, <2>1 DEF RecoverClose
    <2>3. state'[arc[t]] = Emptied(state[arc[t]])
      BY <1>0, <2>1, <2>2 DEF RecoverClose
    <2>4. Emptied(state[arc[t]]).members = {} /\ Emptied(state[arc[t]]).deleting
      BY <1>0, <2>2, OperatorFields, OperatorMembers
    <2> QED BY <1>7, <2>2, <2>3, <2>4
  <1> QED BY <1>1, <1>2, <1>3, <1>4, <1>5, <1>6, <1>7 DEF Step

(* A revived room stays revived. *)
LEMMA RevivedStep ==
    ASSUME EvictionInvariant, NEW t \in Tasks, Step(t), NEW i \in Joins, Revived(i)
    PROVE  Revived(i)'
  <1>1. PICK d \in Deletes : pc[d] = "revived" /\ arc[d] = i
    BY DEF Revived
  <1>2. t # d
    <2> SUFFICES ASSUME t = d PROVE FALSE
      OBVIOUS
    <2>1. Delete(t)
      BY <1>1, Kinds DEF Step
    <2> QED BY <1>1, <2>1 DEF Delete, DeleteRead, DeleteLock, DeleteTombstone, DeleteRow,
            DeleteRestore, DeleteEmpty, Teardown
  <1>3. pc'[d] = pc[d] /\ arc'[d] = arc[d]
    BY <1>2, Disjoint, StepsKeepFrames DEF Frames, OwnPlace
  <1> QED BY <1>1, <1>3 DEF Revived

(* Rooms keep their roots. *)
LEMMA RootedStep ==
    ASSUME EvictionInvariant, Registry, Rooted, NEW t \in Tasks, Step(t)
    PROVE  Rooted'
  <1>f. Frames(t)
    BY StepsKeepFrames
  <1> USE <1>f DEF Frames
  <1>0. /\ Known /\ Homed /\ Doomed /\ DrainFlagged
        /\ rooms \in [RoomIds -> Joins \cup {None}]
    BY DEF EvictionInvariant, PendingInvariant, SafetyInvariant, TypeOK
  <1> SUFFICES ASSUME ~draining', NEW i \in Joins, Unmapped(i)', ~Revived(i)'
               PROVE  /\ state'[i].members = {}
                      /\ \A u \in Tasks \ {Recovery} : arc'[u] = i => state'[i].deleting
    BY DEF Rooted
  <1>1. ~draining /\ ~Revived(i)
    BY RevivedStep DEF OwnRooms
  <1>2. CASE Unmapped(i)
    <2>1. /\ state[i].members = {}
          /\ \A u \in Tasks \ {Recovery} : arc[u] = i => state[i].deleting
      BY <1>1, <1>2 DEF Rooted
    <2>2. state'[i].members = {}
      <3>1. t \in Joins /\ Reserved(t, i) => state[i].deleting
        BY <2>1, Disjoint DEF Reserved
      <3> QED BY <2>1, <3>1 DEF OwnCustody, OwnState
    <2>3. ASSUME NEW u \in Tasks \ {Recovery}, arc'[u] = i
          PROVE  state'[i].deleting
      <3>1. arc[u] = i
        BY <1>2, <2>3, Disjoint DEF OwnPlace, OwnCustody, OwnArc, Unmapped
      <3>2. state[i].deleting /\ ~Unpublished(i)
        BY <1>0, <2>1, <3>1, Disjoint DEF Known
      <3>3. ASSUME t \in Deletes, pc[t] = "restore", arc[t] = i, pc'[t] = "revived"
            PROVE  FALSE
        <4>1. Delete(t)
          BY <3>3, Kinds DEF Step
        <4>2. arc'[t] = i
          BY <3>3, <4>1 DEF Delete, DeleteRead, DeleteLock, DeleteTombstone, DeleteRow,
             DeleteRestore, DeleteEmpty, Teardown, taskVars
        <4> QED BY <3>3, <4>2 DEF Revived
      <3>4. ASSUME t \in Deletes, arc[t] = i, pc[t] = "restore", rooms[room[t]] = i
            PROVE  FALSE
        <4>1. room[t] \in RoomIds
          BY <3>4, Position
        <4> QED BY <1>2, <3>4, <4>1 DEF Unmapped
      <3> QED BY <3>2, <3>3, <3>4 DEF OwnCustody, OwnState, Unpublished, Early
    <2> QED BY <2>2, <2>3
  <1>3. CASE ~Unmapped(i)
    <2>1. PICK r \in RoomIds : rooms[r] = i
      BY <1>3 DEF Unmapped
    <2>2. rooms'[r] = None
      <3>1. rooms'[r] # i
        BY DEF Unmapped
      <3>2. ~(t \in Joins /\ pc[t] = "publish" /\ r = room[t])
        BY <2>1, Disjoint, Position DEF Building
      <3> QED BY <2>1, <3>1, <3>2 DEF OwnRooms
    <2>3. /\ i = arc[t]
          /\ \/ t \in Joins \cup Leaves /\ pc'[t] = "teardown"
             \/ t \in Deletes /\ pc[t] = "empty" /\ state'[i].members = {}
             \/ state'[i].members = {} /\ state'[i].deleting
      <3>1. ~(t \in Drains /\ pc[t] = "lock")
        BY <1>0, <1>1 DEF DrainFlagged
      <3> QED BY <2>1, <2>2, <3>1, Disjoint, UnmapStep
    <2>4. CASE t \in Joins \cup Leaves /\ pc'[t] = "teardown"
      BY <2>3, <2>4 DEF OwnCustody, OwnEviction
    <2>5. CASE t \in Deletes /\ pc[t] = "empty" /\ state'[i].members = {}
      <3>1. state[i].deleting
        BY <1>0, <2>3, <2>5 DEF Doomed, Dooming
      <3>2. state'[i].deleting
        BY <2>5, <3>1, Disjoint DEF OwnRegistry, StateMoves
      <3> QED BY <2>5, <3>2
    <2> QED BY <2>3, <2>4, <2>5
  <1> QED BY <1>2, <1>3

(* Every unmapped incarnation that no deletion has revived is empty, and   *)
(* whoever still holds its Arc finds the tombstone.                        *)
LEMMA RootedHolds == Spec => []Rooted
  <1>1. Init => Rooted
    <2> SUFFICES ASSUME Init PROVE Rooted
      OBVIOUS
    <2>1. \A i \in Joins : state[i].members = {}
      BY DEF Init, NewRoom
    <2>2. \A t \in Tasks : arc[t] = None
      BY DEF Init
    <2> QED BY <2>1, <2>2, Disjoint DEF Rooted
  <1>2. EvictionInvariant /\ Registry /\ Rooted /\ [Next]_vars => Rooted'
    <2> SUFFICES ASSUME EvictionInvariant, Registry, Rooted, [Next]_vars
                 PROVE  Rooted'
      OBVIOUS
    <2>1. ASSUME NEW t \in Tasks, Step(t)
          PROVE  Rooted'
      BY <2>1, RootedStep
    <2>2. ASSUME UNCHANGED <<draining, pc, arc, rooms, state>>
          PROVE  Rooted'
      BY <2>2 DEF Rooted, Unmapped, Revived
    <2>3. ASSUME (\E t \in Tasks : Settle(t)) \/ (\E w \in Workers : WorkerDies(w))
                    \/ UNCHANGED vars
          PROVE  UNCHANGED <<draining, pc, arc, rooms, state>>
      BY <2>3 DEF Settle, WorkerDies, vars, registryVars, taskVars, processVars, restVars
    <2> QED BY <2>1, <2>2, <2>3 DEF Next, Terminated
  <1> QED BY <1>1, <1>2, EvictionHolds, RegistryHolds, PTL DEF Spec

(* Clearing and unmapping never leave a member behind in an unreachable    *)
(* room, however many leaves, deletions and recoveries work on it; only a  *)
(* failed deletion that revives an unmapped room can.                      *)
THEOREM MembersAreFound == Spec => []NobodyStranded
  <1>1. Rooted => NobodyStranded
    BY DEF Rooted, Unmapped, NobodyStranded
  <1> QED BY <1>1, RootedHolds, PTL

----------------------------------------------------------------------------
(* The REST paths check the tombstone of a room and not the map; that this *)
(* is enough takes the roots.                                              *)

(* A REST update past its admission has its room mapped and live, or       *)
(* works on one that a failed deletion has revived.                        *)
Stewarding ==
    \A t \in Owners :
        pc[t] \in {"persist", "announce", "quarantine"} /\ ~draining
            => MappedLive(room[t], arc[t]) \/ Revived(arc[t])

(* Admission finds the room by its tombstone, control keeps it afterwards. *)
LEMMA StewardStep ==
    ASSUME EvictionInvariant, Rooted, Stewarding, NEW t \in Tasks, Step(t)
    PROVE  Stewarding'
  <1>f. Frames(t)
    BY StepsKeepFrames
  <1> USE <1>f DEF Frames
  <1>0. /\ TypeOK /\ Placed /\ ControlExclusive /\ BuildsAlone /\ Homed
        /\ rooms \in [RoomIds -> Joins \cup {None}] /\ pc \in [Tasks -> Labels]
    BY DEF EvictionInvariant, PendingInvariant, SafetyInvariant, TypeOK
  <1> SUFFICES ASSUME NEW o \in Owners, pc'[o] \in {"persist", "announce", "quarantine"},
                      ~draining', ~Revived(arc[o])'
               PROVE  rooms'[room'[o]] = arc'[o] /\ ~state'[arc'[o]].deleting
    BY DEF Stewarding, MappedLive, Revived
  <1>1. ~draining /\ o \in Tasks /\ o # None
    BY Disjoint DEF OwnRooms
  <1>2. CASE o # t
    <2>1. pc'[o] = pc[o] /\ room'[o] = room[o] /\ arc'[o] = arc[o]
      BY <1>1, <1>2 DEF OwnPlace
    <2>2. room[o] \in RoomIds /\ arc[o] \in Joins
      BY <1>0, <2>1 DEF Placed
    <2>r. ~Revived(arc[o])
      BY <2>1, <2>2, RevivedStep DEF Revived
    <2>3. rooms[room[o]] = arc[o] /\ ~state[arc[o]].deleting
      BY <1>1, <2>1, <2>r DEF Stewarding, MappedLive
    <2>4. control[arc[o]] = o
      BY <1>0, <1>1, <2>1 DEF ControlExclusive, UnderControl
    <2>5. rooms'[room[o]] = rooms[room[o]]
      <3>1. ~(t \in Joins /\ pc[t] = "publish" /\ room[o] = room[t])
        BY <1>0, <2>2, <2>3, Disjoint DEF BuildsAlone, Building
      <3> QED BY <1>1, <1>2, <2>2, <2>3, <2>4, <3>1 DEF OwnRooms
    <2>6. ~state'[arc[o]].deleting
      BY <1>1, <1>2, <2>2, <2>3, <2>4 DEF OwnRooms
    <2> QED BY <2>1, <2>3, <2>5, <2>6
  <1>3. CASE o = t
    <2>1. \/ OwnerMark(o) \/ OwnerFind(o) \/ Write(o) \/ DormantCheck(o) \/ DormantWrite(o)
      BY <1>3, Kinds, TaskAssumption DEF Step
    <2>2. CASE Admit(o) /\ pc'[o] = "persist"
      <3>1. /\ pc[o] = "admit" /\ UNCHANGED <<rooms, state, room, arc>>
            /\ ~state[arc[o]].deleting
        BY <1>0, <1>1, <2>2, Disjoint, Kinds, TaskAssumption DEF Admit, Admissible,
           OwnerAdmissible, Goto,
           taskVars
      <3>2. arc[o] \in Joins /\ room[o] = room[arc[o]]
        BY <1>0, <1>1, <3>1 DEF Placed, Homed
      <3>r. ~Revived(arc[o])
        BY <3>1, <3>2, RevivedStep DEF Revived
      <3>3. ~Unmapped(arc[o])
        BY <1>1, <3>1, <3>2, <3>r, Disjoint DEF Rooted
      <3>4. PICK r \in RoomIds : rooms[r] = arc[o]
        BY <3>3 DEF Unmapped
      <3>5. r = room[o]
        BY <1>0, <3>2, <3>4 DEF Homed
      <3> QED BY <3>1, <3>4, <3>5
    <2>3. CASE Persist(o)
      <3>0. pc[o] = "persist" /\ UNCHANGED <<rooms, state, room, arc>> /\ arc[o] \in Joins
        BY <1>0, <2>3 DEF Persist, taskVars, Placed
      <3>r. ~Revived(arc[o])
        BY <3>0, RevivedStep DEF Revived
      <3>1. MappedLive(room[o], arc[o])
        BY <1>1, <3>0, <3>r DEF Stewarding
      <3> QED BY <3>0, <3>1 DEF MappedLive
    <2>4. CASE ~(Admit(o) /\ pc'[o] = "persist") /\ ~Persist(o)
      BY <1>0, <1>1, <2>1, <2>4 DEF Write, OwnerMark, OwnerFind, DormantCheck, DormantWrite,
         Admit, Announce, Quarantine, Sweep, Goto
    <2> QED BY <2>2, <2>3, <2>4
  <1> QED BY <1>2, <1>3

(* A REST update works on a room that is mapped and live. *)
LEMMA StewardHolds == Spec => []Stewarding
  <1>1. Init => Stewarding
    BY Disjoint DEF Init, Stewarding
  <1>2. EvictionInvariant /\ Rooted /\ Stewarding /\ [Next]_vars => Stewarding'
    <2> SUFFICES ASSUME EvictionInvariant, Rooted, Stewarding, [Next]_vars
                 PROVE  Stewarding'
      OBVIOUS
    <2>1. ASSUME NEW t \in Tasks, Step(t)
          PROVE  Stewarding'
      BY <2>1, StewardStep
    <2>2. ASSUME UNCHANGED <<draining, pc, room, arc, rooms, state>>
          PROVE  Stewarding'
      BY <2>2 DEF Stewarding, MappedLive, Revived
    <2>3. ASSUME (\E t \in Tasks : Settle(t)) \/ (\E w \in Workers : WorkerDies(w))
                    \/ UNCHANGED vars
          PROVE  UNCHANGED <<draining, pc, room, arc, rooms, state>>
      BY <2>3 DEF Settle, WorkerDies, vars, registryVars, taskVars, processVars, restVars
    <2> QED BY <2>1, <2>2, <2>3 DEF Next, Terminated
  <1> QED BY <1>1, <1>2, EvictionHolds, RootedHolds, PTL DEF Spec

(* A policy that a REST update has committed is published in the room it   *)
(* was committed for, mapped and live, unless a failed deletion revived    *)
(* that room after it was unmapped: update_room_identity need not look at  *)
(* the map again.                                                          *)
THEOREM OwnerPoliciesArePublished == Spec => []OwnerPolicyIsPublished
  <1>1. Stewarding => OwnerPolicyIsPublished
    BY DEF Stewarding, OwnerPolicyIsPublished
  <1> QED BY <1>1, StewardHolds, PTL

----------------------------------------------------------------------------
(* Until a worker dies, the policy a live room enforces is the durable one, *)
(* whatever SQL outcomes are lost, but for statements without a reservation.*)

(* A row is inserted only where no room is mapped; a create reserves no id. *)
Inserting ==
    /\ \A c \in Creates : pc[c] = "persist" => rooms[room[c]] = None
    /\ \A r \in RoomIds : token[r] \notin Creates

(* From its admission on, an update's id holds its room or none, and that  *)
(* room is not tombstoned.                                                 *)
Changing == {"persist", "announce", "quarantine"}
Tracking ==
    /\ \A t \in Writers \cup Owners :
         pc[t] \in Changing => rooms[room[t]] \in {arc[t], None} /\ ~state[arc[t]].deleting
    /\ \A t \in Owners : pc[t] = "admit" => rooms[room[t]] \in {arc[t], None}

(* The row that a creator has loaded does not change before it publishes,  *)
(* but for what a statement without a reservation commits late.            *)
SamePolicy(i, row) ==
    \/ state[i].gen = row.gen /\ (state[i].policy = row.policy \/ Unknown(row.policy))
    \/ state[i].gen = None /\ Unknown(row.gen)
Loading == {"route", "register", "publish"}
Loaded ==
    ~draining => \A t \in Joins : pc[t] \in Loading => SamePolicy(t, db[room[t]])

(* A committed policy stays in its row until it is published. *)
Committed ==
    \A t \in Writers \cup Owners :
        pc[t] = "announce" /\ rooms[room[t]] = arc[t] /\ state[arc[t]].gen # None
            => db[room[t]].policy = t \/ Unknown(db[room[t]].policy)

(* A mapped room that is live, or may yet be restored, has the policy of   *)
(* its row, but for one that is committed and still to be published or     *)
(* that may commit and is still to be quarantined.                         *)
Changed(i) == \E t \in Writers \cup Owners : arc[t] = i /\ pc[t] \in {"announce", "quarantine"}
Coherent ==
    \A r \in RoomIds, i \in Joins :
        rooms[r] = i /\ (~state[i].deleting \/ Restorable(i)) =>
            \/ SamePolicy(i, db[r])
            \/ Changed(i) /\ state[i].gen # None /\ state[i].gen = db[r].gen

(* A statement that may still commit has no reservation and says so, or    *)
(* its task has reserved the id or is about to, or the drain has emptied   *)
(* the map.                                                                *)
Lost ==
    \A t \in inDoubt :
        \/ Unknown(t)
        \/ /\ token[room[t]] = t
           /\ \/ t \in Deletes \cup Writers \cup Owners /\ pc[t] = "unknown"
              \/ t \in Writers \cup Owners /\ pc[t] = "sweep"
        \/ t \in Writers \cup Owners /\ pc[t] = "quarantine" /\ state[arc[t]].gen # None
        \/ t \in Writers /\ pc[t] = "unknown" /\ draining /\ rooms[room[t]] = None

Ruled == Inserting /\ Tracking /\ Loaded /\ Committed /\ Coherent /\ Lost
PolicyInvariant == Healthy => Ruled

(* What a step of t does to rows and policies. *)

(* The four ways to change a row. *)
RowMoves(t) ==
    \A r \in RoomIds : db'[r] # db[r] =>
        /\ r = room[t] /\ rooms' = rooms /\ state' = state /\ arc' = arc
        /\ \/ t \in Creates /\ pc[t] = "persist"
           \/ t \in Deletes /\ pc[t] = "delete" /\ (arc[t] # None => pc'[t] = "empty")
           \/ /\ t \in Writers \cup Owners /\ pc[t] = "persist" /\ pc'[t] = "announce"
              /\ state[arc[t]].gen # None /\ db'[r].gen = db[r].gen
           \/ t \in Owners /\ pc[t] = "write"

(* A room has its generation for life, and its policy changes only by the  *)
(* publication of a committed one.                                         *)
PolicyMoves(t) ==
    \A i \in Joins :
        \/ t = i /\ pc[t] = "load"
        \/ /\ state'[i].gen = state[i].gen
           /\ IF t \in Writers \cup Owners /\ pc[t] = "announce" /\ arc[t] = i
              THEN /\ pc'[t] # "announce" /\ db' = db
                   /\ state'[i].policy = IF state[i].gen = None THEN state[i].policy ELSE t
              ELSE state'[i].policy = state[i].policy

(* A creator loads its row and publishes what it has loaded. *)
LoadMoves(t) ==
    t \in Joins =>
        /\ db' = db
        /\ \A r \in RoomIds : rooms'[r] # rooms[r] /\ rooms'[r] # None => ~draining
        /\ pc'[t] \in Loading =>
             /\ room'[t] = room[t]
             /\ \/ pc[t] = "load" /\ state'[t].gen = db[room[t]].gen
                   /\ state'[t].policy = db[room[t]].policy
                \/ pc[t] \in Loading /\ state' = state

(* An insert, an admission and a commit find what they need in the map. *)
CommitMoves(t) ==
    /\ t \in Creates /\ pc'[t] = "persist" => rooms' = rooms /\ rooms[room'[t]] = None
    /\ t \in Writers \cup Owners /\ pc'[t] \in Changing \cup {"admit"} => rooms' = rooms
    /\ t \in Owners /\ pc'[t] = "admit" => arc'[t] = rooms[room'[t]]
    /\ t \in Writers \cup Owners /\ pc'[t] \in Changing =>
         /\ room'[t] = room[t] /\ arc'[t] = arc[t] /\ state' = state
         /\ \/ pc[t] = "persist"
            \/ /\ pc'[t] = "persist" /\ pc[t] = "admit" /\ ~state[arc[t]].deleting
               /\ t \in Writers => rooms[room[t]] = arc[t]
    /\ t \in Writers \cup Owners /\ pc'[t] = "announce" =>
         pc[t] = "persist" /\ (state[arc[t]].gen # None => db'[room[t]].policy = t)

(* A statement becomes doubtful with its own task, which has the id        *)
(* reserved, or quarantines the room, or ends.                             *)
DoubtMoves(t) ==
    /\ pc[t] # "unknown"
    /\ inDoubt \subseteq inDoubt' /\ inDoubt' \subseteq inDoubt \cup {t}
    /\ t \in inDoubt' /\ t \notin inDoubt =>
         \/ t \in Creates /\ pc'[t] = "unknown"
         \/ /\ t \in Deletes /\ pc[t] = "delete" /\ pc'[t] = "unknown"
            /\ token' = token /\ room'[t] = room[t]
         \/ /\ t \in Writers \cup Owners /\ pc[t] = "persist" /\ pc'[t] = "quarantine"
            /\ state[arc[t]].gen # None
         \/ t \in Owners /\ pc'[t] = "unknown"
    /\ t \in Writers \cup Owners /\ pc[t] \in {"quarantine", "sweep"} =>
         /\ room'[t] = room[t] /\ rooms' = rooms
         /\ \/ pc[t] = "quarantine" /\ pc'[t] = "sweep"
            \/ /\ pc[t] = "quarantine" /\ pc'[t] = "unknown" /\ token' = token
               /\ rooms[room[t]] # arc[t] \/ state[arc[t]].deleting
            \/ pc[t] = "sweep" /\ pc'[t] = "unknown" /\ token' = token

OwnPolicy(t) ==
    RowMoves(t) /\ PolicyMoves(t) /\ LoadMoves(t) /\ CommitMoves(t) /\ DoubtMoves(t)

(* Generation and policy after each operator on a Room. *)
LEMMA OperatorPolicies ==
    ASSUME NEW s \in RoomStates
    PROVE  /\ Tombstoned(s).gen = s.gen /\ Tombstoned(s).policy = s.policy
           /\ Emptied(s).gen = s.gen /\ Emptied(s).policy = s.policy
           /\ Restored(s).gen = s.gen /\ Restored(s).policy = s.policy
           /\ Unreserved(s).gen = s.gen /\ Unreserved(s).policy = s.policy
           /\ \A t : Seated(s, t).gen = s.gen /\ Seated(s, t).policy = s.policy
           /\ \A t, gone :
                /\ Published(s, t, gone).gen = s.gen
                /\ Published(s, t, gone).policy = IF s.gen = None THEN s.policy ELSE t
  BY DEF RoomStates, Tombstoned, Emptied, Restored, Unreserved, Seated, Published

(* Steps of a join. *)
LEMMA JoinPolicy ==
    ASSUME TypeOK, Placed, NEW t \in Joins, Join(t)
    PROVE  OwnPolicy(t)
  <1> USE DEF dbVars, Goto
  <1>0. /\ t \in Tasks /\ t \notin Creates \cup Deletes \cup Writers \cup Owners
        /\ state \in [Joins -> RoomStates] /\ pc \in [Tasks -> Labels]
        /\ rooms \in [RoomIds -> Joins \cup {None}]
    BY Kinds DEF TypeOK
  <1>1. db' = db
    BY DEF Join, JoinLookup, JoinReserve, JoinCreate, JoinLoad, JoinRoute, JoinRegister,
       JoinRollback, JoinPublish, JoinSnapshot, JoinControl, JoinRefused, JoinInsert,
       DropCreation, DropRelease, Teardown
  <1>2. PolicyMoves(t)
    <2> SUFFICES ASSUME NEW i \in Joins
                 PROVE  \/ t = i /\ pc[t] = "load"
                        \/ state'[i].gen = state[i].gen /\ state'[i].policy = state[i].policy
      BY <1>0 DEF PolicyMoves
    <2>1. PICK s \in RoomStates : s = state[i]
      BY <1>0
    <2>2. CASE JoinReserve(t) \/ JoinPublish(t)
      <3>1. \/ state'[i] = s \/ state'[i] = [s EXCEPT !.pending = s.pending + 1]
            \/ state'[i] = [s EXCEPT !.pending = 1]
        BY <1>0, <2>1, <2>2 DEF JoinReserve, JoinPublish
      <3> QED BY <2>1, <3>1 DEF RoomStates
    <2>3. CASE JoinLoad(t)
      BY <1>0, <2>3 DEF JoinLoad
    <2>4. CASE JoinInsert(t)
      <3>1. state'[i] = s \/ state'[i] = Seated(s, t)
        BY <1>0, <2>1, <2>4 DEF JoinInsert
      <3> QED BY <2>1, <3>1, OperatorPolicies
    <2>5. CASE DropRelease(t)
      <3>1. \/ state'[i] = s \/ state'[i] = Unreserved(s)
            \/ state'[i] = Tombstoned(Unreserved(s))
        BY <1>0, <2>1, <2>5 DEF DropRelease, Evict
      <3>2. Unreserved(s) \in RoomStates
        BY RoomOperators
      <3> QED BY <2>1, <3>1, <3>2, OperatorPolicies
    <2>6. CASE state' = state
      BY <2>6
    <2> QED BY <2>2, <2>3, <2>4, <2>5, <2>6 DEF Join, JoinLookup, JoinCreate, JoinRoute,
            JoinRegister, JoinRollback, JoinSnapshot, JoinControl, JoinRefused, DropCreation,
            Teardown
  <1>3. LoadMoves(t)
    <2>0. ASSUME NEW r \in RoomIds, rooms'[r] # rooms[r], rooms'[r] # None
          PROVE  ~draining
      BY <1>0, <2>0 DEF Join, JoinLookup, JoinReserve, JoinCreate, JoinLoad, JoinRoute,
         JoinRegister, JoinRollback, JoinPublish, JoinSnapshot, JoinControl, JoinRefused,
         JoinInsert, DropCreation, DropRelease, Evict, Teardown, registryVars
    <2>1. CASE JoinLoad(t)
      BY <1>0, <1>1, <2>0, <2>1 DEF JoinLoad, LoadMoves, Loading, NewRoom, taskVars
    <2>2. CASE JoinRoute(t) \/ JoinRegister(t)
      BY <1>0, <1>1, <2>0, <2>2 DEF JoinRoute, JoinRegister, LoadMoves, Loading, taskVars
    <2>3. CASE pc'[t] \notin Loading
      BY <1>1, <2>0, <2>3 DEF LoadMoves
    <2> QED BY <1>0, <2>1, <2>2, <2>3 DEF Join, JoinLookup, JoinReserve, JoinCreate,
            JoinRollback, JoinPublish, JoinSnapshot, JoinControl, JoinRefused, JoinInsert,
            DropCreation, DropRelease, Teardown, Loading
  <1>4. DoubtMoves(t)
    BY <1>0 DEF DoubtMoves, Join, JoinLookup, JoinReserve, JoinCreate, JoinLoad, JoinRoute,
       JoinRegister, JoinRollback, JoinPublish, JoinSnapshot, JoinControl, JoinRefused,
       JoinInsert, DropCreation, DropRelease, Teardown
  <1> QED BY <1>0, <1>1, <1>2, <1>3, <1>4 DEF OwnPolicy, RowMoves, CommitMoves

(* Steps of a departure. *)
LEMMA LeavePolicy ==
    ASSUME TypeOK, Placed, NEW t \in Leaves, Leave(t)
    PROVE  OwnPolicy(t)
  <1> USE DEF dbVars
  <1>0. /\ t \in Tasks /\ t \notin Joins \cup Creates \cup Deletes \cup Writers \cup Owners
        /\ state \in [Joins -> RoomStates]
    BY Kinds DEF TypeOK
  <1>1. db' = db
    BY DEF Leave, LeaveLookup, LeaveRemove, LeaveCreation, LeaveEvict, Teardown
  <1>2. ASSUME NEW i \in Joins
        PROVE  state'[i].gen = state[i].gen /\ state'[i].policy = state[i].policy
    <2>1. PICK s \in RoomStates : s = state[i]
      BY <1>0
    <2>2. \/ state'[i] = s \/ state'[i] = Tombstoned(s)
          \/ state'[i] = [s EXCEPT !.members = s.members \ {victim[t]}]
      <3>1. CASE LeaveEvict(t)
        BY <1>0, <2>1, <3>1 DEF LeaveEvict, Evict
      <3>2. CASE LeaveRemove(t)
        BY <1>0, <2>1, <3>2 DEF LeaveRemove
      <3>3. CASE state' = state
        BY <2>1, <3>3
      <3> QED BY <3>1, <3>2, <3>3 DEF Leave, LeaveLookup, LeaveCreation, Teardown
    <2> QED BY <2>1, <2>2 DEF RoomStates, Tombstoned
  <1>3. DoubtMoves(t)
    BY <1>0 DEF DoubtMoves, Leave, LeaveLookup, LeaveRemove, LeaveCreation, LeaveEvict,
       Teardown
  <1> QED BY <1>0, <1>1, <1>2, <1>3 DEF OwnPolicy, RowMoves, PolicyMoves, LoadMoves,
          CommitMoves

(* Steps of a create_persisted_room. *)
LEMMA CreatePolicy ==
    ASSUME TypeOK, Placed, NEW t \in Creates, Create(t)
    PROVE  OwnPolicy(t)
  <1> USE DEF dbVars, registryVars, taskVars, Goto
  <1>0. /\ t \in Tasks /\ t \notin Joins \cup Deletes \cup Writers \cup Owners
        /\ pc \in [Tasks -> Labels] /\ room \in [Tasks -> RoomIds \cup {None}]
        /\ db \in [RoomIds -> Rows]
    BY Kinds DEF TypeOK
  <1>1. UNCHANGED <<rooms, state, arc>>
    BY DEF Create, CreateLock, CreateInsert
  <1>2. RowMoves(t)
    BY <1>0, <1>1 DEF RowMoves, Create, CreateLock, CreateInsert
  <1>3. CommitMoves(t)
    BY <1>0, <1>1 DEF CommitMoves, Create, CreateLock, CreateInsert
  <1>4. DoubtMoves(t)
    BY <1>0 DEF DoubtMoves, Create, CreateLock, CreateInsert
  <1> QED BY <1>0, <1>1, <1>2, <1>3, <1>4 DEF OwnPolicy, PolicyMoves, LoadMoves

(* Steps of a delete_persisted_room. *)
LEMMA DeletePolicy ==
    ASSUME TypeOK, Placed, NEW t \in Deletes, Delete(t)
    PROVE  OwnPolicy(t)
  <1> USE DEF dbVars, registryVars, taskVars, Goto
  <1>0. /\ t \in Tasks /\ t \notin Joins \cup Creates \cup Writers \cup Owners
        /\ pc \in [Tasks -> Labels] /\ room \in [Tasks -> RoomIds \cup {None}]
        /\ db \in [RoomIds -> Rows] /\ state \in [Joins -> RoomStates]
        /\ arc \in [Tasks -> Joins \cup {None}]
    BY Kinds DEF TypeOK
  <1>1. RowMoves(t)
    <2>1. CASE DeleteRow(t)
      BY <1>0, <2>1 DEF RowMoves, DeleteRow
    <2>2. CASE db' = db
      BY <2>2 DEF RowMoves
    <2> QED BY <2>1, <2>2 DEF Delete, DeleteRead, DeleteLock, DeleteTombstone,
               DeleteRestore,
            DeleteEmpty, Teardown
  <1>2. ASSUME NEW i \in Joins
        PROVE  state'[i].gen = state[i].gen /\ state'[i].policy = state[i].policy
    <2>1. PICK s \in RoomStates : s = state[i]
      BY <1>0
    <2>2. \/ state'[i] = s \/ state'[i] = Tombstoned(s) \/ state'[i] = Restored(s)
          \/ state'[i] = [s EXCEPT !.members = {}]
      <3>1. CASE DeleteTombstone(t)
        BY <1>0, <2>1, <3>1 DEF DeleteTombstone
      <3>2. CASE DeleteRestore(t)
        BY <1>0, <2>1, <3>2 DEF DeleteRestore
      <3>3. CASE DeleteEmpty(t)
        <4>0. state \in [Joins -> RoomStates]
          BY <1>0
        <4>1. state'[i] = s \/ state'[i] = [s EXCEPT !.members = {}]
          BY <2>1, <3>3, <4>0 DEF DeleteEmpty
        <4> QED BY <4>1
      <3>4. CASE state' = state
        BY <2>1, <3>4
      <3> QED BY <3>1, <3>2, <3>3, <3>4 DEF Delete, DeleteRead, DeleteLock, DeleteRow,
                 Teardown
    <2> QED BY <2>1, <2>2 DEF RoomStates, Tombstoned, Restored
  <1>3. DoubtMoves(t)
    BY <1>0 DEF DoubtMoves, Delete, DeleteRead, DeleteLock, DeleteTombstone, DeleteRow,
       DeleteRestore, DeleteEmpty, Teardown
  <1> QED BY <1>0, <1>1, <1>2, <1>3 DEF OwnPolicy, PolicyMoves, LoadMoves, CommitMoves

(* Steps of a policy write. *)
LEMMA WritePolicy ==
    ASSUME TypeOK, Placed, NEW t \in Writers \cup Owners,
           \/ t \in Writers /\ (WriterLookup(t) \/ Write(t))
           \/ t \in Owners /\ (OwnerMark(t) \/ OwnerFind(t) \/ Write(t) \/ DormantCheck(t)
                                 \/ DormantWrite(t))
    PROVE  OwnPolicy(t)
  <1> USE DEF dbVars, registryVars, taskVars, Goto
  <1>0. /\ t \in Tasks /\ t \notin Joins \cup Creates \cup Deletes
        /\ ~(t \in Writers /\ t \in Owners) /\ None \notin Joins
        /\ pc \in [Tasks -> Labels] /\ room \in [Tasks -> RoomIds \cup {None}]
        /\ db \in [RoomIds -> Rows] /\ state \in [Joins -> RoomStates]
        /\ arc \in [Tasks -> Joins \cup {None}]
        /\ rooms \in [RoomIds -> Joins \cup {None}]
    BY Kinds, TaskAssumption DEF TypeOK
  <1>u. /\ pc[t] # "idle" => room[t] \in RoomIds
        /\ pc[t] \in {"admit", "persist", "announce", "quarantine"} => arc[t] \in Joins
    BY DEF Placed
  <1>1. rooms' = rooms
    BY DEF Write, WriterLookup, OwnerMark, OwnerFind, Admit, Persist, Announce, Quarantine,
       Sweep, DormantCheck, DormantWrite
  <1>2. LoadMoves(t)
    BY <1>0 DEF LoadMoves
  <1>3. CASE Persist(t)
    <2>1. UNCHANGED <<state, room, arc>> /\ pc[t] = "persist"
      BY <1>3 DEF Persist
    <2>2. \/ db' = db /\ (pc'[t] = "announce" => state[arc[t]].gen = None)
          \/ /\ db' = [db EXCEPT ![room[t]].policy = t] /\ pc'[t] = "announce"
             /\ state[arc[t]].gen # None
      BY <1>0, <1>3 DEF Persist
    <2>3. db[room[t]] \in Rows
      BY <1>0, <1>u, <2>1
    <2>4. db' # db => /\ db'[room[t]].gen = db[room[t]].gen /\ db'[room[t]].policy = t
                      /\ \A r \in RoomIds : r # room[t] => db'[r] = db[r]
      BY <1>0, <1>u, <2>1, <2>2, <2>3 DEF Rows
    <2>5. RowMoves(t)
      BY <1>1, <2>1, <2>2, <2>4 DEF RowMoves
    <2>6. pc'[t] # "admit" /\ (pc'[t] = "announce" /\ state[arc[t]].gen # None
                                 => db'[room[t]].policy = t)
      <3>1. pc'[t] # "admit"
        BY <1>0, <1>3 DEF Persist
      <3>2. CASE db' = db
        BY <2>2, <3>1, <3>2, <1>0, <1>3, <1>u, <2>1, <2>3 DEF Rows
      <3> QED BY <2>4, <3>1, <3>2
    <2>7. CommitMoves(t)
      BY <1>0, <1>1, <2>1, <2>6 DEF CommitMoves, Changing
    <2>8. DoubtMoves(t)
      BY <1>0, <1>3 DEF DoubtMoves, Persist
    <2> QED BY <1>2, <2>1, <2>5, <2>7, <2>8 DEF OwnPolicy, PolicyMoves
  <1>4. CASE Announce(t)
    <2>1. /\ pc[t] = "announce" /\ pc'[t] = "done" /\ UNCHANGED <<db, room, arc>>
          /\ \E gone : state' = [state EXCEPT ![arc[t]] = Published(state[arc[t]], t, gone)]
      BY <1>0, <1>4 DEF Announce
    <2>2. PICK gone : state' = [state EXCEPT ![arc[t]] = Published(state[arc[t]], t, gone)]
      BY <2>1
    <2>3. PolicyMoves(t)
      BY <1>0, <1>u, <2>1, <2>2, OperatorPolicies DEF PolicyMoves
    <2>4. DoubtMoves(t)
      BY <1>0, <1>4 DEF DoubtMoves, Announce
    <2> QED BY <1>0, <1>1, <1>2, <2>1, <2>3, <2>4 DEF OwnPolicy, RowMoves, CommitMoves,
            Changing
  <1>5. CASE Quarantine(t)
    <2>1. /\ pc[t] = "quarantine" /\ pc'[t] \in {"sweep", "unknown"}
          /\ UNCHANGED <<db, room, arc>>
      BY <1>0, <1>5 DEF Quarantine
    <2>2. \/ state' = state
          \/ state' = [state EXCEPT ![arc[t]] = Emptied(state[arc[t]])]
      BY <1>5 DEF Quarantine
    <2>3. PolicyMoves(t)
      BY <1>0, <1>u, <2>1, <2>2, OperatorPolicies DEF PolicyMoves
    <2>4. DoubtMoves(t)
      BY <1>0, <1>1, <1>5 DEF DoubtMoves, Quarantine, MappedLive
    <2> QED BY <1>0, <1>1, <1>2, <2>1, <2>3, <2>4 DEF OwnPolicy, RowMoves, CommitMoves,
            Changing
  <1>6. CASE DormantWrite(t) /\ t \in Owners
    <2>1. /\ pc[t] = "write" /\ pc'[t] \in {"done", "unknown"}
          /\ UNCHANGED <<state, room, arc>>
      BY <1>0, <1>6 DEF DormantWrite
    <2>2. RowMoves(t)
      BY <1>0, <1>1, <1>6, <2>1 DEF RowMoves, DormantWrite
    <2>3. DoubtMoves(t)
      BY <1>0, <1>6 DEF DoubtMoves, DormantWrite
    <2> QED BY <1>0, <1>1, <1>2, <2>1, <2>2, <2>3 DEF OwnPolicy, PolicyMoves, CommitMoves,
            Changing
  <1>7. CASE Admit(t)
    <2>1. /\ pc[t] = "admit" /\ pc'[t] \in {"persist", "done"}
          /\ UNCHANGED <<db, state, room, arc>>
          /\ t \in Writers /\ pc'[t] = "persist" => rooms[room[t]] = arc[t]
          /\ pc'[t] = "persist" => ~state[arc[t]].deleting
          /\ inDoubt' = inDoubt
      BY <1>0, <1>7 DEF Admit, Admissible, OwnerAdmissible, MappedLive
    <2>2. DoubtMoves(t)
      BY <2>1 DEF DoubtMoves
    <2> QED BY <1>0, <1>1, <1>2, <2>1, <2>2 DEF OwnPolicy, RowMoves, PolicyMoves,
            CommitMoves, Changing
  <1>8. CASE OwnerFind(t)
    <2>1. /\ pc[t] = "find" /\ pc'[t] \in {"dormant", "admit"}
          /\ UNCHANGED <<db, inDoubt, state, room>> /\ arc'[t] = rooms[room[t]]
      BY <1>0, <1>8 DEF OwnerFind
    <2>2. DoubtMoves(t)
      BY <2>1 DEF DoubtMoves
    <2> QED BY <1>0, <1>1, <1>2, <2>1, <2>2 DEF OwnPolicy, RowMoves, PolicyMoves,
            CommitMoves, Changing
  <1>9. CASE (t \in Writers /\ WriterLookup(t)) \/ OwnerMark(t) \/ Sweep(t)
               \/ DormantCheck(t)
    <2>1. /\ UNCHANGED <<db, state>> /\ pc'[t] \notin Changing
          /\ pc'[t] = "admit" => t \in Writers
          /\ pc[t] # "announce"
      BY <1>0, <1>9 DEF WriterLookup, OwnerMark, Sweep, DormantCheck, Changing
    <2>2. DoubtMoves(t)
      BY <1>0, <1>9 DEF DoubtMoves, WriterLookup, OwnerMark, Sweep, DormantCheck
    <2> QED BY <1>0, <1>1, <1>2, <2>1, <2>2 DEF OwnPolicy, RowMoves, PolicyMoves,
            CommitMoves, Changing
  <1> QED BY <1>0, <1>3, <1>4, <1>5, <1>6, <1>7, <1>8, <1>9 DEF Write

(* Steps of a drain. *)
LEMMA DrainPolicy ==
    ASSUME TypeOK, NEW t \in Drains, Drain(t)
    PROVE  OwnPolicy(t)
  <1>0. /\ t \in Tasks /\ t \notin Joins \cup Creates \cup Deletes \cup Writers \cup Owners
        /\ state \in [Joins -> RoomStates]
    BY Kinds DEF TypeOK
  <1>1. db' = db
    BY DEF Drain, DrainBegin, DrainMap, DrainRoom, DrainEnd, dbVars
  <1>2. ASSUME NEW i \in Joins
        PROVE  state'[i].gen = state[i].gen /\ state'[i].policy = state[i].policy
    <2>1. PICK s \in RoomStates : s = state[i]
      BY <1>0
    <2>2. state'[i] = s \/ state'[i] = [s EXCEPT !.deleting = TRUE, !.members = {}]
      <3>1. CASE DrainRoom(t)
        BY <1>0, <2>1, <3>1 DEF DrainRoom
      <3>2. CASE state' = state
        BY <2>1, <3>2
      <3> QED BY <3>1, <3>2 DEF Drain, DrainBegin, DrainMap, DrainEnd
    <2> QED BY <2>1, <2>2 DEF RoomStates
  <1>3. DoubtMoves(t)
    BY <1>0 DEF DoubtMoves, Drain, DrainBegin, DrainMap, DrainRoom, DrainEnd, dbVars, Goto
  <1> QED BY <1>0, <1>1, <1>2, <1>3 DEF OwnPolicy, RowMoves, PolicyMoves, LoadMoves,
          CommitMoves

(* A step of a request other than recovery obeys the frame. *)
LEMMA StepPolicy ==
    ASSUME SafetyInvariant, NEW t \in Tasks \ {Recovery}, Step(t)
    PROVE  OwnPolicy(t)
  <1> USE DEF SafetyInvariant
  <1>1. CASE t \in Joins /\ Join(t)
    BY <1>1, JoinPolicy
  <1>2. CASE t \in Leaves /\ Leave(t)
    BY <1>2, LeavePolicy
  <1>3. CASE t \in Creates /\ Create(t)
    BY <1>3, CreatePolicy
  <1>4. CASE t \in Deletes /\ Delete(t)
    BY <1>4, DeletePolicy
  <1>5. CASE \/ t \in Writers /\ (WriterLookup(t) \/ Write(t))
             \/ t \in Owners /\ (OwnerMark(t) \/ OwnerFind(t) \/ Write(t) \/ DormantCheck(t)
                                   \/ DormantWrite(t))
    BY <1>5, WritePolicy
  <1>6. CASE t \in Drains /\ Drain(t)
    BY <1>6, DrainPolicy
  <1> QED BY <1>1, <1>2, <1>3, <1>4, <1>5, <1>6 DEF Step

(* An outcome that was lost without a reservation stays so. *)
UnknownNext(u) == u \in Creates \cup Owners /\ pc'[u] = "unknown" /\ token'[room'[u]] # u
LEMMA UnknownStays ==
    ASSUME EvictionInvariant, NEW t \in Tasks, Frames(t), OwnPolicy(t), NEW u, Unknown(u)
    PROVE  UnknownNext(u)
  <1>1. u # t /\ u \in Tasks /\ u # None
    BY Kinds, Disjoint DEF OwnPolicy, DoubtMoves, Unknown
  <1>2. pc'[u] = pc[u] /\ room'[u] = room[u]
    BY <1>1 DEF Frames, OwnPlace
  <1>3. room[u] \in RoomIds
    BY DEF EvictionInvariant, PendingInvariant, SafetyInvariant, Placed, Unknown
  <1>4. token'[room[u]] # u
    BY <1>1, <1>3, TokensAreOwn DEF Unknown
  <1> QED BY <1>2, <1>4 DEF Unknown, UnknownNext

(* Until a worker dies, nobody takes away the reservation of another that  *)
(* is no eviction.                                                         *)
LEMMA ReservationKept ==
    ASSUME EvictionInvariant, Custody, NEW t \in Tasks \ {Recovery}, Frames(t),
           NEW r \in RoomIds, token[r] \notin {None, t}
    PROVE  token'[r] = token[r]
  <1>1. ~(arc[t] \in Joins /\ rooms[r] = arc[t] /\ ~state[arc[t]].deleting)
    BY Disjoint DEF Custody, Registry, TokenTells
  <1> QED BY <1>1 DEF Frames, OwnRegistry, TokenMoves

(* Nothing is mapped at an id while a row is inserted for it. *)
LEMMA InsertingStep ==
    ASSUME EvictionInvariant, Inserting, NEW t \in Tasks, Frames(t), OwnPolicy(t)
    PROVE  Inserting'
  <1> USE DEF Frames
  <1>0. Placed /\ CreationExclusive
    BY DEF EvictionInvariant, PendingInvariant, SafetyInvariant
  <1>t. ASSUME NEW r \in RoomIds
        PROVE  token'[r] \notin Creates
    <2>1. token[r] \notin Creates
      BY DEF Inserting
    <2> QED BY <2>1, Kinds, TaskAssumption DEF OwnRegistry, TokenMoves
  <1>c. ASSUME NEW c \in Creates, pc'[c] = "persist"
        PROVE  rooms'[room'[c]] = None
    <2>1. CASE c = t
      BY <1>c, <2>1 DEF OwnPolicy, CommitMoves
    <2>2. CASE c # t
      <3>1. pc[c] = "persist" /\ room'[c] = room[c] /\ room[c] \in RoomIds
        BY <1>0, <1>c, <2>2, Kinds DEF OwnPlace, Placed
      <3>2. rooms[room[c]] = None /\ creation = c
        BY <1>0, <3>1, Kinds DEF Inserting, CreationExclusive, UnderCreation
      <3>3. ~(t \in Joins /\ pc[t] = "publish")
        BY <1>0, <2>2, <3>2 DEF CreationExclusive, UnderCreation
      <3> QED BY <3>1, <3>2, <3>3 DEF OwnRooms
    <2> QED BY <2>1, <2>2
  <1> QED BY <1>t, <1>c DEF Inserting

(* No other room appears at the id of an update under way, and nobody else *)
(* tombstones its room.                                                    *)
LEMMA TrackingStep ==
    ASSUME EvictionInvariant, Custody, Tracking, NEW t \in Tasks \ {Recovery}, Frames(t),
           OwnPolicy(t)
    PROVE  Tracking'
  <1> USE DEF Frames
  <1>0. Placed /\ Governing /\ Marked /\ ControlExclusive
    BY DEF EvictionInvariant, PendingInvariant, SafetyInvariant, Registry, Custody
  <1>1. ASSUME NEW u \in Writers \cup Owners, u = t,
               pc'[u] \in Changing \/ (u \in Owners /\ pc'[u] = "admit")
        PROVE  /\ rooms'[room'[u]] \in {arc'[u], None}
               /\ pc'[u] \in Changing => ~state'[arc'[u]].deleting
    <2>1. rooms' = rooms
      BY <1>1 DEF OwnPolicy, CommitMoves
    <2>2. CASE pc'[u] \in Changing
      <3>1. /\ room'[u] = room[u] /\ arc'[u] = arc[u] /\ state' = state
            /\ \/ pc[u] = "persist"
               \/ /\ pc[u] = "admit" /\ (u \in Writers => rooms[room[u]] = arc[u])
                  /\ ~state[arc[u]].deleting
        BY <1>1, <2>2 DEF OwnPolicy, CommitMoves
      <3> QED BY <2>1, <3>1 DEF Tracking, Changing
    <2>3. CASE u \in Owners /\ pc'[u] = "admit"
      BY <1>1, <2>1, <2>3 DEF OwnPolicy, CommitMoves, Changing
    <2> QED BY <1>1, <2>2, <2>3
  <1>2. ASSUME NEW u \in Writers \cup Owners, u # t,
               pc'[u] \in Changing \/ (u \in Owners /\ pc'[u] = "admit")
        PROVE  /\ rooms'[room'[u]] \in {arc'[u], None}
               /\ pc'[u] \in Changing => ~state'[arc'[u]].deleting
    <2>1. /\ pc'[u] = pc[u] /\ room'[u] = room[u] /\ arc'[u] = arc[u]
          /\ room[u] \in RoomIds /\ arc[u] \in Joins /\ u \in Tasks /\ u # None
      BY <1>0, <1>2, Disjoint DEF OwnPlace, Placed, Changing
    <2>2. rooms[room[u]] \in {arc[u], None}
      BY <1>2, <2>1 DEF Tracking
    <2>3. ASSUME t \in Joins, pc[t] = "publish", room[u] = room[t],
                 rooms'[room[u]] # rooms[room[u]], rooms'[room[u]] # None
          PROVE  FALSE
      <3>1. ~draining
        BY <2>1, <2>3 DEF OwnPolicy, LoadMoves
      <3>2. rooms[room[u]] = None /\ room[u] \notin identity
        BY <2>3, Standing DEF Building
      <3>3. CASE u \in Owners
        BY <1>0, <1>2, <2>1, <3>2, <3>3 DEF Marked, Marking, Changing
      <3>4. CASE u \in Writers /\ pc[u] \in Changing
        <4>1. rooms[room[u]] = arc[u] /\ arc[u] \in Joins
          BY <1>0, <3>1, <3>4 DEF Governing, MappedLive, Placed, Changing
        <4> QED BY <3>2, <4>1, Disjoint
      <3> QED BY <1>2, <2>1, <3>3, <3>4
    <2>4. rooms'[room[u]] \in {arc[u], None}
      BY <2>1, <2>2, <2>3, Disjoint DEF OwnRooms
    <2>5. ASSUME pc[u] \in Changing
          PROVE  ~state'[arc[u]].deleting
      <3>1. ~state[arc[u]].deleting /\ control[arc[u]] = u
        BY <1>0, <2>1, <2>5 DEF Tracking, ControlExclusive, UnderControl, Changing
      <3> QED BY <1>2, <2>1, <3>1 DEF OwnRooms
    <2> QED BY <2>1, <2>4, <2>5
  <1> QED BY <1>1, <1>2 DEF Tracking

(* Whoever changes a row finds its own room mapped there, or none, and no  *)
(* creator at work (before a drain).                                       *)
LEMMA RowWriter ==
    ASSUME EvictionInvariant, Custody, Ruled, NEW t \in Tasks \ {Recovery}, OwnPolicy(t),
           NEW r \in RoomIds, db'[r] # db[r]
    PROVE  /\ r = room[t] /\ rooms' = rooms /\ state' = state /\ arc' = arc
           /\ \/ rooms[r] = None
              \/ /\ rooms[r] = arc[t] /\ t \in Deletes /\ pc[t] = "delete" /\ pc'[t] = "empty"
                 /\ control[arc[t]] = t /\ arc[t] \in Joins
              \/ /\ rooms[r] = arc[t] /\ t \in Writers \cup Owners /\ pc[t] = "persist"
                 /\ pc'[t] = "announce" /\ state[arc[t]].gen # None /\ db'[r].gen = db[r].gen
                 /\ control[arc[t]] = t /\ arc[t] \in Joins
           /\ ~draining => \A j \in Joins : Building(j) => room[j] # r
  <1>0. /\ Placed /\ Governing /\ ControlExclusive /\ CreationExclusive /\ Holding /\ Marked
        /\ BuildsAlone /\ Unclaimed /\ arc \in [Tasks -> Joins \cup {None}]
    BY DEF EvictionInvariant, PendingInvariant, SafetyInvariant, Registry, Custody, TypeOK
  <1>1. /\ r = room[t] /\ rooms' = rooms /\ state' = state /\ arc' = arc
        /\ \/ t \in Creates /\ pc[t] = "persist"
           \/ t \in Deletes /\ pc[t] = "delete" /\ (arc[t] # None => pc'[t] = "empty")
           \/ /\ t \in Writers \cup Owners /\ pc[t] = "persist" /\ pc'[t] = "announce"
              /\ state[arc[t]].gen # None /\ db'[r].gen = db[r].gen
           \/ t \in Owners /\ pc[t] = "write"
    BY DEF OwnPolicy, RowMoves
  <1>2. CASE t \in Creates /\ pc[t] = "persist"
    <2>1. rooms[r] = None /\ creation = t
      BY <1>0, <1>1, <1>2 DEF Ruled, Inserting, CreationExclusive, UnderCreation
    <2>2. ASSUME NEW j \in Joins, Building(j) PROVE FALSE
      BY <1>0, <1>2, <2>1, <2>2, Kinds DEF CreationExclusive, UnderCreation, Building
    <2> QED BY <1>1, <2>1, <2>2
  <1>3. CASE t \in Deletes /\ pc[t] = "delete" /\ (arc[t] # None => pc'[t] = "empty")
    <2>1. rooms[r] \in {None, arc[t]} /\ creation = t
      BY <1>1, <1>3, Standing
    <2>2. ASSUME NEW j \in Joins, Building(j) PROVE FALSE
      BY <1>0, <1>3, <2>1, <2>2, Kinds DEF CreationExclusive, UnderCreation, Building
    <2>3. arc[t] # None => arc[t] \in Joins /\ control[arc[t]] = t
      BY <1>0, <1>3 DEF ControlExclusive, UnderControl
    <2> QED BY <1>1, <1>3, <2>1, <2>2, <2>3
  <1>4. CASE t \in Writers \cup Owners /\ pc[t] = "persist" /\ pc'[t] = "announce"
               /\ state[arc[t]].gen # None /\ db'[r].gen = db[r].gen
    <2>1. rooms[r] \in {None, arc[t]} /\ arc[t] \in Joins /\ control[arc[t]] = t
      BY <1>0, <1>1, <1>4 DEF Ruled, Tracking, Changing, Placed, ControlExclusive,
         UnderControl
    <2>2. ASSUME ~draining, NEW j \in Joins, Building(j), room[j] = r PROVE FALSE
      <3>1. CASE t \in Writers
        BY <1>0, <1>1, <1>4, <2>1, <2>2, <3>1, Disjoint DEF Governing, MappedLive,
           BuildsAlone
      <3>2. CASE t \in Owners
        BY <1>0, <1>1, <1>4, <2>2, <3>2 DEF Marked, Marking, Unclaimed
      <3> QED BY <1>4, <3>1, <3>2
    <2> QED BY <1>1, <1>4, <2>1, <2>2
  <1>5. CASE t \in Owners /\ pc[t] = "write"
    <2>1. rooms[r] = None /\ r \in identity
      BY <1>1, <1>5, Standing
    <2>2. ASSUME NEW j \in Joins, Building(j), room[j] = r PROVE FALSE
      BY <1>0, <2>1, <2>2 DEF Unclaimed
    <2> QED BY <1>1, <2>1, <2>2
  <1> QED BY <1>1, <1>2, <1>3, <1>4, <1>5

(* Rooms that are known keep their generation. *)
LEMMA KnownKeepGeneration ==
    ASSUME EvictionInvariant, NEW t \in Tasks, OwnPolicy(t), NEW i \in Joins, ~Unpublished(i)
    PROVE  /\ state'[i].gen = state[i].gen
           /\ ~(t \in Writers \cup Owners /\ pc[t] = "announce" /\ arc[t] = i)
                => state'[i].policy = state[i].policy
  BY DEF OwnPolicy, PolicyMoves, Unpublished, Early

(* What a creator has loaded is still in the table when it publishes. *)
LEMMA LoadedStep ==
    ASSUME EvictionInvariant, Custody, Ruled, NEW t \in Tasks \ {Recovery}, Frames(t),
           OwnPolicy(t)
    PROVE  Loaded'
  <1> USE DEF Frames
  <1>0. Loaded /\ Known /\ Placed
    BY DEF EvictionInvariant, PendingInvariant, SafetyInvariant, Ruled
  <1> SUFFICES ASSUME ~draining', NEW j \in Joins, pc'[j] \in Loading
               PROVE  \/ /\ state'[j].gen = db'[room'[j]].gen
                         /\ \/ state'[j].policy = db'[room'[j]].policy
                            \/ UnknownNext(db'[room'[j]].policy)
                      \/ state'[j].gen = None /\ UnknownNext(db'[room'[j]].gen)
    BY DEF Loaded, SamePolicy, Unknown, UnknownNext
  <1>1. ~draining /\ \A u : Unknown(u) => UnknownNext(u)
    BY UnknownStays DEF OwnRooms
  <1>2. CASE j = t
    <2>1. /\ db' = db /\ room'[j] = room[j]
          /\ \/ pc[j] = "load" /\ state'[j].gen = db[room[j]].gen
                /\ state'[j].policy = db[room[j]].policy
             \/ pc[j] \in Loading /\ state' = state
      BY <1>2 DEF OwnPolicy, LoadMoves
    <2> QED BY <1>0, <1>1, <2>1 DEF Loaded, SamePolicy
  <1>3. CASE j # t
    <2>1. /\ pc[j] \in Loading /\ room'[j] = room[j] /\ room[j] \in RoomIds
          /\ Building(j) /\ Unpublished(j)
      BY <1>0, <1>3, Disjoint DEF OwnPlace, Placed, Loading, Building, Unpublished, Early
    <2>2. db'[room[j]] = db[room[j]]
      BY <1>1, <2>1, RowWriter
    <2>3. arc[t] # j
      BY <1>0, <2>1 DEF Known
    <2>4. state'[j].gen = state[j].gen /\ state'[j].policy = state[j].policy
      BY <1>3, <2>3 DEF OwnPolicy, PolicyMoves
    <2> QED BY <1>0, <1>1, <2>1, <2>2, <2>4 DEF Loaded, SamePolicy
  <1> QED BY <1>2, <1>3

(* A committed policy is not overwritten before it is published. *)
LEMMA CommittedStep ==
    ASSUME EvictionInvariant, Custody, Ruled, NEW t \in Tasks \ {Recovery}, Frames(t),
           OwnPolicy(t)
    PROVE  Committed'
  <1> USE DEF Frames
  <1>0. Committed /\ Known /\ Placed /\ ControlExclusive /\ BuildsAlone
    BY DEF EvictionInvariant, PendingInvariant, SafetyInvariant, Ruled
  <1> SUFFICES ASSUME NEW u \in Writers \cup Owners, pc'[u] = "announce",
                      rooms'[room'[u]] = arc'[u], state'[arc'[u]].gen # None
               PROVE  db'[room'[u]].policy = u \/ UnknownNext(db'[room'[u]].policy)
    BY DEF Committed, Unknown, UnknownNext
  <1>1. CASE u = t
    BY <1>1 DEF OwnPolicy, CommitMoves, Changing
  <1>2. CASE u # t
    <2>1. /\ pc[u] = "announce" /\ room'[u] = room[u] /\ arc'[u] = arc[u]
          /\ room[u] \in RoomIds /\ arc[u] \in Joins /\ u \in Tasks
      BY <1>0, <1>2, Disjoint DEF OwnPlace, Placed
    <2>2. ~Unpublished(arc[u]) /\ control[arc[u]] = u
      BY <1>0, <2>1 DEF Known, ControlExclusive, UnderControl
    <2>3. rooms[room[u]] = arc[u]
      <3>1. ~(t \in Joins /\ pc[t] = "publish" /\ arc[u] = t)
        BY <2>2 DEF Unpublished, Early
      <3> QED BY <2>1, <3>1, Disjoint DEF OwnRooms
    <2>4. db[room[u]].policy = u \/ Unknown(db[room[u]].policy)
      BY <1>0, <2>1, <2>2, <2>3, KnownKeepGeneration DEF Committed
    <2>5. db'[room[u]] = db[room[u]]
      BY <1>2, <2>1, <2>2, <2>3, Disjoint, RowWriter
    <2> QED BY <2>1, <2>4, <2>5, UnknownStays
  <1> QED BY <1>1, <1>2

(* An update that quarantines its room leaves it tombstoned. *)
LEMMA QuarantineDooms ==
    ASSUME EvictionInvariant, Custody, Ruled, NEW t \in Writers \cup Owners, Frames(t),
           OwnPolicy(t), pc[t] = "quarantine", rooms[room[t]] = arc[t]
    PROVE  /\ state'[arc[t]].deleting
           /\ \A d \in Deletes : arc'[d] = arc[t] => pc'[d] \notin {"delete", "restore"}
           /\ pc'[t] = "sweep" /\ room'[t] = room[t] /\ token'[room[t]] = t
  <1> USE DEF Frames
  <1>0. Placed /\ Doomed /\ TokenTells /\ Tracking
    BY DEF EvictionInvariant, PendingInvariant, SafetyInvariant, Custody, Registry, Ruled
  <1>1. /\ arc[t] \in Joins /\ room[t] \in RoomIds /\ ~state[arc[t]].deleting
        /\ t \in Tasks /\ t # None
    BY <1>0, Disjoint DEF Placed, Tracking, Changing
  <1>2. token[room[t]] = None
    BY <1>0, <1>1, Disjoint DEF TokenTells
  <1>3. pc'[t] = "sweep" /\ room'[t] = room[t]
    BY <1>1 DEF OwnPolicy, DoubtMoves
  <1>4. token'[room[t]] = t
    BY <1>2, <1>3 DEF OwnRegistry, ReleaseMoves
  <1>5. state'[arc[t]].deleting
    BY <1>1, <1>2, <1>4, Disjoint DEF OwnRegistry, TokenMoves
  <1>6. ASSUME NEW d \in Deletes, arc'[d] = arc[t], pc'[d] \in {"delete", "restore"}
        PROVE  FALSE
    <2>1. arc[d] = arc[t] /\ pc[d] = pc'[d]
      BY <1>6, Disjoint DEF OwnPlace
    <2> QED BY <1>0, <1>1, <1>6, <2>1 DEF Doomed, Dooming
  <1> QED BY <1>3, <1>4, <1>5, <1>6

(* Live rooms stay coherent with their rows. *)
LEMMA CoherentStep ==
    ASSUME EvictionInvariant, Custody, Ruled, NEW t \in Tasks \ {Recovery}, Frames(t),
           OwnPolicy(t)
    PROVE  Coherent'
  <1> USE DEF Frames
  <1>0. Coherent /\ Committed /\ Loaded /\ Known /\ Placed /\ Homed /\ Doomed /\ ControlExclusive
    BY DEF EvictionInvariant, PendingInvariant, SafetyInvariant, Ruled
  <1>u. \A u : Unknown(u) => UnknownNext(u)
    BY UnknownStays
  <1> SUFFICES ASSUME NEW r \in RoomIds, NEW i \in Joins, rooms'[r] = i,
                      ~state'[i].deleting \/ Restorable(i)'
               PROVE  \/ /\ state'[i].gen = db'[r].gen
                         /\ state'[i].policy = db'[r].policy \/ UnknownNext(db'[r].policy)
                      \/ state'[i].gen = None /\ UnknownNext(db'[r].gen)
                      \/ Changed(i)' /\ state'[i].gen # None /\ state'[i].gen = db'[r].gen
    BY DEF Coherent, SamePolicy, Unknown, UnknownNext
  <1>1. CASE rooms[r] # i
    <2>1. t \in Joins /\ pc[t] = "publish" /\ r = room[t] /\ i = t
      BY <1>1, Disjoint DEF OwnRooms
    <2>2. ~draining /\ db' = db
      BY <1>1, <2>1, Disjoint DEF OwnPolicy, LoadMoves
    <2>3. SamePolicy(t, db[r])
      BY <1>0, <2>1, <2>2 DEF Loaded, Loading
    <2>4. state'[t].gen = state[t].gen /\ state'[t].policy = state[t].policy
      BY <2>1, Disjoint DEF OwnPolicy, PolicyMoves
    <2> QED BY <1>u, <2>1, <2>2, <2>3, <2>4 DEF SamePolicy
  <1>2. CASE rooms[r] = i
    <2>1. ~Unpublished(i) /\ room[i] = r
      BY <1>0, <1>2 DEF Known, Homed
    <2>2. ~state[i].deleting \/ Restorable(i)
      BY <1>2, LiveBefore
    <2>3. \/ state[i].gen = db[r].gen /\ (state[i].policy = db[r].policy \/ Unknown(db[r].policy))
          \/ state[i].gen = None /\ Unknown(db[r].gen)
          \/ Changed(i) /\ state[i].gen # None /\ state[i].gen = db[r].gen
      BY <1>0, <1>2, <2>2 DEF Coherent, SamePolicy
    <2>4. state'[i].gen = state[i].gen
      BY <2>1, KnownKeepGeneration
    <2>5. CASE db'[r] = db[r]
      <3>1. CASE t \in Writers \cup Owners /\ pc[t] = "announce" /\ arc[t] = i
        <4>1. state'[i].policy = IF state[i].gen = None THEN state[i].policy ELSE t
          BY <2>1, <3>1 DEF OwnPolicy, PolicyMoves, Unpublished, Early
        <4>2. state[i].gen # None => db[r].policy = t \/ Unknown(db[r].policy)
          <5>1. room[t] = r
            BY <2>1, <3>1, Standing
          <5> QED BY <1>0, <1>2, <3>1, <5>1 DEF Committed
        <4> QED BY <1>u, <2>3, <2>4, <2>5, <4>1, <4>2
      <3>2. CASE t \in Writers \cup Owners /\ pc[t] = "quarantine" /\ arc[t] = i
        <4>1. room[t] = r
          BY <2>1, <3>2, Standing
        <4> QED BY <1>2, <3>2, <4>1, QuarantineDooms DEF Restorable
      <3>3. CASE ~(t \in Writers \cup Owners /\ pc[t] \in {"announce", "quarantine"} /\ arc[t] = i)
        <4>1. state'[i].policy = state[i].policy
          BY <2>1, <3>3, KnownKeepGeneration
        <4>2. Changed(i) => Changed(i)'
          BY <3>3, Disjoint DEF Changed, OwnPlace
        <4> QED BY <1>u, <2>3, <2>4, <2>5, <4>1, <4>2
      <3> QED BY <3>1, <3>2, <3>3
    <2>6. CASE db'[r] # db[r]
      <3>0. /\ state' = state /\ arc' = arc /\ arc[t] = i
            /\ \/ t \in Deletes /\ pc[t] = "delete" /\ pc'[t] = "empty"
               \/ /\ t \in Writers \cup Owners /\ pc'[t] = "announce"
                  /\ state[i].gen # None /\ db'[r].gen = db[r].gen
        BY <1>2, <2>6, Disjoint, RowWriter
      <3>1. CASE t \in Deletes /\ pc[t] = "delete" /\ pc'[t] = "empty"
        <4>1. Dooming(t, i) /\ state[i].deleting
          BY <1>0, <3>0, <3>1 DEF Doomed, Dooming
        <4>2. PICK d \in Deletes : arc[d] = i /\ pc'[d] \in {"delete", "restore"}
          BY <3>0, <4>1 DEF Restorable
        <4>3. d # t /\ pc[d] = pc'[d]
          BY <3>1, <4>2, Disjoint DEF OwnPlace
        <4>4. Dooming(d, i)
          BY <4>2, <4>3 DEF Dooming
        <4>5. d = t
          BY <1>0, <3>1, <4>1, <4>4 DEF Doomed
        <4> QED BY <4>3, <4>5
      <3>2. CASE t \in Writers \cup Owners /\ pc'[t] = "announce" /\ state[i].gen # None
                   /\ db'[r].gen = db[r].gen
        <4>1. Changed(i)'
          BY <3>0, <3>2 DEF Changed
        <4> QED BY <2>3, <2>4, <3>2, <4>1
      <3> QED BY <3>0, <3>1, <3>2
    <2> QED BY <2>5, <2>6
  <1> QED BY <1>1, <1>2

(* A statement that was lost keeps its reservation, or has none for ever. *)
LEMMA LostStep ==
    ASSUME EvictionInvariant, Custody, Ruled, NEW t \in Tasks \ {Recovery}, Frames(t),
           OwnPolicy(t)
    PROVE  Lost'
  <1> USE DEF Frames
  <1>0. /\ Lost /\ Placed /\ Inserting /\ Tracking /\ Governing /\ inDoubt \subseteq Tasks
        /\ token \in [RoomIds -> Tasks \cup {None}]
    BY DEF EvictionInvariant, PendingInvariant, SafetyInvariant, TypeOK, Ruled
  <1> SUFFICES ASSUME NEW u \in inDoubt'
               PROVE  \/ UnknownNext(u)
                      \/ /\ token'[room'[u]] = u
                         /\ \/ u \in Deletes \cup Writers \cup Owners /\ pc'[u] = "unknown"
                            \/ u \in Writers \cup Owners /\ pc'[u] = "sweep"
                      \/ /\ u \in Writers \cup Owners /\ pc'[u] = "quarantine"
                         /\ state'[arc'[u]].gen # None
                      \/ /\ u \in Writers /\ pc'[u] = "unknown" /\ draining'
                         /\ rooms'[room'[u]] = None
    BY DEF Lost, Unknown, UnknownNext
  <1>1. CASE u # t
    <2>0. u \in inDoubt /\ u \in Tasks /\ u # None
      BY <1>0, <1>1, Disjoint DEF OwnPolicy, DoubtMoves
    <2>1. pc'[u] = pc[u] /\ room'[u] = room[u] /\ arc'[u] = arc[u]
      BY <1>1, <2>0 DEF OwnPlace
    <2>2. CASE Unknown(u)
      BY <2>2, UnknownStays
    <2>3. CASE /\ token[room[u]] = u
               /\ \/ u \in Deletes \cup Writers \cup Owners /\ pc[u] = "unknown"
                  \/ u \in Writers \cup Owners /\ pc[u] = "sweep"
      <3>1. room[u] \in RoomIds
        BY <1>0, <2>3 DEF Placed
      <3>2. token'[room[u]] = token[room[u]]
        BY <1>1, <2>0, <2>3, <3>1, ReservationKept
      <3> QED BY <2>1, <2>3, <3>2
    <2>4. CASE u \in Writers \cup Owners /\ pc[u] = "quarantine" /\ state[arc[u]].gen # None
      <3>1. arc[u] \in Joins
        BY <1>0, <2>4 DEF Placed
      <3>2. ~Unpublished(arc[u])
        BY <2>0, <2>4, <3>1, Standing, Disjoint
      <3>3. state'[arc[u]].gen = state[arc[u]].gen
        BY <3>1, <3>2, KnownKeepGeneration
      <3> QED BY <2>1, <2>4, <3>3
    <2>5. CASE u \in Writers /\ pc[u] = "unknown" /\ draining /\ rooms[room[u]] = None
      <3>1. room[u] \in RoomIds
        BY <1>0, <2>5 DEF Placed
      <3>2. rooms'[room[u]] = None
        BY <2>5, <3>1, Disjoint DEF OwnRooms, OwnPolicy, LoadMoves
      <3> QED BY <2>1, <2>5, <3>2 DEF OwnRooms
    <2> QED BY <1>0, <2>0, <2>2, <2>3, <2>4, <2>5 DEF Lost
  <1>2. CASE u = t /\ u \notin inDoubt
    <2>1. CASE t \in Creates /\ pc'[t] = "unknown"
      <3>1. room'[t] \in RoomIds => token'[room'[t]] \notin Creates
        BY InsertingStep DEF Ruled, Inserting
      <3>2. room'[t] \in RoomIds
        BY <2>1, Kinds DEF OwnPlace
      <3> QED BY <1>2, <2>1, <3>1, <3>2 DEF UnknownNext
    <2>2. CASE /\ t \in Deletes /\ pc[t] = "delete" /\ pc'[t] = "unknown"
               /\ token' = token /\ room'[t] = room[t]
      BY <1>2, <2>2, Standing
    <2>3. CASE /\ t \in Writers \cup Owners /\ pc[t] = "persist" /\ pc'[t] = "quarantine"
               /\ state[arc[t]].gen # None
      BY <1>2, <2>3 DEF OwnPolicy, CommitMoves, Changing
    <2>4. CASE t \in Owners /\ pc'[t] = "unknown"
      BY <1>2, <2>4 DEF UnknownNext
    <2> QED BY <1>2, <2>1, <2>2, <2>3, <2>4 DEF OwnPolicy, DoubtMoves
  <1>3. CASE u = t /\ u \in inDoubt
    <2>1. pc[t] # "unknown"
      BY DEF OwnPolicy, DoubtMoves
    <2>2. pc[t] \in {"quarantine", "sweep"}
      BY <1>0, <1>3, <2>1 DEF Lost, Unknown
    <2>3. t \in Writers \cup Owners
      BY <1>0, <1>3, <2>1 DEF Lost, Unknown
    <2>4. /\ room'[t] = room[t] /\ rooms' = rooms
          /\ \/ pc[t] = "quarantine" /\ pc'[t] = "sweep"
             \/ /\ pc[t] = "quarantine" /\ pc'[t] = "unknown" /\ token' = token
                /\ rooms[room[t]] # arc[t] \/ state[arc[t]].deleting
             \/ pc[t] = "sweep" /\ pc'[t] = "unknown" /\ token' = token
      BY <2>2, <2>3 DEF OwnPolicy, DoubtMoves
    <2>5. CASE pc[t] = "quarantine" /\ pc'[t] = "sweep"
      <3>1. rooms[room[t]] = arc[t]
        BY <2>3, <2>5 DEF OwnRegistry, ReleaseMoves
      <3> QED BY <1>3, <2>3, <2>4, <2>5, <3>1, QuarantineDooms
    <2>6. CASE /\ pc[t] = "quarantine" /\ pc'[t] = "unknown" /\ token' = token
               /\ rooms[room[t]] # arc[t] \/ state[arc[t]].deleting
      <3>1. rooms[room[t]] = None /\ rooms[room[t]] # arc[t]
        BY <1>0, <2>3, <2>6 DEF Tracking, Changing
      <3>2. CASE t \in Writers
        <4>1. draining
          BY <1>0, <2>6, <3>1, <3>2 DEF Governing, MappedLive
        <4>2. draining' /\ rooms'[room'[t]] = None
          BY <2>4, <3>1, <4>1 DEF OwnRooms
        <4> QED BY <1>3, <2>6, <3>2, <4>2
      <3>3. CASE t \in Owners
        BY <1>3, <2>4, <2>6, <3>3 DEF UnknownNext
      <3> QED BY <2>3, <3>2, <3>3
    <2>7. CASE pc[t] = "sweep" /\ pc'[t] = "unknown" /\ token' = token
      <3>1. token[room[t]] = t
        BY <2>3, <2>7, Standing
      <3> QED BY <1>3, <2>3, <2>4, <2>7, <3>1
    <2> QED BY <2>4, <2>5, <2>6, <2>7
  <1> QED BY <1>1, <1>2, <1>3

(* A row that changes late belongs to a statement without a reservation,   *)
(* or its id is reserved, or the room is about to be quarantined, or the   *)
(* drain has emptied the map.                                              *)
LEMMA LateRow ==
    ASSUME EvictionInvariant, Custody, Ruled, NEW t \in Tasks, Settle(t), NEW r \in RoomIds,
           db'[r] # db[r]
    PROVE  /\ r = room[t]
           /\ \/ Unknown(t) /\ t \in Creates /\ db[r] = NoRow /\ db'[r].gen = t
                 /\ db'[r].policy = t
              \/ Unknown(t) /\ t \in Owners /\ db'[r].gen = db[r].gen /\ db'[r].policy = t
              \/ token[r] = t /\ pc[t] \in {"sweep", "unknown"}
              \/ /\ t \in Writers \cup Owners /\ pc[t] = "quarantine"
                 /\ state[arc[t]].gen # None /\ db'[r].gen = db[r].gen
              \/ draining /\ rooms[r] = None
  <1>0. db \in [RoomIds -> Rows] /\ Lost /\ t \in inDoubt
    BY DEF EvictionInvariant, PendingInvariant, SafetyInvariant, TypeOK, Ruled, Settle
  <1>1. r = room[t]
    BY <1>0 DEF Settle
  <1>2. PICK row \in Rows : row = db[r]
    BY <1>0
  <1>3. /\ t \in Creates => db[r] = NoRow /\ db'[r].gen = t /\ db'[r].policy = t
        /\ t \in Owners => db'[r] = [row EXCEPT !.policy = t]
        /\ t \in Writers => db'[r] = [row EXCEPT !.policy = t]
    BY <1>0, <1>1, <1>2, Kinds, TaskAssumption DEF Settle
  <1>4. [row EXCEPT !.policy = t].gen = row.gen /\ [row EXCEPT !.policy = t].policy = t
    BY DEF Rows
  <1>5. CASE Unknown(t)
    BY <1>1, <1>2, <1>3, <1>4, <1>5 DEF Unknown
  <1>6. CASE ~Unknown(t)
    BY <1>0, <1>1, <1>2, <1>3, <1>4, <1>6 DEF Lost
  <1> QED BY <1>5, <1>6

(* No late commit is seen by a creator or a live room, but for those that  *)
(* have no reservation.                                                    *)
LEMMA SettleStep ==
    ASSUME EvictionInvariant, Custody, Ruled, NEW t \in Tasks, Settle(t)
    PROVE  Ruled'
  <1>u. /\ UNCHANGED <<draining, pc, room, arc, rooms, token, state>>
        /\ inDoubt' \subseteq inDoubt
    BY DEF Settle, registryVars, taskVars, restVars, processVars
  <1>0. /\ Inserting /\ Tracking /\ Loaded /\ Committed /\ Coherent /\ Lost
        /\ Placed /\ Governing /\ ControlExclusive /\ BuildsAlone /\ Homed
        /\ TokenTells /\ Marked /\ Unclaimed /\ Holding
    BY DEF EvictionInvariant, PendingInvariant, SafetyInvariant, Custody, Registry, Ruled
  <1>n. /\ NoRow.gen = None /\ NoRow.policy = None /\ ~Unknown(None) /\ t # None
        /\ None \notin Writers \cup Owners
    BY Disjoint, TaskAssumption, Kinds DEF NoRow, Unknown
  <1>1. Inserting' /\ Tracking'
    BY <1>0, <1>u DEF Inserting, Tracking
  <1>2. Lost'
    BY <1>0, <1>u DEF Lost, Unknown
  <1>s. \A v : Unknown(v) => UnknownNext(v)
    BY <1>u DEF Unknown, UnknownNext
  <1>q. ASSUME t \in Writers \cup Owners, pc[t] = "quarantine"
        PROVE  /\ rooms[room[t]] \in {arc[t], None} /\ control[arc[t]] = t
               /\ ~draining => \A j \in Joins : Building(j) => room[j] # room[t]
    <2>1. rooms[room[t]] \in {arc[t], None} /\ control[arc[t]] = t
      BY <1>0, <1>q DEF Tracking, Changing, ControlExclusive, UnderControl
    <2>2. ASSUME ~draining, NEW j \in Joins, Building(j), room[j] = room[t] PROVE FALSE
      <3>1. CASE t \in Writers
        <4>1. rooms[room[t]] = arc[t] /\ arc[t] \in Joins
          BY <1>0, <1>q, <2>2, <3>1 DEF Governing, MappedLive, Placed
        <4> QED BY <1>0, <2>2, <4>1, Disjoint DEF BuildsAlone
      <3>2. CASE t \in Owners
        BY <1>0, <1>q, <2>2, <3>2 DEF Marked, Marking, Unclaimed
      <3> QED BY <1>q, <3>1, <3>2
    <2> QED BY <2>1, <2>2
  <1>3. Loaded'
    <2> SUFFICES ASSUME ~draining, NEW j \in Joins, pc[j] \in Loading
                 PROVE  \/ /\ state[j].gen = db'[room[j]].gen
                           /\ \/ state[j].policy = db'[room[j]].policy
                              \/ UnknownNext(db'[room[j]].policy)
                        \/ state[j].gen = None /\ UnknownNext(db'[room[j]].gen)
      BY <1>u DEF Loaded, SamePolicy, Unknown, UnknownNext
    <2>1. SamePolicy(j, db[room[j]]) /\ Building(j) /\ room[j] \in RoomIds
      BY <1>0 DEF Loaded, Loading, Building, Placed
    <2>2. CASE db'[room[j]] = db[room[j]]
      BY <1>s, <2>1, <2>2 DEF SamePolicy
    <2>3. CASE db'[room[j]] # db[room[j]]
      <3>1. token[room[j]] = None
        BY <1>0, <2>1 DEF Unclaimed
      <3>2. room[j] = room[t]
        BY <2>1, <2>3, LateRow
      <3>3. \/ Unknown(t) /\ t \in Creates /\ db[room[j]] = NoRow /\ db'[room[j]].gen = t
            \/ /\ Unknown(t) /\ db'[room[j]].gen = db[room[j]].gen
               /\ db'[room[j]].policy = t
        BY <1>n, <1>q, <2>1, <2>3, <3>1, <3>2, LateRow
      <3> QED BY <1>n, <1>s, <2>1, <3>3 DEF SamePolicy
    <2> QED BY <2>2, <2>3
  <1>4. Committed'
    <2> SUFFICES ASSUME NEW u \in Writers \cup Owners, pc[u] = "announce",
                        rooms[room[u]] = arc[u], state[arc[u]].gen # None
                 PROVE  db'[room[u]].policy = u \/ UnknownNext(db'[room[u]].policy)
      BY <1>u DEF Committed, Unknown, UnknownNext
    <2>1. /\ room[u] \in RoomIds /\ arc[u] \in Joins /\ ~state[arc[u]].deleting
          /\ control[arc[u]] = u /\ u \in Tasks
          /\ db[room[u]].policy = u \/ Unknown(db[room[u]].policy)
      BY <1>0, Disjoint DEF Placed, Tracking, Changing, ControlExclusive, UnderControl,
         Committed
    <2>2. CASE db'[room[u]] = db[room[u]]
      BY <1>s, <2>1, <2>2
    <2>3. CASE db'[room[u]] # db[room[u]]
      <3>1. token[room[u]] = None
        BY <1>0, <2>1, Disjoint DEF TokenTells
      <3>2. db[room[u]] # NoRow
        BY <1>n, <2>1
      <3>3. ~(t \in Writers \cup Owners /\ pc[t] = "quarantine" /\ room[u] = room[t])
        BY <1>q, <2>1, Disjoint
      <3>4. rooms[room[u]] # None
        BY <2>1, Disjoint
      <3>5. Unknown(t) /\ db'[room[u]].policy = t
        BY <1>n, <2>1, <2>3, <3>1, <3>2, <3>3, <3>4, LateRow
      <3> QED BY <1>s, <3>5
    <2> QED BY <2>2, <2>3
  <1>5. Coherent'
    <2> SUFFICES ASSUME NEW r \in RoomIds, NEW i \in Joins, rooms[r] = i,
                        ~state[i].deleting \/ Restorable(i)
                 PROVE  \/ /\ state[i].gen = db'[r].gen
                           /\ state[i].policy = db'[r].policy \/ UnknownNext(db'[r].policy)
                        \/ state[i].gen = None /\ UnknownNext(db'[r].gen)
                        \/ Changed(i) /\ state[i].gen # None /\ state[i].gen = db'[r].gen
      BY <1>u DEF Coherent, SamePolicy, Unknown, UnknownNext, Restorable, Changed
    <2>1. \/ state[i].gen = db[r].gen /\ (state[i].policy = db[r].policy \/ Unknown(db[r].policy))
          \/ state[i].gen = None /\ Unknown(db[r].gen)
          \/ Changed(i) /\ state[i].gen # None /\ state[i].gen = db[r].gen
      BY <1>0 DEF Coherent, SamePolicy
    <2>2. CASE db'[r] = db[r]
      BY <1>s, <2>1, <2>2
    <2>3. CASE db'[r] # db[r]
      <3>0. room[t] = r
        BY <2>3, LateRow
      <3>1. ASSUME token[r] = t, pc[t] \in {"sweep", "unknown"}
            PROVE  FALSE
        <4>1. state[i].deleting
          BY <1>0, <1>n, <3>1, Disjoint DEF TokenTells
        <4>2. PICK d \in Deletes : arc[d] = i /\ pc[d] \in {"delete", "restore"}
          BY <4>1 DEF Restorable
        <4>3. token[room[d]] = d /\ room[d] = room[i] /\ room[i] = r
          BY <1>0, <4>2, Disjoint DEF Holding, Homed
        <4> QED BY <3>1, <4>2, <4>3
      <3>2. CASE t \in Writers \cup Owners /\ pc[t] = "quarantine" /\ state[arc[t]].gen # None
                   /\ db'[r].gen = db[r].gen
        <4>1. arc[t] = i
          BY <1>q, <3>0, <3>2, Disjoint
        <4>2. Changed(i)
          BY <3>2, <4>1 DEF Changed
        <4> QED BY <2>1, <3>2, <4>1, <4>2
      <3>3. CASE Unknown(t) /\ t \in Owners /\ db'[r].gen = db[r].gen /\ db'[r].policy = t
        BY <1>s, <2>1, <3>3
      <3>4. CASE Unknown(t) /\ t \in Creates /\ db[r] = NoRow /\ db'[r].gen = t
        BY <1>n, <1>s, <2>1, <3>4
      <3> QED BY <2>3, <3>1, <3>2, <3>3, <3>4, LateRow, Disjoint
    <2> QED BY <2>2, <2>3
  <1> QED BY <1>1, <1>2, <1>3, <1>4, <1>5 DEF Ruled

(* Until a worker dies, a live room enforces the policy of its row, except *)
(* while the writer that is changing it holds control: with any number of  *)
(* joins, deletions and updates, of a room that goes dormant or comes back *)
(* meanwhile, and with any number of outcomes lost and settled late; only  *)
(* statements that hold no reservation may differ.                         *)
THEOREM PoliciesAreCoherent == Spec => []PolicyCoherent
  <1>1. Init => PolicyInvariant
    <2> SUFFICES ASSUME Init PROVE Ruled
      BY DEF PolicyInvariant
    <2>1. /\ \A t \in Tasks : pc[t] = "idle"
          /\ \A r \in RoomIds : rooms[r] = None /\ token[r] = None
          /\ inDoubt = {}
      BY DEF Init
    <2>2. Inserting /\ Tracking /\ Loaded /\ Committed /\ Lost
      BY <2>1, Kinds, TaskAssumption DEF Inserting, Tracking, Changing, Loaded, Loading,
         Committed, Lost
    <2>3. Coherent
      BY <2>1, Disjoint DEF Coherent
    <2> QED BY <2>2, <2>3 DEF Ruled
  <1>2. EvictionInvariant /\ CustodyInvariant /\ PolicyInvariant /\ [Next]_vars
          => PolicyInvariant'
    <2> SUFFICES ASSUME EvictionInvariant, CustodyInvariant, PolicyInvariant, [Next]_vars,
                        Healthy'
                 PROVE  Ruled'
      BY DEF PolicyInvariant
    <2>0. Healthy /\ Custody /\ Ruled /\ SafetyInvariant
      <3>1. TypeOK /\ SafetyInvariant
        BY DEF EvictionInvariant, PendingInvariant, SafetyInvariant
      <3> QED BY <3>1, HealthyBefore DEF CustodyInvariant, PolicyInvariant
    <2>1. ASSUME NEW t \in Tasks, Step(t)
          PROVE  Ruled'
      <3>1. t \in Tasks \ {Recovery} /\ Frames(t)
        BY <2>0, <2>1, StepsWhileHealthy
      <3>2. OwnPolicy(t)
        BY <2>0, <2>1, <3>1, StepPolicy
      <3>3. Inserting' /\ Tracking'
        BY <2>0, <3>1, <3>2, InsertingStep, TrackingStep DEF Ruled
      <3>4. Loaded' /\ Committed' /\ Coherent' /\ Lost'
        BY <2>0, <3>1, <3>2, LoadedStep, CommittedStep, CoherentStep, LostStep
      <3> QED BY <3>3, <3>4 DEF Ruled
    <2>2. ASSUME UNCHANGED <<draining, pc, room, arc, rooms, token, state, db, inDoubt>>
          PROVE  Ruled'
      <3>1. Inserting' /\ Tracking' /\ Loaded' /\ Committed' /\ Lost'
        BY <2>0, <2>2 DEF Ruled, Inserting, Tracking, Loaded, SamePolicy, Committed, Lost,
           Unknown
      <3>2. Coherent'
        BY <2>0, <2>2 DEF Ruled, Coherent, SamePolicy, Unknown, Changed, Restorable
      <3> QED BY <3>1, <3>2 DEF Ruled
    <2>3. ASSUME (\E w \in Workers : WorkerDies(w)) \/ UNCHANGED vars
          PROVE  UNCHANGED <<draining, pc, room, arc, rooms, token, state, db, inDoubt>>
      BY <2>3 DEF WorkerDies, vars, registryVars, taskVars, dbVars, processVars, restVars
    <2>4. ASSUME NEW t \in Tasks, Settle(t)
          PROVE  Ruled'
      BY <2>0, <2>4, SettleStep
    <2> QED BY <2>1, <2>2, <2>3, <2>4 DEF Next, Terminated
  <1>3. EvictionInvariant /\ PolicyInvariant => PolicyCoherent
    <2> SUFFICES ASSUME EvictionInvariant, Ruled, NEW r \in RoomIds, rooms[r] # None,
                        ~state[rooms[r]].deleting, control[rooms[r]] \notin Writers \cup Owners
                 PROVE  SamePolicy(rooms[r], db[r])
      BY DEF PolicyInvariant, PolicyCoherent, SamePolicy
    <2>1. rooms[r] \in Joins /\ ControlExclusive
      BY DEF EvictionInvariant, PendingInvariant, SafetyInvariant, TypeOK
    <2>2. ~Changed(rooms[r])
      BY <2>1, Disjoint DEF Changed, ControlExclusive, UnderControl
    <2> QED BY <2>1, <2>2 DEF Ruled, Coherent
  <1> QED BY <1>1, <1>2, <1>3, EvictionHolds, CustodyHolds, PTL DEF Spec

----------------------------------------------------------------------------
(* A completed drain leaves nobody behind. *)

(* What the drain has not cleared yet is doomed, and only from its         *)
(* unmapping on.                                                           *)
Vacated ==
    /\ \A i \in Joins : Unmapped(i) => state[i].members = {} \/ i \in doomed \/ Revived(i)
    /\ (\A d \in Drains : pc[d] \notin {"clear", "abandoned"}) => doomed = {}
    /\ \A d \in Drains : pc[d] = "done" => doomed = {} /\ \A r \in RoomIds : rooms[r] = None

(* Rooms are doomed when they are unmapped and spared when they are        *)
(* cleared; a drain that ends within its budget ends when none is left.    *)
LEMMA DoomMoves ==
    ASSUME SafetyInvariant, NEW t \in Tasks, Step(t)
    PROVE  /\ doomed' # doomed =>
                /\ t \in Drains /\ pc'[t] = "clear"
                /\ \/ pc[t] = "lock" /\ doomed' = {rooms[r] : r \in RoomIds} \ {None}
                   \/ \E i \in doomed : doomed' = doomed \ {i} /\ state'[i].members = {}
           /\ t \in Drains => pc[t] \in {"idle", "lock", "clear"}
           /\ t \in Drains /\ pc[t] = "clear" /\ pc'[t] \notin {"clear", "abandoned"} =>
                doomed = {}
           /\ t \in Drains /\ pc'[t] = "done" => pc[t] = "clear" /\ rooms' = rooms
  <1> USE DEF registryVars, taskVars, restVars, processVars, localVars, Goto
  <1>0. /\ pc \in [Tasks -> Labels] /\ state \in [Joins -> RoomStates] /\ doomed \subseteq Joins
    BY DEF SafetyInvariant, TypeOK
  <1>1. CASE t \notin Drains
    <2>1. CASE t # Recovery
      <3>1. doomed' = doomed
        BY <1>1, <2>1 DEF Step, Join, JoinLookup, JoinReserve, JoinCreate, JoinLoad,
           JoinRoute,
           JoinRegister, JoinRollback, JoinPublish, JoinSnapshot, JoinControl, JoinRefused,
           JoinInsert, DropCreation, DropRelease, Leave, LeaveLookup, LeaveRemove,
           LeaveCreation, LeaveEvict, Teardown, Create, CreateLock, CreateInsert, Delete,
           DeleteRead, DeleteLock, DeleteTombstone, DeleteRow, DeleteRestore, DeleteEmpty,
           Write, WriterLookup, OwnerMark, OwnerFind, Admit, Persist, Announce, Quarantine,
           Sweep, DormantCheck, DormantWrite
      <3> QED BY <1>1, <3>1
    <2>2. CASE t = Recovery
      <3>1. Recover(t)
        BY <2>2, Kinds DEF Step
      <3>2. doomed' = doomed
        BY <3>1 DEF Recover, RecoverSnapshot, RecoverReplace, RecoverNext, RecoverLock,
           RecoverClose, Teardown
      <3> QED BY <1>1, <3>2
    <2> QED BY <2>1, <2>2
  <1>2. CASE t \in Drains
    <2>0. Drain(t)
      BY <1>2, TaskAssumption DEF Step
    <2>1. CASE DrainRoom(t)
      <3>1. PICK i \in doomed :
              /\ state' = [state EXCEPT ![i] = [@ EXCEPT !.deleting = TRUE, !.members = {}]]
              /\ doomed' = doomed \ {i} /\ pc[t] = "clear" /\ pc' = pc
        BY <2>1 DEF DrainRoom
      <3>2. PICK s \in RoomStates : s = state[i]
        BY <1>0
      <3>3. state'[i] = [s EXCEPT !.deleting = TRUE, !.members = {}]
        BY <1>0, <3>1, <3>2
      <3>4. state'[i].members = {}
        BY <3>3, OperatorMembers
      <3> QED BY <1>2, <3>1, <3>4
    <2>2. CASE DrainBegin(t) \/ DrainMap(t) \/ DrainEnd(t)
      BY <1>0, <1>2, <2>2, Disjoint DEF DrainBegin, DrainMap, DrainEnd, CreationFree
    <2> QED BY <2>0, <2>1, <2>2 DEF Drain
  <1> QED BY <1>1, <1>2

(* A step leaves only doomed members behind. *)
LEMMA VacatedStep ==
    ASSUME EvictionInvariant, Registry, Rooted, Rooted', Vacated, NEW t \in Tasks, Step(t)
    PROVE  Vacated'
  <1>f. Frames(t)
    BY StepsKeepFrames
  <1> USE <1>f DEF Frames
  <1>0. /\ SafetyInvariant /\ rooms \in [RoomIds -> Joins \cup {None}] /\ DrainFlagged
        /\ pc \in [Tasks -> Labels] /\ Known /\ Cleared /\ TypeOK /\ Placed
    BY DEF EvictionInvariant, PendingInvariant, SafetyInvariant, TypeOK, Registry
  <1>m. /\ doomed' # doomed =>
             /\ t \in Drains /\ pc'[t] = "clear"
             /\ \/ pc[t] = "lock" /\ doomed' = {rooms[r] : r \in RoomIds} \ {None}
                \/ \E i \in doomed : doomed' = doomed \ {i} /\ state'[i].members = {}
        /\ t \in Drains => pc[t] \in {"idle", "lock", "clear"}
        /\ t \in Drains /\ pc[t] = "clear" /\ pc'[t] \notin {"clear", "abandoned"} =>
             doomed = {}
        /\ t \in Drains /\ pc'[t] = "done" => pc[t] = "clear" /\ rooms' = rooms
    BY <1>0, DoomMoves
  <1>u. pc[t] = "lock" /\ t \in Drains => doomed = {}
    BY DrainAssumption DEF Vacated
  <1>1. ASSUME NEW i \in Joins, Unmapped(i)', ~Revived(i)'
        PROVE  state'[i].members = {} \/ i \in doomed'
    <2>0. ~Revived(i)
      BY <1>1, RevivedStep
    <2>1. CASE ~draining'
      BY <1>1, <2>1 DEF Rooted
    <2>2. CASE draining'
      <3>1. CASE Unmapped(i) /\ draining
        <4>1. state[i].members = {} \/ i \in doomed
          BY <2>0, <3>1 DEF Vacated
        <4>2. state'[i].members \subseteq state[i].members
          BY <3>1 DEF OwnCustody, OwnState
        <4>3. i \in doomed => state'[i].members = {} \/ i \in doomed'
          BY <1>m, <1>u
        <4> QED BY <4>1, <4>2, <4>3
      <3>2. CASE Unmapped(i) /\ ~draining
        <4>1. state[i].members = {} /\ (\A u \in Tasks \ {Recovery} : arc[u] = i => state[i].deleting)
          BY <2>0, <3>2 DEF Rooted
        <4>2. state'[i].members \subseteq state[i].members
          BY <4>1, Disjoint DEF OwnCustody, OwnState, Reserved
        <4> QED BY <4>1, <4>2
      <3>3. CASE ~Unmapped(i)
        <4>1. PICK r \in RoomIds : rooms[r] = i
          BY <3>3 DEF Unmapped
        <4>2. rooms'[r] = None
          <5>1. rooms'[r] # i
            BY <1>1 DEF Unmapped
          <5>2. ~(t \in Joins /\ pc[t] = "publish" /\ r = room[t])
            BY <4>1, Disjoint, Position DEF Building
          <5> QED BY <4>1, <5>1, <5>2 DEF OwnRooms
        <4>3. \/ t \in Joins \cup Leaves /\ pc'[t] = "teardown" /\ rooms[r] = arc[t]
              \/ rooms[r] = arc[t] /\ state'[arc[t]].members = {}
              \/ doomed' = {rooms[q] : q \in RoomIds} \ {None}
          BY <4>1, <4>2, Disjoint, UnmapStep
        <4>4. CASE t \in Joins \cup Leaves /\ pc'[t] = "teardown" /\ rooms[r] = arc[t]
          BY <4>1, <4>4 DEF OwnCustody, OwnEviction
        <4> QED BY <4>1, <4>3, <4>4, Disjoint
      <3> QED BY <3>1, <3>2, <3>3
    <2> QED BY <2>1, <2>2
  <1>2. ASSUME \A d \in Drains : pc'[d] \notin {"clear", "abandoned"}
        PROVE  doomed' = {}
    <2>1. doomed' = doomed
      BY <1>2, <1>m
    <2>2. CASE \A d \in Drains : pc[d] \notin {"clear", "abandoned"}
      BY <2>1, <2>2 DEF Vacated
    <2>3. CASE \E d \in Drains : pc[d] \in {"clear", "abandoned"}
      <3>1. PICK d \in Drains : pc[d] \in {"clear", "abandoned"}
        BY <2>3
      <3>2. d = t
        BY <1>2, <3>1, Disjoint DEF OwnPlace
      <3> QED BY <1>2, <1>m, <2>1, <3>1, <3>2
    <2> QED BY <2>2, <2>3
  <1>3. ASSUME NEW d \in Drains, pc'[d] = "done"
        PROVE  doomed' = {} /\ \A r \in RoomIds : rooms'[r] = None
    <2>1. CASE d = t
      <3>1. pc[t] = "clear" /\ rooms' = rooms /\ doomed = {} /\ doomed' = doomed
        BY <1>3, <1>m, <2>1
      <3> QED BY <1>0, <2>1, <3>1 DEF Cleared
    <2>2. CASE d # t
      <3>1. pc[d] = "done"
        BY <1>3, <2>2, Disjoint DEF OwnPlace
      <3>2. doomed = {} /\ (\A q \in RoomIds : rooms[q] = None) /\ draining
        BY <1>0, <3>1 DEF Vacated, DrainFlagged
      <3>3. doomed' = {}
        BY <1>m, <2>2, <3>2, DrainAssumption
      <3>4. ASSUME NEW r \in RoomIds, rooms'[r] # rooms[r], rooms'[r] # None
            PROVE  FALSE
        <4>1. t \in Joins
          BY <3>4 DEF OwnRooms
        <4>2. Join(t)
          BY <4>1, Kinds DEF Step
        <4>3. LoadMoves(t)
          BY <1>0, <4>1, <4>2, JoinPolicy DEF OwnPolicy
        <4> QED BY <3>2, <3>4, <4>1, <4>3 DEF LoadMoves
      <3> QED BY <3>2, <3>3, <3>4
    <2> QED BY <2>1, <2>2
  <1> QED BY <1>1, <1>2, <1>3 DEF Vacated

(* Once a drain has completed within its budget no room is mapped and      *)
(* nobody is a member of any incarnation that no failed deletion has       *)
(* revived, with any number of joins that were in the middle of creating   *)
(* or entering one (shutdown_with_budget).                                 *)
THEOREM DrainsAreFinal == Spec => []DrainIsFinal
  <1>1. Init => Vacated
    <2> SUFFICES ASSUME Init PROVE Vacated
      OBVIOUS
    <2>1. /\ \A i \in Joins : state[i].members = {}
          /\ \A t \in Tasks : pc[t] = "idle"
          /\ doomed = {}
      BY DEF Init, NewRoom
    <2> QED BY <2>1, Disjoint DEF Vacated
  <1>2. EvictionInvariant /\ Registry /\ Rooted /\ Rooted' /\ Vacated /\ [Next]_vars => Vacated'
    <2> SUFFICES ASSUME EvictionInvariant, Registry, Rooted, Rooted', Vacated, [Next]_vars
                 PROVE  Vacated'
      OBVIOUS
    <2>1. ASSUME NEW t \in Tasks, Step(t)
          PROVE  Vacated'
      BY <2>1, VacatedStep
    <2>2. ASSUME UNCHANGED <<doomed, pc, arc, rooms, state>>
          PROVE  Vacated'
      BY <2>2 DEF Vacated, Unmapped, Revived
    <2>3. ASSUME (\E t \in Tasks : Settle(t)) \/ (\E w \in Workers : WorkerDies(w))
                    \/ UNCHANGED vars
          PROVE  UNCHANGED <<doomed, pc, arc, rooms, state>>
      BY <2>3 DEF Settle, WorkerDies, vars, registryVars, taskVars, processVars, restVars
    <2> QED BY <2>1, <2>2, <2>3 DEF Next, Terminated
  <1>3. Vacated => DrainIsFinal
    BY Disjoint DEF Vacated, Unmapped, DrainIsFinal
  <1> QED BY <1>1, <1>2, <1>3, EvictionHolds, RegistryHolds, RootedHolds, PTL DEF Spec

----------------------------------------------------------------------------
(* Nothing is left over, until a worker dies, at an id where no cleanup    *)
(* was given up.                                                           *)

(* Some task ended without its cleanup. *)
GivenUp(r) == \E t \in Tasks : pc[t] = "abandoned" /\ room[t] = r

(* A mapped room that is live, or whose tombstone may be lifted by the     *)
(* deletion that still holds its control, has a member, or a task that     *)
(* will make one or evict the room; a REST update may have removed the     *)
(* last member and leave it at that.                                       *)
Liftable(i) ==
    \E d \in Deletes : arc[d] = i /\ pc[d] \in {"delete", "restore"} /\ control[i] = d
Evicting(l, i) == arc[l] = i /\ pc[l] \in {"evict", "recheck"}
Attended(i) ==
    \/ state[i].members # {}
    \/ \E t \in Joins : Reserved(t, i)
    \/ \E l \in Leaves : Evicting(l, i)
    \/ \E o \in Owners : arc[o] = i
Inhabited(r) ==
    rooms[r] # None /\ (~state[rooms[r]].deleting \/ Liftable(rooms[r])) => Attended(rooms[r])

(* A router serves a mapped room, or one that is being published or torn   *)
(* down.                                                                   *)
Removing(t, r) == pc[t] = "teardown" /\ room[t] = r
Serving(r) ==
    routers[r] # None =>
        \/ rooms[r] = routers[r]
        \/ \E j \in Joins : pc[j] = "publish" /\ room[j] = r
        \/ \E t \in Joins \cup Leaves \cup Deletes : Removing(t, r)

(* An id is reserved by the task that will release it, by an update that   *)
(* has quarantined it, or by a deletion whose SQL outcome is lost.         *)
Owing(t, r) ==
    /\ room[t] = r
    /\ \/ t \in Joins \cup Leaves /\ pc[t] = "teardown"
       \/ t \in Deletes /\ pc[t] \in {"delete", "restore", "empty", "teardown", "unknown"}
       \/ t \in Writers \cup Owners /\ pc[t] \in {"sweep", "unknown"}
Owed(r) == token[r] # None => Owing(token[r], r)

Tidy == \A r \in RoomIds : GivenUp(r) \/ (Inhabited(r) /\ Serving(r) /\ Owed(r))
TidyInvariant == Healthy /\ ~draining => Tidy

----------------------------------------------------------------------------
(* What a step does to what may be left over. *)

(* Routers come with a publication and go with a teardown. *)
ServeMoves(t) ==
    /\ pc[t] # "abandoned"
    /\ \A r \in RoomIds : routers'[r] # routers[r] =>
         routers'[r] = None \/ (t \in Joins /\ r = room'[t] /\ pc'[t] = "publish")
    /\ t \in Joins /\ pc[t] = "publish" =>
         \/ rooms'[room[t]] = t \/ routers'[room[t]] = None \/ pc'[t] = "abandoned"
    /\ t \in Joins \cup Leaves \cup Deletes /\ pc[t] = "teardown" =>
         \/ pc'[t] = "abandoned"
         \/ /\ routers'[room[t]] = None
            /\ token[room[t]] = t => token'[room[t]] = None

(* A deletion ends with its reservation, unless the outcome is lost or it  *)
(* gives up; it lifts the tombstone of a mapped room under control or      *)
(* gives up.                                                               *)
SettleMoves(t) ==
    /\ t \in Deletes =>
         /\ pc[t] = "tombstone" /\ token' # token => pc'[t] = "delete" /\ room' = room
         /\ pc[t] = "empty" => pc'[t] \in {"teardown", "abandoned"}
         /\ pc'[t] = "restore" => control' = control \/ control'[arc[t]] = None
         /\ pc[t] \in {"delete", "restore"} /\ pc'[t] \notin {"restore", "empty"} =>
              \/ pc'[t] = "abandoned"
              \/ pc'[t] = "unknown" /\ room' = room
              \/ token[room[t]] = t => token'[room[t]] = None
         /\ pc[t] = "restore" /\ state' # state =>
              \/ control[arc[t]] = t \/ pc'[t] = "abandoned" \/ arc[t] # rooms[room[t]]
    /\ t \in Writers \cup Owners /\ token' # token =>
         pc'[t] \in {"sweep", "unknown"} /\ room' = room
    /\ t \in Writers \cup Owners /\ pc[t] = "sweep" => pc'[t] = "unknown" /\ room' = room

(* Who empties a room looks after it; who gives up a reservation, or an    *)
(* eviction, leaves the room to somebody else.                             *)
AttendMoves(t, i) ==
    /\ state[i].members # {} /\ state'[i].members = {} =>
         \/ t \in Leaves /\ Evicting(t, i)'
         \/ t \in Deletes /\ arc[t] = i /\ pc[t] = "empty"
         \/ t \in Writers /\ arc[t] = i /\ pc[t] = "quarantine" /\ ~state[i].deleting
              /\ state'[i].deleting
         \/ t \in Owners /\ arc'[t] = i
         \/ t \in Drains /\ pc[t] = "clear"
         \/ t = i /\ pc[t] = "load"
    /\ t \in Joins /\ Reserved(t, i) /\ ~Reserved(t, i)' =>
         \/ state'[i].members # {} \/ rooms'[room[t]] = None
         \/ /\ control[i] = None /\ state'[i].deleting = state[i].deleting
            /\ \/ rooms[room[t]] # i \/ state[i].deleting \/ state[i].pending = 0
               \/ state'[i].pending # 0
    /\ t \in Leaves /\ Evicting(t, i) /\ ~Evicting(t, i)' =>
         \/ rooms'[room[t]] = None \/ pc'[t] = "abandoned"
         \/ control[i] = None /\ state' = state /\ ~Evictable(room[t], i, state[i])

(* A lock is taken for oneself. *)
ControlMoves(t) == \A i \in Joins : control'[i] \in {control[i], None, t}

LeftMoves(t) == ServeMoves(t) /\ SettleMoves(t) /\ \A i \in Joins : AttendMoves(t, i)

(* Steps of a join. *)
LEMMA JoinLeft ==
    ASSUME TypeOK, Placed, NEW t \in Joins, Join(t)
    PROVE  LeftMoves(t)
  <1> USE DEF registryVars, taskVars, mediaVars, Goto
  <1>0. /\ t \in Tasks /\ t \notin Deletes \cup Leaves \cup Writers \cup Owners \cup Drains
        /\ pc \in [Tasks -> Labels] /\ room \in [Tasks -> RoomIds \cup {None}]
    BY Disjoint DEF TypeOK
  <1>r. /\ routers \in [RoomIds -> Joins \cup {None}] /\ rooms \in [RoomIds -> Joins \cup {None}]
        /\ token \in [RoomIds -> Tasks \cup {None}]
    BY DEF TypeOK
  <1>s. /\ state \in [Joins -> RoomStates] /\ arc \in [Tasks -> Joins \cup {None}]
        /\ control \in [Joins -> Tasks \cup {None}]
    BY DEF TypeOK
  <1>p. pc[t] # "idle" => room[t] \in RoomIds
    BY DEF Placed
  <1>1. ServeMoves(t)
    <2>1. CASE JoinRegister(t) \/ JoinRollback(t) \/ JoinPublish(t)
      BY <1>0, <1>r, <1>p, <2>1 DEF ServeMoves, JoinRegister, JoinRollback, JoinPublish
    <2>2. CASE Teardown(t)
      BY <1>0, <1>r, <1>p, <2>2, Disjoint DEF ServeMoves, Teardown, Release
    <2>3. CASE pc[t] \notin {"publish", "teardown", "abandoned"} /\ routers' = routers
      BY <2>3 DEF ServeMoves
    <2> QED BY <2>1, <2>2, <2>3 DEF Join, JoinLookup, JoinReserve, JoinCreate, JoinLoad,
            JoinRoute, JoinSnapshot, JoinControl, JoinRefused, JoinInsert, DropCreation,
            DropRelease
  <1>2. SettleMoves(t)
    BY <1>0 DEF SettleMoves
  <1>3. ASSUME NEW i \in Joins
        PROVE  AttendMoves(t, i)
    <2>1. PICK s \in RoomStates : s = state[i]
      BY <1>s
    <2>2. CASE JoinReserve(t) \/ JoinPublish(t)
      <3>1. \/ state'[i] = s \/ state'[i] = [s EXCEPT !.pending = s.pending + 1]
            \/ state'[i] = [s EXCEPT !.pending = 1]
        BY <1>s, <2>1, <2>2 DEF JoinReserve, JoinPublish
      <3>2. state'[i].members = state[i].members
        BY <2>1, <3>1 DEF RoomStates
      <3>3. ~Reserved(t, i)
        BY <2>2 DEF JoinReserve, JoinPublish, Reserved
      <3> QED BY <1>0, <3>2, <3>3 DEF AttendMoves
    <2>3. CASE JoinLoad(t)
      <3>1. state'[i] = s \/ (t = i /\ pc[t] = "load")
        BY <1>s, <2>1, <2>3 DEF JoinLoad
      <3>2. ~Reserved(t, i)
        BY <2>3 DEF JoinLoad, Reserved
      <3> QED BY <1>0, <2>1, <3>1, <3>2 DEF AttendMoves
    <2>4. CASE JoinInsert(t)
      <3>1. \/ state'[i] = Seated(s, t)
            \/ state'[i] = s /\ (Reserved(t, i) => Reserved(t, i)')
        BY <1>0, <1>s, <2>1, <2>4 DEF JoinInsert, Reserved
      <3>2. t \in Seated(s, t).members
        BY OperatorMembers
      <3> QED BY <1>0, <2>1, <3>1, <3>2 DEF AttendMoves
    <2>5. CASE DropRelease(t)
      <3>0. arc[t] \in Joins /\ room[t] \in RoomIds
        BY <2>5 DEF DropRelease, Placed
      <3>1. CASE arc[t] # i
        BY <1>0, <1>s, <2>1, <2>5, <3>1 DEF DropRelease, Evict, AttendMoves, Reserved
      <3>2. CASE arc[t] = i /\ rooms'[room[t]] = None
        <4>1. state'[i] = Tombstoned(Unreserved(s)) \/ state'[i] = Unreserved(s)
          BY <1>s, <2>1, <2>5, <3>2 DEF DropRelease, Evict
        <4>2. PICK u \in RoomStates : u = Unreserved(s)
          BY RoomOperators
        <4>3. state'[i].members = s.members
          BY <2>1, <4>1, <4>2, OperatorMembers
        <4> QED BY <1>0, <2>1, <3>2, <4>3 DEF AttendMoves
      <3>3. CASE arc[t] = i /\ rooms'[room[t]] # None
        <4>1. /\ ~(s.pending # 0 /\ Evictable(room[t], i, Unreserved(s)))
              /\ state'[i] = Unreserved(s) /\ control[i] = None
          BY <1>r, <1>s, <2>1, <2>5, <3>0, <3>3 DEF DropRelease, Evict, ControlFree
        <4>2. state'[i].members = s.members /\ state'[i].deleting = s.deleting
          BY <2>1, <4>1, OperatorMembers, OperatorFields
        <4> QED BY <1>0, <2>1, <4>1, <4>2 DEF AttendMoves, Evictable
      <3> QED BY <3>1, <3>2, <3>3
    <2>6. CASE state' = state /\ (Reserved(t, i) => Reserved(t, i)')
      BY <1>0, <2>6 DEF AttendMoves
    <2> QED BY <1>0, <2>2, <2>3, <2>4, <2>5, <2>6 DEF Reserved, Join, JoinLookup,
               JoinCreate,
            JoinRoute, JoinRegister, JoinRollback, JoinSnapshot, JoinControl, JoinRefused,
            DropCreation, Teardown
  <1> QED BY <1>1, <1>2, <1>3 DEF LeftMoves

(* Steps of a leave. *)
LEMMA LeaveLeft ==
    ASSUME TypeOK, Placed, NEW t \in Leaves, Leave(t)
    PROVE  LeftMoves(t)
  <1> USE DEF registryVars, taskVars, mediaVars, Goto
  <1>0. /\ t \in Tasks /\ t \notin Deletes \cup Joins \cup Writers \cup Owners \cup Drains
        /\ pc \in [Tasks -> Labels] /\ room \in [Tasks -> RoomIds \cup {None}]
    BY Disjoint DEF TypeOK
  <1>r. /\ routers \in [RoomIds -> Joins \cup {None}] /\ rooms \in [RoomIds -> Joins \cup {None}]
        /\ token \in [RoomIds -> Tasks \cup {None}]
    BY DEF TypeOK
  <1>s. /\ state \in [Joins -> RoomStates] /\ arc \in [Tasks -> Joins \cup {None}]
        /\ control \in [Joins -> Tasks \cup {None}]
    BY DEF TypeOK
  <1>p. pc[t] # "idle" => room[t] \in RoomIds
    BY DEF Placed
  <1>1. ServeMoves(t)
    <2>1. CASE Teardown(t)
      BY <1>0, <1>r, <1>p, <2>1, Disjoint DEF ServeMoves, Teardown, Release
    <2>2. CASE pc[t] \notin {"teardown", "abandoned"} /\ routers' = routers
      BY <1>0, <2>2 DEF ServeMoves
    <2> QED BY <2>1, <2>2 DEF Leave, LeaveLookup, LeaveRemove, LeaveCreation, LeaveEvict
  <1>2. SettleMoves(t)
    BY <1>0 DEF SettleMoves
  <1>3. ASSUME NEW i \in Joins
        PROVE  AttendMoves(t, i)
    <2>1. PICK s \in RoomStates : s = state[i]
      BY <1>s
    <2>2. CASE LeaveRemove(t)
      <3>1. ~Evicting(t, i)
        BY <2>2 DEF LeaveRemove, Evicting
      <3>2. CASE arc[t] # i
        BY <1>0, <1>s, <2>2, <3>1, <3>2 DEF LeaveRemove, AttendMoves
      <3>3. CASE arc[t] = i
        <4>1. state'[i] = [s EXCEPT !.members = s.members \ {victim[t]}]
          BY <1>s, <2>1, <2>2, <3>3 DEF LeaveRemove
        <4>2. state'[i].members = s.members \ {victim[t]}
          BY <4>1, OperatorMembers
        <4>3. s.members # {} /\ state'[i].members = {} => victim[t] \in s.members
          BY <4>2
        <4>4. s.members # {} /\ state'[i].members = {} => Evicting(t, i)'
          BY <1>0, <1>s, <2>1, <2>2, <3>3, <4>2, <4>3 DEF LeaveRemove, Evicting
        <4> QED BY <1>0, <2>1, <3>1, <4>4 DEF AttendMoves
      <3> QED BY <3>2, <3>3
    <2>3. CASE LeaveEvict(t)
      <3>0. arc[t] \in Joins /\ room[t] \in RoomIds
        BY <2>3 DEF LeaveEvict, Placed
      <3>1. CASE /\ state' = [state EXCEPT ![arc[t]] = Tombstoned(state[arc[t]])]
                 /\ rooms'[room[t]] = None
        <4>1. state'[i] = s \/ state'[i] = Tombstoned(s)
          BY <1>s, <2>1, <3>0, <3>1
        <4>2. state'[i].members = s.members
          BY <4>1, OperatorMembers
        <4> QED BY <1>0, <2>1, <3>1, <4>2 DEF AttendMoves
      <3>2. CASE state' = state /\ ~Evictable(room[t], arc[t], state[arc[t]])
        BY <1>0, <2>3, <3>2 DEF LeaveEvict, AttendMoves, ControlFree, Evicting
      <3>3. CASE state' = state /\ pc'[t] = "abandoned"
        BY <1>0, <3>3 DEF AttendMoves
      <3> QED BY <1>0, <1>r, <2>3, <3>0, <3>1, <3>2, <3>3 DEF LeaveEvict, Evict
    <2>4. CASE state' = state /\ (Evicting(t, i) => Evicting(t, i)' \/ pc'[t] = "abandoned")
      BY <1>0, <2>4 DEF AttendMoves
    <2> QED BY <1>0, <2>2, <2>3, <2>4 DEF Evicting, Leave, LeaveLookup, LeaveCreation,
            WaitExpires, Teardown
  <1> QED BY <1>1, <1>2, <1>3 DEF LeftMoves

(* Steps of a creation, which touches none of it, and of a deletion. *)
LEMMA DeleteLeft ==
    ASSUME TypeOK, Placed, NEW t \in Creates \cup Deletes,
           (t \in Creates /\ Create(t)) \/ (t \in Deletes /\ Delete(t))
    PROVE  LeftMoves(t)
  <1> USE DEF registryVars, taskVars, mediaVars, Goto
  <1>0. /\ t \in Tasks /\ t \notin Joins \cup Leaves \cup Writers \cup Owners \cup Drains
        /\ pc \in [Tasks -> Labels] /\ room \in [Tasks -> RoomIds \cup {None}]
    BY TaskAssumption DEF TypeOK, Tasks
  <1>r. /\ routers \in [RoomIds -> Joins \cup {None}] /\ rooms \in [RoomIds -> Joins \cup {None}]
        /\ token \in [RoomIds -> Tasks \cup {None}]
    BY DEF TypeOK
  <1>s. /\ state \in [Joins -> RoomStates] /\ arc \in [Tasks -> Joins \cup {None}]
        /\ control \in [Joins -> Tasks \cup {None}]
    BY DEF TypeOK
  <1>p. pc[t] # "idle" => room[t] \in RoomIds
    BY DEF Placed
  <1>1. CASE t \in Creates /\ Create(t)
    <2>1. /\ state' = state /\ routers' = routers
          /\ pc[t] \in {"idle", "persist"} /\ pc'[t] \in {"persist", "done", "unknown"}
      BY <1>0, <1>1 DEF Create, CreateLock, CreateInsert
    <2> QED BY <1>0, <2>1, TaskAssumption DEF LeftMoves, ServeMoves, SettleMoves,
               AttendMoves
  <1>2. CASE t \in Deletes /\ Delete(t)
    <2>1. ServeMoves(t)
      <3>1. CASE Teardown(t)
        BY <1>0, <1>r, <1>p, <3>1, Disjoint DEF ServeMoves, Teardown, Release
      <3>2. CASE pc[t] \notin {"teardown", "abandoned"} /\ routers' = routers
        BY <1>0, <3>2 DEF ServeMoves
      <3> QED BY <1>2, <3>1, <3>2 DEF Delete, DeleteRead, DeleteLock, DeleteTombstone,
                 DeleteRow,
              DeleteRestore, DeleteEmpty
    <2>2. SettleMoves(t)
      <3>1. CASE DeleteRead(t) \/ DeleteLock(t) \/ DeleteTombstone(t)
        BY <1>0, <1>2, <3>1 DEF SettleMoves, DeleteRead, DeleteLock, DeleteTombstone
      <3>2. CASE DeleteRow(t)
        BY <1>0, <1>r, <1>p, <1>2, <3>2 DEF SettleMoves, DeleteRow, Release
      <3>3. CASE DeleteRestore(t)
        <4>0. pc[t] = "restore" /\ arc[t] \in Joins \cup {None} /\ room[t] \in RoomIds
          BY <1>0, <1>s, <1>p, <3>3 DEF DeleteRestore
        <4>1. pc'[t] = "restore" => control' = control \/ control'[arc[t]] = None
          BY <1>0, <1>s, <3>3, <4>0 DEF DeleteRestore, ControlDropped
        <4>2. pc'[t] # "restore" => (token[room[t]] = t => token'[room[t]] = None)
          BY <1>0, <1>r, <3>3, <4>0 DEF DeleteRestore, Release
        <4>3. state' # state =>
                \/ control[arc[t]] = t \/ pc'[t] = "abandoned" \/ arc[t] # rooms[room[t]]
          BY <1>0, <1>s, <3>3, <4>0 DEF DeleteRestore
        <4> QED BY <1>0, <1>2, <4>0, <4>1, <4>2, <4>3 DEF SettleMoves
      <3>4. CASE DeleteEmpty(t) \/ Teardown(t)
        BY <1>0, <1>2, <3>4, Disjoint DEF SettleMoves, DeleteEmpty, Teardown
      <3> QED BY <1>2, <3>1, <3>2, <3>3, <3>4 DEF Delete
    <2>3. ASSUME NEW i \in Joins
          PROVE  AttendMoves(t, i)
      <3>1. PICK s \in RoomStates : s = state[i]
        BY <1>s
      <3>2. CASE arc[t] = i /\ pc[t] = "empty"
        BY <1>0, <1>2, <3>2 DEF AttendMoves
      <3>3. CASE ~(arc[t] = i /\ pc[t] = "empty")
        <4>1. state'[i] = s \/ state'[i] = Tombstoned(s) \/ state'[i] = Restored(s)
          BY <1>s, <1>2, <3>1, <3>3 DEF Delete, DeleteRead, DeleteLock, DeleteTombstone,
             DeleteRow, DeleteRestore, DeleteEmpty, Teardown
        <4>2. state'[i].members = s.members
          BY <4>1, OperatorMembers
        <4> QED BY <1>0, <3>1, <4>2 DEF AttendMoves
      <3> QED BY <3>2, <3>3
    <2> QED BY <2>1, <2>2, <2>3 DEF LeftMoves
  <1> QED BY <1>1, <1>2

(* Steps of a policy write and of a drain. *)
LEMMA WriteLeft ==
    ASSUME TypeOK, Placed, NEW t \in Writers \cup Owners \cup Drains,
           \/ t \in Writers /\ (WriterLookup(t) \/ Write(t))
           \/ /\ t \in Owners
              /\ OwnerMark(t) \/ OwnerFind(t) \/ Write(t) \/ DormantCheck(t) \/ DormantWrite(t)
           \/ t \in Drains /\ Drain(t)
    PROVE  LeftMoves(t)
  <1> USE DEF registryVars, taskVars, mediaVars, Goto
  <1>0. /\ t \in Tasks /\ t \notin Joins \cup Leaves \cup Deletes
        /\ pc \in [Tasks -> Labels] /\ room \in [Tasks -> RoomIds \cup {None}]
        /\ routers \in [RoomIds -> Joins \cup {None}] /\ (Writers \cup Owners) \cap Drains = {}
    BY Disjoint DEF TypeOK
  <1>s. state \in [Joins -> RoomStates]
    BY DEF TypeOK
  <1>1. ServeMoves(t)
    BY <1>0 DEF ServeMoves, Write, WriterLookup, OwnerMark, OwnerFind, Admit, Persist,
       Announce,
       Quarantine, Sweep, DormantCheck, DormantWrite, Drain, DrainBegin, DrainMap, DrainRoom,
       DrainEnd
  <1>2. SettleMoves(t)
    <2>1. CASE t \in Drains
      BY <1>0, <2>1 DEF SettleMoves
    <2>2. CASE t \in Writers \cup Owners
      BY <1>0, <2>2 DEF SettleMoves, Write, WriterLookup, OwnerMark, OwnerFind, Admit,
         Persist,
         Announce, Quarantine, Sweep, DormantCheck, DormantWrite
    <2> QED BY <2>1, <2>2
  <1>3. ASSUME NEW i \in Joins, state[i].members # {}, state'[i].members = {}
        PROVE  \/ t \in Writers /\ arc[t] = i /\ pc[t] = "quarantine" /\ ~state[i].deleting
                    /\ state'[i].deleting
               \/ t \in Owners /\ arc'[t] = i
               \/ t \in Drains /\ pc[t] = "clear"
    <2>1. PICK s \in RoomStates : s = state[i]
      BY <1>s
    <2>2. CASE t \in Drains
      <3>1. DrainRoom(t)
        BY <1>0, <1>3, <2>2 DEF Drain, DrainBegin, DrainMap, DrainEnd
      <3> QED BY <2>2, <3>1 DEF DrainRoom
    <2>3. CASE Announce(t)
      <3>1. PICK gone \in SUBSET state[arc[t]].members :
              /\ t \in Writers => gone # state[arc[t]].members
              /\ state' = [state EXCEPT ![arc[t]] = Published(state[arc[t]], t, gone)]
        BY <2>3 DEF Announce
      <3>2. arc[t] = i /\ arc' = arc
        BY <1>3, <1>s, <2>3, <3>1 DEF Announce
      <3>3. state'[i] = Published(s, t, gone)
        BY <1>s, <2>1, <3>1, <3>2
      <3>4. state'[i].members = s.members \ gone
        BY <3>3, OperatorMembers
      <3> QED BY <1>0, <1>3, <2>1, <2>2, <3>1, <3>2, <3>4
    <2>4. CASE Quarantine(t)
      <3>1. /\ state' = [state EXCEPT ![arc[t]] = Emptied(state[arc[t]])]
            /\ ~state[arc[t]].deleting /\ pc[t] = "quarantine" /\ arc' = arc
        BY <1>3, <2>4 DEF Quarantine, MappedLive
      <3>2. arc[t] = i
        BY <1>3, <1>s, <3>1
      <3>3. state'[i] = Emptied(s)
        BY <1>s, <2>1, <3>1, <3>2
      <3>4. state'[i].deleting
        BY <3>3, OperatorFields
      <3> QED BY <1>0, <2>2, <3>1, <3>2, <3>4
    <2>5. CASE state' = state
      BY <1>3, <2>5
    <2> QED BY <1>0, <2>2, <2>3, <2>4, <2>5 DEF WriterLookup, Write, OwnerMark, OwnerFind,
               Admit,
            Persist, Sweep, DormantCheck, DormantWrite
  <1> QED BY <1>0, <1>1, <1>2, <1>3 DEF LeftMoves, AttendMoves

(* A step of a request other than recovery obeys the frame. *)
LEMMA StepLeft ==
    ASSUME TypeOK, Placed, NEW t \in Tasks \ {Recovery}, Step(t)
    PROVE  LeftMoves(t)
  BY JoinLeft, LeaveLeft, DeleteLeft, WriteLeft DEF Step

(* Nobody hands a control lock to somebody else. *)
LEMMA StepControl ==
    ASSUME TypeOK, NEW t \in Tasks \ {Recovery}, Step(t)
    PROVE  ControlMoves(t)
  <1> USE DEF lockVars
  <1>0. control \in [Joins -> Tasks \cup {None}]
    BY DEF TypeOK
  <1>1. CASE control' = control \/ control' = ControlDropped(t)
    BY <1>0, <1>1 DEF ControlDropped, ControlMoves
  <1>2. CASE \/ control' = [control EXCEPT ![arc[t]] = t]
             \/ control' = [control EXCEPT ![arc[t]] = None]
    BY <1>0, <1>2 DEF ControlMoves
  <1>3. CASE Join(t)
    BY <1>1, <1>2, <1>3 DEF Join, JoinLookup, JoinReserve, JoinCreate, JoinLoad, JoinRoute,
       JoinRegister, JoinRollback, JoinPublish, JoinSnapshot, JoinControl, JoinRefused,
       JoinInsert, DropCreation, DropRelease, Teardown
  <1>4. CASE Leave(t) \/ Create(t) \/ Drain(t)
    BY <1>1, <1>4 DEF Leave, LeaveLookup, LeaveRemove, LeaveCreation, LeaveEvict, Teardown,
       Create, CreateLock, CreateInsert, Drain, DrainBegin, DrainMap, DrainRoom, DrainEnd
  <1>5. CASE Delete(t)
    BY <1>1, <1>2, <1>5 DEF Delete, DeleteRead, DeleteLock, DeleteTombstone, DeleteRow,
       DeleteRestore, DeleteEmpty, Teardown
  <1>6. CASE \/ WriterLookup(t) \/ Write(t) \/ OwnerMark(t) \/ OwnerFind(t)
             \/ DormantCheck(t) \/ DormantWrite(t)
    BY <1>1, <1>2, <1>6 DEF Write, WriterLookup, OwnerMark, OwnerFind, Admit, Persist,
       Announce,
       Quarantine, Sweep, DormantCheck, DormantWrite
  <1> QED BY <1>3, <1>4, <1>5, <1>6 DEF Step

----------------------------------------------------------------------------
(* The invariant survives every step. *)

(* What was given up stays given up. *)
LEMMA GivenUpStays ==
    ASSUME NEW t \in Tasks, Frames(t), LeftMoves(t), NEW r, GivenUp(r)
    PROVE  GivenUp(r)'
  <1>1. PICK u \in Tasks : pc[u] = "abandoned" /\ room[u] = r
    BY DEF GivenUp
  <1>2. u # t
    BY <1>1 DEF LeftMoves, ServeMoves
  <1>3. pc'[u] = "abandoned" /\ room'[u] = r
    BY <1>1, <1>2 DEF Frames, OwnPlace
  <1> QED BY <1>3 DEF GivenUp

(* A task that gives up does so at its id. *)
LEMMA GivesUp ==
    ASSUME NEW t \in Tasks \ {Recovery}, Frames(t), NEW r, room[t] = r, pc[t] # "idle",
           pc'[t] = "abandoned"
    PROVE  GivenUp(r)'
  <1>1. room'[t] = r
    BY DEF Frames, OwnCustody, OwnArc
  <1> QED BY <1>1 DEF GivenUp

(* A room that leaves the map before a drain is torn down by the task that *)
(* took it out.                                                            *)
LEMMA UnmappedIsRemoved ==
    ASSUME EvictionInvariant, ~draining, NEW t \in Tasks \ {Recovery}, Step(t), Frames(t),
           NEW r \in RoomIds, rooms[r] # None, rooms'[r] = None
    PROVE  t \in Joins \cup Leaves \cup Deletes /\ Removing(t, r)'
  <1>0. /\ DrainFlagged /\ Homed /\ rooms \in [RoomIds -> Joins \cup {None}]
    BY DEF EvictionInvariant, PendingInvariant, SafetyInvariant, TypeOK
  <1>1. ~(t \in Drains /\ pc[t] = "lock")
    BY <1>0 DEF DrainFlagged
  <1>2. /\ t \in Joins \cup Leaves \cup Deletes /\ pc'[t] = "teardown" /\ rooms[r] = arc[t]
    BY <1>0, <1>1, UnmapStep
  <1>3. room[t] = r
    BY <1>0, <1>2 DEF Homed
  <1>4. room'[t] = room[t]
    BY <1>2 DEF Frames, OwnRegistry, ReleaseMoves
  <1> QED BY <1>2, <1>3, <1>4 DEF Removing

(* No router is left behind. *)
LEMMA ServingStep ==
    ASSUME EvictionInvariant, Custody, ~draining, NEW r \in RoomIds, Serving(r),
           NEW t \in Tasks \ {Recovery}, Step(t), Frames(t), LeftMoves(t)
    PROVE  Serving(r)' \/ GivenUp(r)'
  <1> USE DEF Frames
  <1>0. rooms \in [RoomIds -> Joins \cup {None}] /\ Equipped
    BY DEF EvictionInvariant, PendingInvariant, SafetyInvariant, TypeOK, Custody
  <1> SUFFICES ASSUME routers'[r] # None, ~GivenUp(r)'
               PROVE  \/ rooms'[r] = routers'[r]
                      \/ \E j \in Joins : pc'[j] = "publish" /\ room'[j] = r
                      \/ \E u \in Joins \cup Leaves \cup Deletes : Removing(u, r)'
    BY DEF Serving
  <1>1. CASE routers'[r] # routers[r]
    BY <1>1 DEF LeftMoves, ServeMoves
  <1>2. CASE routers'[r] = routers[r] /\ rooms[r] = routers[r]
    <2>1. CASE rooms'[r] = rooms[r]
      BY <1>2, <2>1
    <2>2. CASE rooms'[r] # rooms[r]
      <3>1. ~(t \in Joins /\ pc[t] = "publish" /\ r = room[t])
        BY <1>2, Disjoint, Standing DEF Building
      <3>2. rooms'[r] = None
        BY <2>2, <3>1 DEF OwnRooms
      <3> QED BY <1>2, <3>2, UnmappedIsRemoved
    <2> QED BY <2>1, <2>2
  <1>3. ASSUME routers'[r] = routers[r],
               NEW j \in Joins, pc[j] = "publish", room[j] = r
        PROVE  \/ rooms'[r] = routers'[r]
               \/ pc'[j] = "publish" /\ room'[j] = r
    <2>1. CASE j # t
      BY <1>3, <2>1, Disjoint DEF OwnPlace
    <2>2. CASE j = t
      <3>1. routers[r] = t
        BY <1>0, <1>3, <2>2 DEF Equipped
      <3>2. pc'[t] # "abandoned"
        BY <1>3, <2>2, GivesUp
      <3>3. rooms'[r] = t
        BY <1>3, <2>2, <3>2 DEF LeftMoves, ServeMoves
      <3> QED BY <1>3, <3>1, <3>3
    <2> QED BY <2>1, <2>2
  <1>4. ASSUME NEW u \in Joins \cup Leaves \cup Deletes, Removing(u, r)
        PROVE  Removing(u, r)'
    <2>1. u # t
      <3> SUFFICES ASSUME u = t PROVE FALSE
        OBVIOUS
      <3>1. pc'[t] # "abandoned"
        BY <1>4, GivesUp DEF Removing
      <3> QED BY <1>4, <3>1 DEF LeftMoves, ServeMoves, Removing
    <2> QED BY <1>4, <2>1, Disjoint DEF OwnPlace, Removing
  <1> QED BY <1>1, <1>2, <1>3, <1>4 DEF Serving

(* No reservation is left behind. *)
LEMMA OwedStep ==
    ASSUME EvictionInvariant, Custody, ~draining, NEW r \in RoomIds, Owed(r),
           NEW t \in Tasks \ {Recovery}, Step(t), Frames(t), LeftMoves(t), OwnPolicy(t)
    PROVE  Owed(r)' \/ GivenUp(r)'
  <1> USE DEF Frames
  <1>0. token \in [RoomIds -> Tasks \cup {None}]
    BY DEF EvictionInvariant, PendingInvariant, SafetyInvariant, TypeOK
  <1> SUFFICES ASSUME token'[r] # None, ~GivenUp(r)'
               PROVE  Owing(token[r], r)'
    BY DEF Owed
  <1>1. CASE token'[r] # token[r]
    <2>1. /\ r = room[t] /\ token'[r] = t
          /\ \/ t \in Joins \cup Leaves /\ rooms[r] = arc[t] /\ arc[t] \in Joins /\ rooms'[r] = None
             \/ t \in Deletes /\ pc[t] = "tombstone"
             \/ t \in Writers \cup Owners
      BY <1>1 DEF OwnRegistry, TokenMoves
    <2>2. CASE t \in Joins \cup Leaves /\ rooms[r] = arc[t] /\ arc[t] \in Joins /\ rooms'[r] = None
      BY <2>1, <2>2, Disjoint, UnmappedIsRemoved DEF Owing, Removing
    <2>3. CASE t \in Deletes /\ pc[t] = "tombstone"
      BY <1>1, <2>1, <2>3 DEF LeftMoves, SettleMoves, Owing
    <2>4. CASE t \in Writers \cup Owners
      BY <1>1, <2>1, <2>4 DEF LeftMoves, SettleMoves, Owing
    <2> QED BY <2>1, <2>2, <2>3, <2>4
  <1>2. CASE token'[r] = token[r]
    <2>1. PICK u \in Tasks : u = token[r] /\ Owing(u, r)
      BY <1>0, <1>2 DEF Owed
    <2>2. CASE u # t
      BY <1>2, <2>1, <2>2 DEF OwnPlace, Owing
    <2>a. u = t => pc[t] # "idle" /\ pc'[t] # "abandoned" /\ room[t] = r
      BY <2>1, GivesUp DEF Owing
    <2>3. CASE u = t /\ pc[t] = "teardown"
      <3>1. t \in Joins \cup Leaves \cup Deletes /\ room[t] = r
        BY <2>1, <2>3, Disjoint DEF Owing
      <3>2. token'[r] = None
        BY <2>1, <2>3, <2>a, <3>1 DEF LeftMoves, ServeMoves
      <3> QED BY <3>2
    <2>4. CASE u = t /\ t \in Deletes /\ pc[t] # "teardown"
      <3>1. room[t] = r /\ pc[t] \in {"delete", "restore", "empty"}
        BY <2>1, <2>4, Disjoint DEF Owing, OwnPolicy, DoubtMoves
      <3>2. CASE pc[t] = "empty"
        <4>1. pc'[t] = "teardown"
          BY <2>4, <2>a, <3>2 DEF LeftMoves, SettleMoves
        <4>2. room'[t] = r
          BY <2>4, <3>1, <4>1 DEF OwnRegistry, ReleaseMoves
        <4> QED BY <1>2, <2>1, <2>4, <4>1, <4>2 DEF Owing
      <3>3. CASE pc[t] # "empty" /\ pc'[t] = "unknown"
        BY <1>2, <2>1, <2>4, <2>a, <3>1, <3>3 DEF LeftMoves, SettleMoves, Owing
      <3>4. CASE pc[t] # "empty" /\ pc'[t] # "unknown"
        <4>1. pc'[t] \in {"restore", "empty"}
          BY <1>2, <2>1, <2>4, <2>a, <3>1, <3>4 DEF LeftMoves, SettleMoves
        <4>2. room'[t] = r
          BY <2>4, <3>1, <4>1 DEF OwnRegistry, DeletionMoves
        <4> QED BY <1>2, <2>1, <2>4, <4>1, <4>2 DEF Owing
      <3> QED BY <3>2, <3>3, <3>4
    <2>5. CASE u = t /\ t \in Writers \cup Owners
      <3>1. pc[t] = "sweep"
        BY <2>1, <2>5, Disjoint DEF Owing, OwnPolicy, DoubtMoves
      <3> QED BY <1>2, <2>1, <2>5, <2>a, <3>1 DEF LeftMoves, SettleMoves, Owing
    <2> QED BY <2>1, <2>2, <2>3, <2>4, <2>5 DEF Owing
  <1> QED BY <1>1, <1>2

(* A pending join is somebody's. *)
SomebodyPends == \A i \in Joins : state[i].pending # 0 <=> \E u \in Joins : Reserved(u, i)
LEMMA PendingIsReserved == PendingAccounting => SomebodyPends
  <1> SUFFICES ASSUME PendingAccounting, NEW i \in Joins
               PROVE  state[i].pending # 0 <=> \E u \in Joins : Reserved(u, i)
    BY DEF SomebodyPends
  <1>1. state[i].pending = Cardinality(Holders(i))
    BY DEF PendingAccounting, Holders
  <1>2. CASE Holders(i) = {}
    BY <1>1, <1>2, FS_EmptySet DEF Holders
  <1>3. CASE Holders(i) # {}
    <2>1. PICK u : u \in Holders(i)
      BY <1>3
    <2> QED BY <1>1, <2>1, HoldersFinite DEF Holders
  <1> QED BY <1>2, <1>3

(* A mapped room that is live, or may be restored, after a step was so     *)
(* before, or else a deletion has given up.                                *)
LEMMA LiftableBefore ==
    ASSUME EvictionInvariant, Custody, NEW t \in Tasks \ {Recovery}, Frames(t), LeftMoves(t),
           ControlMoves(t), NEW r \in RoomIds, NEW i \in Joins, rooms[r] = i,
           ~state'[i].deleting \/ Liftable(i)', ~GivenUp(r)'
    PROVE  ~state[i].deleting \/ Liftable(i)
  <1> USE DEF Frames
  <1>0. /\ Homed /\ Known /\ TokenTells /\ room[i] = r /\ ~Unpublished(i)
    BY DEF EvictionInvariant, PendingInvariant, Custody, Registry, Homed, Known
  <1>1. CASE ~state'[i].deleting /\ state[i].deleting
    <2>1. ~(t = i /\ pc[t] = "load")
      BY <1>0 DEF Unpublished, Early
    <2>2. t \in Deletes /\ pc[t] = "restore" /\ arc[t] = i /\ room[t] = r /\ state' # state
      BY <1>0, <1>1, <2>1 DEF OwnRegistry, StateMoves, Homed
    <2>3. pc'[t] # "abandoned"
      BY <2>2, GivesUp
    <2>4. control[i] = t
      BY <2>2, <2>3 DEF LeftMoves, SettleMoves
    <2> QED BY <2>2, <2>4 DEF Liftable
  <1>2. CASE Liftable(i)'
    <2>1. PICK d \in Deletes : arc'[d] = i /\ pc'[d] \in {"delete", "restore"} /\ control'[i] = d
      BY <1>2 DEF Liftable
    <2>2. CASE d # t
      <3>1. arc[d] = i /\ pc[d] = pc'[d] /\ d \in Tasks /\ d # None
        BY <2>1, <2>2, Disjoint DEF OwnPlace
      <3>2. control[i] = d
        BY <2>1, <2>2, <3>1 DEF ControlMoves
      <3> QED BY <2>1, <3>1, <3>2 DEF Liftable
    <2>3. CASE d = t /\ pc[t] = "tombstone"
      <3>1. arc[t] = i /\ token[room[t]] = None
        BY <2>1, <2>3 DEF OwnRegistry, DeletionMoves
      <3>2. room[t] = r
        BY <1>0, <3>1 DEF Homed
      <3> QED BY <1>0, <3>1, <3>2, Disjoint DEF TokenTells
    <2>4. CASE d = t /\ pc[t] # "tombstone"
      <3>1. pc[t] \in {"delete", "restore"} /\ pc'[t] = "restore" /\ arc[t] = i
        BY <2>1, <2>4 DEF OwnRegistry, DeletionMoves
      <3>2. control[i] = t
        BY <2>1, <2>4, <3>1, Disjoint DEF LeftMoves, SettleMoves
      <3> QED BY <2>1, <2>4, <3>1, <3>2 DEF Liftable
    <2> QED BY <2>2, <2>3, <2>4
  <1> QED BY <1>1, <1>2

(* No room is left behind: whoever gives up the last claim evicts it. *)
LEMMA InhabitedStep ==
    ASSUME EvictionInvariant, PendingAccounting', Custody, ~draining, NEW r \in RoomIds,
           Inhabited(r), NEW t \in Tasks \ {Recovery}, Step(t), Frames(t), LeftMoves(t),
           ControlMoves(t)
    PROVE  Inhabited(r)' \/ GivenUp(r)'
  <1> USE DEF Frames
  <1>0. /\ rooms \in [RoomIds -> Joins \cup {None}] /\ pc \in [Tasks -> Labels]
        /\ arc \in [Tasks -> Joins \cup {None}]
        /\ Homed /\ Known /\ Doomed /\ DrainFlagged /\ SomebodyPends
    BY PendingIsReserved DEF EvictionInvariant, PendingInvariant, SafetyInvariant, TypeOK
  <1> SUFFICES ASSUME NEW i \in Joins, rooms'[r] = i,
                      ~state'[i].deleting \/ Liftable(i)', ~GivenUp(r)'
               PROVE  \/ state'[i].members # {}
                      \/ \E u \in Joins : Reserved(u, i)'
                      \/ \E l \in Leaves : Evicting(l, i)'
                      \/ \E o \in Owners : arc'[o] = i
    <2>1. SUFFICES ASSUME rooms'[r] # None, ~state'[rooms'[r]].deleting \/ Liftable(rooms[r])',
                          ~GivenUp(r)'
                   PROVE  \/ state'[rooms'[r]].members # {}
                          \/ \E u \in Joins : Reserved(u, rooms[r])'
                          \/ \E l \in Leaves : Evicting(l, rooms[r])'
                          \/ \E o \in Owners : arc'[o] = rooms'[r]
      BY DEF Inhabited, Attended
    <2>2. rooms'[r] \in Joins
      BY <1>0, <2>1, Disjoint DEF OwnRooms
    <2> QED BY <2>1, <2>2 DEF Liftable, Reserved, Evicting
  <1>1. CASE rooms[r] # i
    <2>1. t \in Joins /\ pc[t] = "publish" /\ i = t /\ r = room[t]
      BY <1>1, Disjoint DEF OwnRooms
    <2>2. JoinPublish(t)
      BY <1>1, <2>1, TaskAssumption DEF Step, Join, JoinLookup, JoinReserve, JoinCreate,
         JoinLoad, JoinRoute, JoinRegister, JoinRollback, JoinSnapshot, JoinControl,
         JoinRefused, JoinInsert, DropCreation, DropRelease, Teardown, registryVars
    <2> QED BY <1>0, <2>1, <2>2, Disjoint DEF JoinPublish, Goto, Reserved
  <1>2. CASE rooms[r] = i
    <2>1. /\ room[i] = r /\ ~Unpublished(i) /\ rooms'[room[i]] # None
          /\ ~state[i].deleting \/ Liftable(i)
      BY <1>0, <1>2, Disjoint, LiftableBefore DEF Homed, Known
    <2>2. control[i] = None => ~state[i].deleting
      BY <2>1, Disjoint DEF Liftable
    <2>3. AttendMoves(t, i) /\ (arc[t] = i => room[t] = r)
      BY <1>0, <2>1 DEF LeftMoves, Homed
    <2>4. CASE state[i].members # {}
      <3>1. CASE t \in Deletes /\ arc[t] = i /\ pc[t] = "empty"
        <4>1. pc'[t] # "abandoned"
          BY <2>3, <3>1, GivesUp
        <4>2. pc'[t] = "teardown" /\ rooms[room[t]] = arc[t]
          BY <1>2, <2>3, <3>1, <4>1 DEF LeftMoves, SettleMoves
        <4>3. rooms'[room[t]] = None
          BY <3>1, <4>2 DEF OwnRegistry, ReleaseMoves
        <4> QED BY <2>1, <2>3, <3>1, <4>3
      <3>2. CASE t \in Writers /\ ~state[i].deleting /\ state'[i].deleting
        <4>1. PICK d \in Deletes : arc'[d] = i /\ pc'[d] \in {"delete", "restore"}
          BY <3>2 DEF Liftable
        <4>2. d # t /\ arc[d] = i /\ pc[d] = pc'[d]
          BY <3>2, <4>1, Disjoint DEF OwnPlace
        <4> QED BY <1>0, <3>2, <4>1, <4>2 DEF Doomed, Dooming
      <3>3. ~(t \in Drains /\ pc[t] = "clear") /\ ~(t = i /\ pc[t] = "load")
        BY <1>0, <2>1 DEF DrainFlagged, Unpublished, Early
      <3> QED BY <2>3, <2>4, <3>1, <3>2, <3>3 DEF AttendMoves
    <2>5. ASSUME NEW u \in Joins, Reserved(u, i)
          PROVE  state'[i].members # {} \/ \E v \in Joins : Reserved(v, i)'
      <3>1. CASE u # t
        BY <2>5, <3>1, Disjoint DEF OwnPlace, Reserved
      <3>2. CASE u = t
        <4>1. room[t] = r /\ state[i].pending # 0
          BY <1>0, <2>3, <2>5, <3>2 DEF SomebodyPends, Reserved
        <4>2. \/ Reserved(t, i)' \/ state'[i].members # {}
              \/ state'[i].pending # 0
          BY <1>2, <2>1, <2>2, <2>3, <2>5, <3>2, <4>1 DEF AttendMoves
        <4>3. state'[i].pending # 0 => \E v \in Joins : Reserved(v, i)'
          <5>1. SomebodyPends'
            BY PendingIsReserved, PTL
          <5> QED BY <5>1 DEF SomebodyPends
        <4> QED BY <2>5, <3>2, <4>2, <4>3
      <3> QED BY <3>1, <3>2
    <2>6. ASSUME NEW l \in Leaves, Evicting(l, i)
          PROVE  \/ state'[i].members # {} \/ Evicting(l, i)'
                 \/ \E v \in Joins : Reserved(v, i)'
      <3>1. CASE l # t
        BY <2>6, <3>1, Disjoint DEF OwnPlace, Evicting
      <3>2. CASE l = t /\ ~Evicting(t, i)'
        <4>0. pc'[t] # "abandoned"
          BY <2>3, <2>6, <3>2, GivesUp DEF Evicting
        <4>1. control[i] = None /\ state' = state /\ ~Evictable(room[t], i, state[i])
          BY <2>1, <2>3, <2>6, <3>2, <4>0 DEF AttendMoves, Evicting
        <4>2. state[i].pending # 0 \/ state[i].members # {}
          BY <1>2, <2>2, <2>3, <2>6, <3>2, <4>1 DEF Evictable, Evicting
        <4>3. ASSUME state[i].pending # 0
              PROVE  \E v \in Joins : Reserved(v, i)'
          BY <1>0, <2>5, <3>2, <4>3, Disjoint DEF SomebodyPends, OwnPlace, Reserved
        <4> QED BY <4>1, <4>2, <4>3
      <3> QED BY <3>1, <3>2
    <2>7. ASSUME NEW o \in Owners, arc[o] = i
          PROVE  arc'[o] = i
      <3>1. CASE o # t
        BY <2>7, <3>1, Disjoint DEF OwnPlace
      <3>2. CASE o = t
        <4>1. room[t] = r /\ pc[t] # "idle"
          BY <1>0, <2>3, <2>7, <3>2, Disjoint DEF Homed
        <4>2. room'[t] = r
          BY <4>1, Disjoint DEF OwnCustody, OwnArc
        <4> QED BY <1>2, <2>7, <3>2, <4>1, <4>2, Disjoint DEF OwnCustody, OwnArc
      <3> QED BY <3>1, <3>2
    <2>8. \/ state[i].members # {} \/ (\E u \in Joins : Reserved(u, i))
          \/ (\E l \in Leaves : Evicting(l, i)) \/ \E o \in Owners : arc[o] = i
      BY <1>2, <2>1, Disjoint DEF Inhabited, Attended
    <2> QED BY <2>4, <2>5, <2>6, <2>7, <2>8
  <1> QED BY <1>1, <1>2

(* When all tasks have ended, before a drain and until a worker dies,      *)
(* nothing is left over at an id where no cleanup was given up: every live *)
(* room has a member (or a REST update removed its last one), every router *)
(* serves a mapped room, and an id is only reserved by an update that has  *)
(* quarantined it or a deletion whose outcome was lost.  Any number of     *)
(* joins, departures, deletions and updates may have run.                  *)
THEOREM NothingIsLeaked == Spec => []NothingLeaks
  <1>1. Init => TidyInvariant
    <2> SUFFICES ASSUME Init PROVE Tidy
      BY DEF TidyInvariant
    <2>1. \A r \in RoomIds : rooms[r] = None /\ token[r] = None /\ routers[r] = None
      BY DEF Init
    <2> QED BY <2>1 DEF Tidy, Inhabited, Serving, Owed
  <1>2. EvictionInvariant /\ EvictionInvariant' /\ CustodyInvariant /\ TidyInvariant
            /\ [Next]_vars
          => TidyInvariant'
    <2> SUFFICES ASSUME EvictionInvariant, EvictionInvariant', CustodyInvariant,
                        TidyInvariant, [Next]_vars, Healthy', ~draining'
                 PROVE  Tidy'
      BY DEF TidyInvariant
    <2>0. /\ Healthy /\ Custody /\ PendingAccounting' /\ SafetyInvariant /\ TypeOK /\ Placed
      <3>1. SafetyInvariant /\ TypeOK /\ Placed
        BY DEF EvictionInvariant, PendingInvariant, SafetyInvariant
      <3> QED BY <3>1, HealthyBefore DEF CustodyInvariant, EvictionInvariant,
                 PendingInvariant
    <2>1. ASSUME NEW t \in Tasks, Step(t)
          PROVE  Tidy'
      <3>1. t \in Tasks \ {Recovery} /\ Frames(t)
        BY <2>0, <2>1, StepsWhileHealthy
      <3>2. ~draining /\ Tidy
        BY <2>0, <3>1 DEF Frames, OwnRooms, TidyInvariant
      <3>3. LeftMoves(t) /\ ControlMoves(t) /\ OwnPolicy(t)
        BY <2>0, <2>1, <3>1, StepLeft, StepControl, StepPolicy
      <3> SUFFICES ASSUME NEW r \in RoomIds, ~GivenUp(r)'
                   PROVE  Inhabited(r)' /\ Serving(r)' /\ Owed(r)'
        BY DEF Tidy
      <3>4. Inhabited(r) /\ Serving(r) /\ Owed(r)
        BY <2>1, <3>1, <3>2, <3>3, GivenUpStays DEF Tidy
      <3>5. Serving(r)'
        BY <2>0, <2>1, <3>1, <3>2, <3>3, <3>4, ServingStep
      <3>6. Owed(r)'
        BY <2>0, <2>1, <3>1, <3>2, <3>3, <3>4, OwedStep
      <3>7. Inhabited(r)'
        BY <2>0, <2>1, <3>1, <3>2, <3>3, <3>4, InhabitedStep
      <3> QED BY <3>5, <3>6, <3>7
    <2>2. ASSUME UNCHANGED <<draining, pc, room, arc, rooms, token, state, control, routers>>
          PROVE  Tidy'
      <3>1. Tidy
        BY <2>0, <2>2 DEF TidyInvariant
      <3> QED BY <2>2, <3>1 DEF Tidy, GivenUp, Inhabited, Attended, Serving, Owed, Liftable,
              Reserved, Evicting, Removing, Owing
    <2>3. ASSUME (\E t \in Tasks : Settle(t)) \/ (\E w \in Workers : WorkerDies(w))
                    \/ UNCHANGED vars
          PROVE  UNCHANGED <<draining, pc, room, arc, rooms, token, state, control, routers>>
      BY <2>3 DEF Settle, WorkerDies, vars, registryVars, lockVars, mediaVars, taskVars,
         processVars, restVars
    <2> QED BY <2>1, <2>2, <2>3 DEF Next, Terminated
  <1>3. EvictionInvariant /\ TidyInvariant => NothingLeaks
    <2> SUFFICES ASSUME EvictionInvariant, Tidy, Quiet, NEW r \in RoomIds, ~GivenUp(r)
                 PROVE  /\ rooms[r] # None /\ ~state[rooms[r]].deleting =>
                             \/ state[rooms[r]].members # {}
                             \/ \E o \in Owners : arc[o] = rooms[r]
                        /\ routers[r] # None => rooms[r] = routers[r]
                        /\ token[r] # None => pc[token[r]] = "unknown"
      BY DEF TidyInvariant, NothingLeaks, GivenUp
    <2>1. \A t \in Tasks : pc[t] \in {"idle", "done", "unknown", "abandoned", "revived"}
      BY DEF Quiet, Finished, Ended
    <2>2. token[r] \in Tasks \cup {None}
      BY DEF EvictionInvariant, PendingInvariant, SafetyInvariant, TypeOK
    <2>3. Inhabited(r) /\ Serving(r) /\ Owed(r)
      BY DEF Tidy
    <2>4. token[r] # None => pc[token[r]] = "unknown"
      BY <2>1, <2>2, <2>3 DEF Owed, Owing
    <2>5. routers[r] # None => rooms[r] = routers[r]
      BY <2>1, <2>3, Disjoint DEF Serving, Removing
    <2> QED BY <2>1, <2>3, <2>4, <2>5, Disjoint DEF Inhabited, Attended, Reserved, Evicting
  <1> QED BY <1>1, <1>2, <1>3, EvictionHolds, CustodyHolds, PTL DEF Spec

----------------------------------------------------------------------------
(* Recovery closes only rooms of the worker that died. *)

(* A router that is registered where a room is mapped, or about to be, is   *)
(* that room's own, dead workers or not.                                    *)
Matched ==
    /\ \A r \in RoomIds : rooms[r] # None /\ routers[r] # None => routers[r] = rooms[r]
    /\ \A t \in Joins : pc[t] = "publish" => routers[room[t]] \in {None, t}

(* The room recovery is about to close was made on the worker that died. *)
Listed == pc[Recovery] \in {"lock", "close", "teardown"} => room[Recovery] \in RoomIds
Aimed == pc[Recovery] = "close" => host[arc[Recovery]] = failed

AimInvariant == Matched /\ Listed /\ Aimed

(* Routers are registered before their rooms are published and never moved. *)
HostMoves(t) ==
    /\ \A r \in RoomIds : routers'[r] # routers[r] =>
         \/ routers'[r] = None
         \/ t \in Joins /\ pc[t] = "register" /\ r = room[t] /\ routers'[r] = t
    /\ t \in Joins /\ pc'[t] = "publish" =>
         pc[t] = "register" /\ room'[t] = room[t] /\ routers'[room[t]] = t
    /\ t \in Joins /\ pc[t] \in {"register", "publish"} => rooms' = rooms \/ routers' = routers
    /\ t \in Joins /\ pc[t] = "register" => rooms' = rooms
    /\ \A i \in Joins : host'[i] # host[i] => t = i /\ pc[t] = "route"
    /\ failed' # failed => t = Recovery /\ pc'[t] = "replace"

(* Steps of a join. *)
LEMMA JoinHosts ==
    ASSUME TypeOK, Placed, NEW t \in Joins, Join(t)
    PROVE  HostMoves(t)
  <1> USE DEF registryVars, taskVars, mediaVars, restVars, processVars, Goto
  <1>0. /\ t \in Tasks /\ t # Recovery /\ pc \in [Tasks -> Labels]
        /\ routers \in [RoomIds -> Joins \cup {None}]
        /\ host \in [Joins -> Workers \cup {None}]
        /\ pc[t] # "idle" => room[t] \in RoomIds
    BY Kinds DEF TypeOK, Placed
  <1>1. CASE JoinRoute(t)
    BY <1>0, <1>1 DEF JoinRoute, HostMoves
  <1>2. CASE JoinRegister(t)
    BY <1>0, <1>2 DEF JoinRegister, HostMoves
  <1>3. CASE JoinRollback(t)
    BY <1>0, <1>3 DEF JoinRollback, HostMoves
  <1>4. CASE Teardown(t)
    BY <1>0, <1>4 DEF Teardown, HostMoves
  <1>5. CASE UNCHANGED <<routers, host, failed>> /\ pc[t] # "register" /\ pc'[t] # "publish"
    BY <1>5 DEF HostMoves
  <1>6. CASE JoinLookup(t) \/ JoinReserve(t) \/ JoinCreate(t) \/ JoinLoad(t)
    BY <1>0, <1>5, <1>6 DEF JoinLookup, JoinReserve, JoinCreate, JoinLoad
  <1>7. CASE JoinPublish(t) \/ JoinSnapshot(t) \/ JoinControl(t) \/ JoinRefused(t)
    BY <1>0, <1>5, <1>7 DEF JoinPublish, JoinSnapshot, JoinControl, JoinRefused
  <1>8. CASE JoinInsert(t) \/ DropCreation(t) \/ DropRelease(t)
    BY <1>0, <1>5, <1>8 DEF JoinInsert, DropCreation, DropRelease
  <1> QED BY <1>1, <1>2, <1>3, <1>4, <1>6, <1>7, <1>8 DEF Join

(* Steps of the others, which register nothing. *)
LEMMA OtherHosts ==
    ASSUME TypeOK, Placed, NEW t \in Tasks \ Joins, Step(t)
    PROVE  HostMoves(t)
  <1> USE DEF registryVars, taskVars, mediaVars, restVars, processVars, localVars, Goto
  <1>0. routers \in [RoomIds -> Joins \cup {None}] /\ pc \in [Tasks -> Labels]
    BY DEF TypeOK
  <1>1. CASE UNCHANGED <<routers, host, failed>>
    BY <1>1 DEF HostMoves
  <1>2. CASE Teardown(t)
    BY <1>0, <1>2 DEF Teardown, HostMoves
  <1>3. CASE Leave(t)
    BY <1>1, <1>2, <1>3 DEF Leave, LeaveLookup, LeaveRemove, LeaveCreation, LeaveEvict
  <1>4. CASE Create(t)
    BY <1>1, <1>4 DEF Create, CreateLock, CreateInsert
  <1>5. CASE Delete(t)
    BY <1>1, <1>2, <1>5 DEF Delete, DeleteRead, DeleteLock, DeleteTombstone, DeleteRow,
       DeleteRestore, DeleteEmpty
  <1>6. CASE Sweep(t)
    BY <1>0, <1>6 DEF Sweep, HostMoves
  <1>7. CASE Write(t)
    BY <1>1, <1>6, <1>7 DEF Write, Admit, Persist, Announce, Quarantine
  <1>8. CASE WriterLookup(t) \/ OwnerMark(t) \/ OwnerFind(t) \/ DormantCheck(t)
               \/ DormantWrite(t)
    BY <1>1, <1>8 DEF WriterLookup, OwnerMark, OwnerFind, DormantCheck, DormantWrite
  <1>9. CASE Drain(t)
    BY <1>1, <1>9 DEF Drain, DrainBegin, DrainMap, DrainRoom, DrainEnd
  <1>10. CASE t = Recovery /\ RecoverSnapshot(t)
    BY <1>0, <1>10 DEF RecoverSnapshot, HostMoves
  <1>11. CASE t = Recovery /\ Recover(t)
    BY <1>1, <1>2, <1>10, <1>11 DEF Recover, RecoverReplace, RecoverNext, RecoverLock,
       RecoverClose
  <1> QED BY <1>3, <1>4, <1>5, <1>7, <1>8, <1>9, <1>11 DEF Step

(* Every step keeps rooms and routers matched. *)
LEMMA MatchedStep ==
    ASSUME SafetyInvariant, Matched, NEW t \in Tasks, Step(t), HostMoves(t)
    PROVE  Matched'
  <1>0. /\ OwnPlace(t) /\ OwnRooms(t) /\ CreationExclusive /\ BuildsAlone
    BY StepFrames DEF SafetyInvariant
  <1>1. ASSUME NEW r \in RoomIds, rooms'[r] # None, routers'[r] # None
        PROVE  routers'[r] = rooms'[r]
    <2>1. CASE rooms'[r] # rooms[r]
      <3>1. t \in Joins /\ pc[t] = "publish" /\ r = room[t] /\ rooms'[r] = t
        BY <1>0, <1>1, <2>1 DEF OwnRooms
      <3>2. routers' = routers
        BY <2>1, <3>1 DEF HostMoves
      <3> QED BY <1>1, <3>1, <3>2 DEF Matched
    <2>2. CASE rooms'[r] = rooms[r] /\ routers'[r] # routers[r]
      <3>1. t \in Joins /\ pc[t] = "register" /\ r = room[t]
        BY <1>1, <2>2 DEF HostMoves
      <3> QED BY <1>0, <1>1, <2>2, <3>1 DEF BuildsAlone, Building
    <2>3. CASE rooms'[r] = rooms[r] /\ routers'[r] = routers[r]
      BY <1>1, <2>3 DEF Matched
    <2> QED BY <2>1, <2>2, <2>3
  <1>2. ASSUME NEW u \in Joins, pc'[u] = "publish"
        PROVE  routers'[room'[u]] \in {None, u}
    <2>1. CASE u = t
      BY <1>2, <2>1 DEF HostMoves
    <2>2. CASE u # t
      <3>1. pc[u] = "publish" /\ room'[u] = room[u] /\ u \in Tasks
        BY <1>0, <1>2, <2>2, Kinds DEF OwnPlace
      <3>2. room[u] \in RoomIds
        BY <3>1 DEF SafetyInvariant, Placed
      <3>3. ~(t \in Joins /\ pc[t] = "register")
        BY <1>0, <2>2, <3>1 DEF CreationExclusive, UnderCreation
      <3>4. routers'[room[u]] \in {None, routers[room[u]]}
        BY <3>2, <3>3 DEF HostMoves
      <3> QED BY <1>2, <3>1, <3>4 DEF Matched
    <2> QED BY <2>1, <2>2
  <1> QED BY <1>1, <1>2 DEF Matched

(* Recovery works on the ids of its snapshot. *)
LEMMA ListedStep ==
    ASSUME SafetyInvariant, Listed, NEW t \in Tasks, Step(t)
    PROVE  Listed'
  <1>0. /\ OwnPlace(t) /\ pc \in [Tasks -> Labels] /\ Recovery \in Tasks
        /\ affected \subseteq RoomIds /\ room \in [Tasks -> RoomIds \cup {None}]
    BY StepFrames, Kinds DEF SafetyInvariant, TypeOK
  <1>1. CASE t = Recovery
    <2>1. Recover(t)
      BY <1>1, Kinds DEF Step
    <2> QED BY <1>0, <1>1, <2>1 DEF Recover, RecoverSnapshot, RecoverReplace, RecoverNext,
            RecoverLock, RecoverClose, Teardown, Goto, taskVars, Listed
  <1>2. CASE t # Recovery
    BY <1>0, <1>2 DEF OwnPlace, Listed
  <1> QED BY <1>1, <1>2

(* Every step keeps recovery aimed. *)
LEMMA AimedStep ==
    ASSUME SafetyInvariant, Known, AimInvariant, NEW t \in Tasks, Step(t), HostMoves(t),
           pc'[Recovery] = "close"
    PROVE  host'[arc'[Recovery]] = failed'
  <1>0. OwnPlace(t) /\ Placed /\ pc \in [Tasks -> Labels] /\ Recovery \in Tasks
          /\ Recovery \notin Joins
    BY StepFrames, Kinds DEF SafetyInvariant, TypeOK
  <1>1. CASE t = Recovery
    <2>1. Recover(t)
      BY <1>1, Kinds DEF Step
    <2>2. RecoverLock(t)
      BY <1>0, <1>1, <2>1 DEF Recover, RecoverSnapshot, RecoverReplace, RecoverNext,
         RecoverClose, Teardown, Goto
    <2>3. StillAffected(room[t], arc[t]) /\ UNCHANGED <<arc, host, failed>>
      BY <1>0, <1>1, <2>2 DEF RecoverLock, Goto, taskVars, mediaVars, restVars, processVars
    <2>4. arc[t] \in Joins /\ None \notin Joins
      BY <1>0, <1>1, <2>2, Disjoint DEF RecoverLock, Placed
    <2>5. room[t] \in RoomIds
      BY <1>1, <2>2 DEF RecoverLock, AimInvariant, Listed
    <2>6. routers[room[t]] = arc[t]
      BY <2>3, <2>4, <2>5 DEF StillAffected, AimInvariant, Matched
    <2> QED BY <1>1, <2>3, <2>6 DEF StillAffected
  <1>2. CASE t # Recovery
    <2>1. pc[Recovery] = "close" /\ arc'[Recovery] = arc[Recovery] /\ arc[Recovery] \in Joins
      BY <1>0, <1>2 DEF OwnPlace, Placed
    <2>2. host'[arc[Recovery]] = host[arc[Recovery]]
      BY <1>0, <2>1 DEF HostMoves, Known, Unpublished, Early
    <2>3. failed' = failed
      BY <1>2 DEF HostMoves
    <2> QED BY <2>1, <2>2, <2>3 DEF AimInvariant, Aimed
  <1> QED BY <1>1, <1>2

(* Recovery never closes a room whose router is on another worker, with     *)
(* any number of deaths, deletions, evictions and joins: also not one that  *)
(* took the id after the snapshot (close_room_for_rejoin).                  *)
THEOREM RecoveriesSpareOthers == Spec => RecoverySparesOthers
  <1>1. Init => AimInvariant
    <2> SUFFICES ASSUME Init PROVE AimInvariant
      OBVIOUS
    <2>1. \A t \in Tasks : pc[t] = "idle"
      BY DEF Init
    <2>2. \A r \in RoomIds : rooms[r] = None
      BY DEF Init
    <2> QED BY <2>1, <2>2, Kinds DEF AimInvariant, Matched, Listed, Aimed
  <1>2. PendingInvariant /\ AimInvariant /\ [Next]_vars => AimInvariant'
    <2> SUFFICES ASSUME PendingInvariant, AimInvariant, [Next]_vars
                 PROVE  AimInvariant'
      OBVIOUS
    <2>1. ASSUME NEW t \in Tasks, Step(t)
          PROVE  AimInvariant'
      <3>1. SafetyInvariant /\ Known
        BY DEF PendingInvariant
      <3>2. HostMoves(t)
        BY <2>1, <3>1, JoinHosts, OtherHosts, Kinds DEF SafetyInvariant, Step
      <3>3. Matched' /\ Listed'
        BY <2>1, <3>1, <3>2, MatchedStep, ListedStep DEF AimInvariant
      <3>4. Aimed'
        BY <2>1, <3>1, <3>2, AimedStep DEF Aimed
      <3> QED BY <3>3, <3>4 DEF AimInvariant
    <2>2. ASSUME UNCHANGED <<pc, room, arc, rooms, routers, host, failed>>
          PROVE  AimInvariant'
      BY <2>2 DEF AimInvariant, Matched, Listed, Aimed
    <2>3. ASSUME (\E t \in Tasks : Settle(t)) \/ (\E w \in Workers : WorkerDies(w))
                    \/ UNCHANGED vars
          PROVE  UNCHANGED <<pc, room, arc, rooms, routers, host, failed>>
      BY <2>3 DEF Settle, WorkerDies, vars, registryVars, taskVars, mediaVars, restVars,
         processVars
    <2> QED BY <2>1, <2>2, <2>3 DEF Next, Terminated
  <1>3. PendingInvariant /\ AimInvariant /\ [Next]_vars
          => [\A r \in RoomIds :
                /\ pc[Recovery] = "close" /\ pc'[Recovery] = "teardown"
                /\ rooms[r] # None /\ rooms'[r] = None
                => host[rooms[r]] = failed]_vars
    <2> SUFFICES ASSUME PendingInvariant, AimInvariant, Next, NEW r \in RoomIds,
                        pc[Recovery] = "close", pc'[Recovery] = "teardown",
                        rooms[r] # None, rooms'[r] = None
                 PROVE  host[rooms[r]] = failed
      OBVIOUS
    <2>0. rooms \in [RoomIds -> Joins \cup {None}] /\ room[Recovery] \in RoomIds
            /\ Recovery \in Tasks
      BY Kinds DEF PendingInvariant, SafetyInvariant, TypeOK, AimInvariant, Listed
    <2>1. PICK t \in Tasks : Step(t)
      BY DEF Next, Terminated, Settle, WorkerDies, vars
    <2>2. t = Recovery
      BY <2>0, <2>1, StepFrames DEF PendingInvariant, SafetyInvariant, OwnPlace
    <2>3. Recover(t)
      BY <2>1, <2>2, Kinds DEF Step
    <2>4. RecoverClose(t)
      BY <2>2, <2>3 DEF Recover, RecoverSnapshot, RecoverReplace, RecoverNext, RecoverLock,
         Teardown
    <2>5. r = room[Recovery] /\ rooms[r] = arc[Recovery]
      BY <2>0, <2>2, <2>4 DEF RecoverClose
    <2> QED BY <2>5 DEF AimInvariant, Aimed
  <1>4. Spec => []PendingInvariant
    BY PendingInit, PendingInductive, PTL DEF Spec
  <1>5. Spec => []AimInvariant
    BY <1>1, <1>2, <1>4, PTL DEF Spec
  <1> QED BY <1>3, <1>4, <1>5, PTL DEF Spec, RecoverySparesOthers
=============================================================================
