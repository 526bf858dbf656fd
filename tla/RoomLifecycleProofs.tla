------------------------ MODULE RoomLifecycleProofs ------------------------
(***************************************************************************)
(* Proofs about RoomLifecycle, for every set of requests, rooms and        *)
(* workers: types, the two locks, the cap on live rooms, the publication   *)
(* of committed policies and the accounting of pending joins.              *)
(***************************************************************************)
EXTENDS RoomLifecycle, FiniteSetTheorems, TLAPS

----------------------------------------------------------------------------
(* The inductive invariant. *)

(* A task past its lookup has a room, and one that works on a runtime has  *)
(* its Arc.                                                                *)
Placed ==
    /\ \A t \in Joins \cup Leaves \cup Creates \cup Deletes \cup Writers \cup Owners :
         pc[t] # "idle" => room[t] \in RoomIds
    /\ \A t \in Joins :
         pc[t] \in {"reserve", "snapshot", "control", "insert", "drop", "release", "teardown"}
           => arc[t] \in Joins
    /\ \A t \in Leaves :
         pc[t] \in {"remove", "evict", "recheck", "teardown"} => arc[t] \in Joins
    /\ \A t \in Writers \cup Owners :
         pc[t] \in {"admit", "persist", "announce", "quarantine", "sweep"} => arc[t] \in Joins
    /\ \A t \in Deletes : pc[t] = "empty" => arc[t] \in Joins
    /\ pc[Recovery] \in {"lock", "close", "teardown"} => arc[Recovery] \in Joins

(* The steps taken under room_creation_lock. *)
UnderCreation(t) ==
    \/ t \in Joins /\ pc[t] \in {"load", "route", "register", "publish", "release"}
    \/ t \in Leaves /\ pc[t] = "recheck"
    \/ t \in Creates /\ pc[t] = "persist"
    \/ t \in Deletes /\ pc[t] \in {"tombstone", "delete"}
    \/ t = Recovery /\ pc[t] = "close"
    \/ t \in Drains /\ pc[t] = "clear"

(* The steps taken under the control lock of the task's room. *)
UnderControl(t) ==
    \/ t \in Joins /\ pc[t] = "insert"
    \/ t \in Deletes /\ pc[t] \in {"delete", "empty"} /\ arc[t] # None
    \/ t \in Writers \cup Owners /\ pc[t] \in {"persist", "announce", "quarantine"}

(* Mutual exclusion: whoever is in such a step is the lock's one holder. *)
CreationExclusive == \A t \in Tasks : UnderCreation(t) => creation = t
ControlExclusive == \A t \in Tasks : UnderControl(t) => control[arc[t]] = t

(* A join that is building a room has the id to itself, below the cap. *)
Building(t) == pc[t] \in {"load", "route", "register", "publish"}
BuildsAlone == \A t \in Joins : Building(t) => rooms[room[t]] = None /\ ~AtCapacity

(* A drain past its first step has raised the flag. *)
DrainFlagged == \A t \in Drains : pc[t] # "idle" => draining

----------------------------------------------------------------------------
(* Operators on rooms and rows. *)

(* Replacing one field of a Room by a value of its type gives a Room. *)
LEMMA RoomFields ==
    ASSUME NEW s \in RoomStates
    PROVE  /\ s.deleting \in BOOLEAN /\ s.pending \in Nat /\ s.members \in SUBSET Joins
           /\ s.revision \in Nat /\ s.gen \in Creates \cup {Seed, None}
           /\ s.policy \in Creates \cup Writers \cup Owners \cup {Seed, None}
           /\ \A b \in BOOLEAN : [s EXCEPT !.deleting = b] \in RoomStates
           /\ \A n \in Nat : [s EXCEPT !.pending = n] \in RoomStates
           /\ \A n \in Nat : [s EXCEPT !.revision = n] \in RoomStates
           /\ \A m \in SUBSET Joins : [s EXCEPT !.members = m] \in RoomStates
           /\ \A p \in Creates \cup Writers \cup Owners \cup {Seed, None} :
                [s EXCEPT !.policy = p] \in RoomStates
  BY DEF RoomStates

(* The operators the handlers apply to a Room give a Room: in particular   *)
(* pending_joins never falls below zero.                                   *)
LEMMA RoomOperators ==
    ASSUME NEW s \in RoomStates
    PROVE  /\ Tombstoned(s) \in RoomStates
           /\ Emptied(s) \in RoomStates
           /\ Restored(s) \in RoomStates
           /\ Unreserved(s) \in RoomStates
           /\ [s EXCEPT !.deleting = TRUE, !.members = {}] \in RoomStates
  <1>1. s.revision + 1 \in Nat
    BY RoomFields
  <1>2. Tombstoned(s) \in RoomStates
    <2>1. [s EXCEPT !.deleting = TRUE] \in RoomStates
      BY RoomFields
    <2>2. [[s EXCEPT !.deleting = TRUE] EXCEPT !.revision = s.revision + 1] \in RoomStates
      BY <1>1, <2>1, RoomFields
    <2> QED BY <2>2 DEF Tombstoned
  <1>3. Emptied(s) \in RoomStates
    BY <1>2, RoomFields DEF Emptied
  <1>4. Restored(s) \in RoomStates
    <2>1. [s EXCEPT !.deleting = FALSE] \in RoomStates
      BY RoomFields
    <2>2. [[s EXCEPT !.deleting = FALSE] EXCEPT !.revision = s.revision + 1] \in RoomStates
      BY <1>1, <2>1, RoomFields
    <2> QED BY <2>2 DEF Restored
  <1>5. Unreserved(s) \in RoomStates
    <2>1. (IF s.pending = 0 THEN 0 ELSE s.pending - 1) \in Nat
      BY RoomFields
    <2> QED BY <2>1, RoomFields DEF Unreserved
  <1>6. [s EXCEPT !.deleting = TRUE, !.members = {}] \in RoomStates
    <2>1. [s EXCEPT !.deleting = TRUE] \in RoomStates
      BY RoomFields
    <2>2. [[s EXCEPT !.deleting = TRUE] EXCEPT !.members = {}] \in RoomStates
      BY <2>1, RoomFields
    <2> QED BY <2>2
  <1> QED BY <1>2, <1>3, <1>4, <1>5, <1>6

(* Publishing a policy gives a Room. *)
LEMMA PublishedIsRoom ==
    ASSUME NEW s \in RoomStates, NEW t \in Writers \cup Owners, NEW gone
    PROVE  Published(s, t, gone) \in RoomStates
  <1> DEFINE p == IF s.gen = None THEN s.policy ELSE t
             a == [s EXCEPT !.policy = p]
             b == [a EXCEPT !.revision = s.revision + 1]
  <1>1. p \in Creates \cup Writers \cup Owners \cup {Seed, None} /\ s.revision + 1 \in Nat
    BY RoomFields
  <1>2. a \in RoomStates
    BY <1>1, RoomFields
  <1> HIDE DEF a
  <1>3. b \in RoomStates
    BY <1>1, <1>2, RoomFields
  <1> HIDE DEF b
  <1>4. s.members \ gone \in SUBSET Joins
    BY RoomFields
  <1>5. [b EXCEPT !.members = s.members \ gone] \in RoomStates
    BY <1>3, <1>4, RoomFields
  <1> QED BY <1>5 DEF a, b, p, Published

(* A room loaded from a row is a Room; a row with a new policy is a row. *)
LEMMA RowOperators ==
    /\ NoRow \in Rows
    /\ \A row \in Rows : NewRoom(row) \in RoomStates
    /\ \A t \in Creates : [gen |-> t, policy |-> t] \in Rows
    /\ \A row \in Rows, t \in Writers \cup Owners : [row EXCEPT !.policy = t] \in Rows
    /\ \A row \in Rows : row.gen \in Creates \cup {Seed, None}
  BY DEF NoRow, Rows, NewRoom, RoomStates

(* Updating one incarnation keeps the function of incarnations typed. *)
LEMMA StateUpdate ==
    ASSUME state \in [Joins -> RoomStates], NEW i, NEW s, i \in Joins => s \in RoomStates
    PROVE  [state EXCEPT ![i] = s] \in [Joins -> RoomStates]
  OBVIOUS

(* Updating one row keeps the table a table. *)
LEMMA RowUpdate ==
    ASSUME db \in [RoomIds -> Rows], NEW r, NEW row, r \in RoomIds => row \in Rows
    PROVE  [db EXCEPT ![r] = row] \in [RoomIds -> Rows]
  OBVIOUS

(* Requests of different kinds are different tasks. *)
LEMMA Kinds ==
    /\ \A t \in Joins :
         t \in Tasks /\ t \notin Leaves \cup Creates \cup Deletes \cup Writers \cup Owners
            \cup Drains \cup {Recovery, None}
    /\ \A t \in Leaves :
         t \in Tasks /\ t \notin Joins \cup Creates \cup Deletes \cup Writers \cup Owners
            \cup Drains \cup {Recovery, None}
    /\ \A t \in Creates :
         t \in Tasks /\ t \notin Joins \cup Leaves \cup Deletes \cup Writers \cup Owners
            \cup Drains \cup {Recovery, None}
    /\ \A t \in Deletes :
         t \in Tasks /\ t \notin Joins \cup Leaves \cup Creates \cup Writers \cup Owners
            \cup Drains \cup {Recovery, None}
    /\ \A t \in Writers \cup Owners :
         t \in Tasks /\ t \notin Joins \cup Leaves \cup Creates \cup Deletes \cup Drains
            \cup {Recovery, None}
    /\ \A t \in Drains :
         t \in Tasks /\ t \notin Joins \cup Leaves \cup Creates \cup Deletes \cup Writers
            \cup Owners \cup {Recovery, None}
    /\ Recovery \in Tasks \ {None}
  BY TaskAssumption DEF Tasks

----------------------------------------------------------------------------
(* Types. *)

(* The initial state is well typed. *)
LEMMA TypeInit == Init => TypeOK
  <1> SUFFICES ASSUME Init PROVE TypeOK
    OBVIOUS
  <1>1. state \in [Joins -> RoomStates]
    BY RowOperators DEF Init
  <1>2. db \in [RoomIds -> Rows]
    BY DEF Init, Rows, NoRow
  <1>3. pc \in [Tasks -> Labels]
    BY DEF Init, Labels
  <1> QED BY <1>1, <1>2, <1>3 DEF Init, TypeOK

(* Types survive every step of a join. *)
LEMMA JoinTypes ==
    ASSUME TypeOK, Placed, NEW t \in Joins, Join(t)
    PROVE  TypeOK'
  <1> USE DEF registryVars, lockVars, mediaVars, dbVars, taskVars, localVars, processVars,
              restVars, Goto
  <1>0. t \in Tasks /\ state \in [Joins -> RoomStates]
    BY Kinds DEF TypeOK
  <1>a. pc' \in [Tasks -> Labels]
    BY <1>0 DEF TypeOK, Labels, Join, JoinLookup, JoinReserve, JoinCreate, JoinLoad,
       JoinRoute,
       JoinRegister, JoinRollback, JoinPublish, JoinSnapshot, JoinControl, JoinRefused,
       JoinInsert, DropCreation, DropRelease, Teardown
  <1>1. CASE JoinLookup(t)
    BY <1>0, <1>1, <1>a DEF TypeOK, JoinLookup
  <1>2. CASE JoinReserve(t)
    <2>1. ASSUME arc[t] \in Joins
          PROVE  [state[arc[t]] EXCEPT !.pending = @ + 1] \in RoomStates
      <3>1. state[arc[t]] \in RoomStates /\ state[arc[t]].pending + 1 \in Nat
        BY <1>0, <2>1, RoomFields
      <3> QED BY <3>1, RoomFields
    <2>2. [state EXCEPT ![arc[t]].pending = @ + 1] \in [Joins -> RoomStates]
      BY <1>0, <2>1, StateUpdate
    <2> QED BY <1>2, <1>a, <2>2 DEF TypeOK, JoinReserve
  <1>3. CASE JoinCreate(t)
    <2>1. room[t] \in RoomIds
      BY <1>3 DEF Placed, JoinCreate
    <2>2. arc' \in [Tasks -> Joins \cup {None}] /\ creation' \in Tasks \cup {None}
      BY <1>0, <1>3, <2>1 DEF TypeOK, JoinCreate
    <2> QED BY <1>3, <1>a, <2>2 DEF TypeOK, JoinCreate
  <1>4. CASE JoinLoad(t)
    <2>1. room[t] \in RoomIds
      BY <1>4 DEF Placed, JoinLoad
    <2>2. NewRoom(db[room[t]]) \in RoomStates
      BY <2>1, RowOperators DEF TypeOK
    <2>3. [state EXCEPT ![t] = NewRoom(db[room[t]])] \in [Joins -> RoomStates]
      BY <1>0, <2>2
    <2> QED BY <1>4, <1>a, <2>3 DEF TypeOK, JoinLoad
  <1>5. CASE JoinRoute(t)
    BY <1>0, <1>5, <1>a DEF TypeOK, JoinRoute
  <1>6. CASE JoinRegister(t)
    BY <1>0, <1>6, <1>a DEF TypeOK, JoinRegister
  <1>7. CASE JoinRollback(t)
    BY <1>0, <1>7, <1>a DEF TypeOK, JoinRollback
  <1>8. CASE JoinPublish(t)
    <2>1. [state[t] EXCEPT !.pending = 1] \in RoomStates
      BY <1>0, RoomFields
    <2>2. [state EXCEPT ![t].pending = 1] \in [Joins -> RoomStates]
      BY <1>0, <2>1, StateUpdate
    <2> QED BY <1>0, <1>8, <1>a, <2>2 DEF TypeOK, JoinPublish
  <1>9. CASE JoinSnapshot(t)
    <2>1. state[arc[t]].revision \in Nat
      BY <1>0, <1>9, RoomFields DEF Placed, JoinSnapshot
    <2> QED BY <1>9, <1>a, <2>1 DEF TypeOK, JoinSnapshot
  <1>10. CASE JoinControl(t)
    BY <1>0, <1>10, <1>a DEF TypeOK, JoinControl
  <1>11. CASE JoinRefused(t)
    BY <1>11, <1>a DEF TypeOK, JoinRefused
  <1>12. CASE JoinInsert(t)
    <2> DEFINE i == arc[t]
               s == Unreserved(state[i])
    <2>1. i \in Joins
      BY <1>12 DEF Placed, JoinInsert
    <2>2. s \in RoomStates
      BY <1>0, <2>1, RoomOperators
    <2>3. [s EXCEPT !.members = @ \cup {t}] \in RoomStates
      BY <2>2, RoomFields
    <2>4. [state EXCEPT ![i] = Seated(state[i], t)] \in [Joins -> RoomStates]
      BY <1>0, <2>3 DEF Seated
    <2>5. state' \in [Joins -> RoomStates]
      BY <1>0, <1>12, <2>4 DEF JoinInsert
    <2>6. control' \in [Joins -> Tasks \cup {None}]
      BY <1>12 DEF JoinInsert, TypeOK
    <2> QED BY <1>12, <1>a, <2>5, <2>6 DEF TypeOK, JoinInsert
  <1>13. CASE DropCreation(t)
    BY <1>0, <1>13, <1>a DEF TypeOK, DropCreation
  <1>14. CASE DropRelease(t)
    <2> DEFINE i == arc[t]
               s == Unreserved(state[i])
    <2>1. i \in Joins => s \in RoomStates /\ Tombstoned(s) \in RoomStates
      BY <1>0, RoomOperators
    <2>2. /\ [state EXCEPT ![i] = s] \in [Joins -> RoomStates]
          /\ [state EXCEPT ![i] = Tombstoned(s)] \in [Joins -> RoomStates]
      BY <1>0, <2>1
    <2> QED BY <1>0, <1>14, <1>a, <2>2 DEF TypeOK, DropRelease, Evict
  <1>15. CASE Teardown(t)
    BY <1>15, <1>a DEF TypeOK, Teardown, Release
  <1> QED BY <1>1, <1>2, <1>3, <1>4, <1>5, <1>6, <1>7, <1>8, <1>9, <1>10, <1>11, <1>12,
             <1>13, <1>14, <1>15 DEF Join

(* Types survive every step of a leave. *)
LEMMA LeaveTypes ==
    ASSUME TypeOK, NEW t \in Leaves, Leave(t)
    PROVE  TypeOK'
  <1> USE DEF registryVars, lockVars, mediaVars, dbVars, taskVars, localVars, processVars,
              restVars, Goto
  <1>0. t \in Tasks /\ state \in [Joins -> RoomStates]
    BY Kinds DEF TypeOK
  <1>a. pc' \in [Tasks -> Labels]
    BY <1>0 DEF TypeOK, Labels, Leave, LeaveLookup, LeaveRemove, LeaveCreation, LeaveEvict,
       Teardown
  <1>1. CASE LeaveLookup(t)
    BY <1>0, <1>1, <1>a DEF TypeOK, LeaveLookup
  <1>2. CASE LeaveRemove(t)
    <2> DEFINE rest == state[arc[t]].members \ {victim[t]}
    <2>1. arc[t] \in Joins => [state[arc[t]] EXCEPT !.members = rest] \in RoomStates
      BY <1>0, RoomFields
    <2>2. [state EXCEPT ![arc[t]].members = rest] \in [Joins -> RoomStates]
      BY <1>0, <2>1, StateUpdate
    <2> QED BY <1>2, <1>a, <2>2 DEF TypeOK, LeaveRemove
  <1>3. CASE LeaveCreation(t)
    BY <1>0, <1>3, <1>a DEF TypeOK, LeaveCreation
  <1>4. CASE LeaveEvict(t)
    <2>1. arc[t] \in Joins => Tombstoned(state[arc[t]]) \in RoomStates
      BY <1>0, RoomOperators
    <2>2. [state EXCEPT ![arc[t]] = Tombstoned(state[arc[t]])] \in [Joins -> RoomStates]
      BY <1>0, <2>1
    <2> QED BY <1>0, <1>4, <1>a, <2>2 DEF TypeOK, LeaveEvict, Evict
  <1>5. CASE Teardown(t)
    BY <1>5, <1>a DEF TypeOK, Teardown, Release
  <1> QED BY <1>1, <1>2, <1>3, <1>4, <1>5 DEF Leave

(* Types survive every step of a create_persisted_room. *)
LEMMA CreateTypes ==
    ASSUME TypeOK, NEW t \in Creates, Create(t)
    PROVE  TypeOK'
  <1> USE DEF registryVars, lockVars, mediaVars, dbVars, taskVars, localVars, processVars,
              restVars, Goto
  <1>0. t \in Tasks
    BY Kinds
  <1>a. pc' \in [Tasks -> Labels]
    BY <1>0 DEF TypeOK, Labels, Create, CreateLock, CreateInsert
  <1>1. CASE CreateLock(t)
    BY <1>0, <1>1, <1>a DEF TypeOK, CreateLock
  <1>2. CASE CreateInsert(t)
    <2>1. [db EXCEPT ![room[t]] = [gen |-> t, policy |-> t]] \in [RoomIds -> Rows]
      BY RowOperators, RowUpdate DEF TypeOK
    <2> QED BY <1>0, <1>2, <1>a, <2>1 DEF TypeOK, CreateInsert
  <1> QED BY <1>1, <1>2 DEF Create

(* Types survive every step of a delete_persisted_room. *)
LEMMA DeleteTypes ==
    ASSUME TypeOK, Placed, NEW t \in Deletes, Delete(t)
    PROVE  TypeOK'
  <1> USE DEF registryVars, lockVars, mediaVars, dbVars, taskVars, localVars, processVars,
              restVars, Goto
  <1>0. t \in Tasks /\ state \in [Joins -> RoomStates]
    BY Kinds DEF TypeOK
  <1>a. pc' \in [Tasks -> Labels]
    BY <1>0 DEF TypeOK, Labels, Delete, DeleteRead, DeleteLock, DeleteTombstone, DeleteRow,
       DeleteRestore, DeleteEmpty, Teardown
  <1>1. CASE DeleteRead(t)
    BY <1>0, <1>1, <1>a, RowOperators DEF TypeOK, DeleteRead
  <1>2. CASE DeleteLock(t)
    <2>1. room[t] \in RoomIds
      BY <1>2 DEF Placed, DeleteLock
    <2>2. arc' \in [Tasks -> Joins \cup {None}]
      BY <1>0, <1>2, <2>1 DEF TypeOK, DeleteLock
    <2> QED BY <1>0, <1>2, <1>a, <2>2 DEF TypeOK, DeleteLock
  <1>3. CASE DeleteTombstone(t)
    <2>1. arc[t] \in Joins => Tombstoned(state[arc[t]]) \in RoomStates
      BY <1>0, RoomOperators
    <2>2. [state EXCEPT ![arc[t]] = Tombstoned(state[arc[t]])] \in [Joins -> RoomStates]
      BY <1>0, <2>1
    <2> QED BY <1>0, <1>3, <1>a, <2>2 DEF TypeOK, DeleteTombstone
  <1>4. CASE DeleteRow(t)
    <2>1. [db EXCEPT ![room[t]] = NoRow] \in [RoomIds -> Rows]
      BY RowOperators, RowUpdate DEF TypeOK
    <2> QED BY <1>0, <1>4, <1>a, <2>1 DEF TypeOK, DeleteRow, Release, ControlDropped
  <1>5. CASE DeleteRestore(t)
    <2>1. arc[t] \in Joins => Restored(state[arc[t]]) \in RoomStates
      BY <1>0, RoomOperators
    <2>2. [state EXCEPT ![arc[t]] = Restored(state[arc[t]])] \in [Joins -> RoomStates]
      BY <1>0, <2>1
    <2>3. state' \in [Joins -> RoomStates]
      BY <1>0, <1>5, <2>2 DEF DeleteRestore
    <2>4. control' \in [Joins -> Tasks \cup {None}]
      BY <1>5 DEF TypeOK, DeleteRestore, ControlDropped
    <2> QED BY <1>5, <1>a, <2>3, <2>4 DEF TypeOK, DeleteRestore, Release
  <1>6. CASE DeleteEmpty(t)
    <2>1. arc[t] \in Joins => [state[arc[t]] EXCEPT !.members = {}] \in RoomStates
      BY <1>0, RoomFields
    <2>2. [state EXCEPT ![arc[t]].members = {}] \in [Joins -> RoomStates]
      BY <1>0, <2>1, StateUpdate
    <2>3. control' \in [Joins -> Tasks \cup {None}]
      BY <1>6 DEF TypeOK, DeleteEmpty, ControlDropped
    <2> QED BY <1>6, <1>a, <2>2, <2>3 DEF TypeOK, DeleteEmpty
  <1>7. CASE Teardown(t)
    BY <1>7, <1>a DEF TypeOK, Teardown, Release
  <1> QED BY <1>1, <1>2, <1>3, <1>4, <1>5, <1>6, <1>7 DEF Delete

(* Types survive every step of a policy write. *)
LEMMA WriteTypes ==
    ASSUME TypeOK, Placed, NEW t \in Writers \cup Owners,
           \/ WriterLookup(t) \/ OwnerMark(t) \/ OwnerFind(t) \/ Write(t)
           \/ DormantCheck(t) \/ DormantWrite(t)
    PROVE  TypeOK'
  <1> USE DEF registryVars, lockVars, mediaVars, dbVars, taskVars, localVars, processVars,
              restVars, Goto
  <1>0. t \in Tasks /\ state \in [Joins -> RoomStates]
    BY Kinds DEF TypeOK
  <1>a. pc' \in [Tasks -> Labels]
    BY <1>0 DEF TypeOK, Labels, Write, WriterLookup, OwnerMark, OwnerFind, Admit, Persist,
       Announce, Quarantine, Sweep, DormantCheck, DormantWrite
  <1>b. [db EXCEPT ![room[t]].policy = t] \in [RoomIds -> Rows]
    <2>1. room[t] \in RoomIds => [db[room[t]] EXCEPT !.policy = t] \in Rows
      BY RowOperators DEF TypeOK
    <2>2. [db EXCEPT ![room[t]] = [db[room[t]] EXCEPT !.policy = t]] \in [RoomIds -> Rows]
      BY <2>1, RowUpdate DEF TypeOK
    <2> QED BY <2>2 DEF TypeOK
  <1>1. CASE WriterLookup(t)
    BY <1>0, <1>1, <1>a DEF TypeOK, WriterLookup
  <1>2. CASE OwnerMark(t)
    BY <1>0, <1>2, <1>a DEF TypeOK, OwnerMark
  <1>f. CASE OwnerFind(t)
    BY <1>0, <1>f, <1>a DEF TypeOK, Placed, OwnerFind
  <1>3. CASE Admit(t)
    BY <1>0, <1>3, <1>a DEF TypeOK, Admit, Unmarked
  <1>4. CASE Persist(t)
    BY <1>0, <1>4, <1>a, <1>b DEF TypeOK, Persist, Unmarked
  <1>5. CASE Announce(t)
    <2>1. PICK gone : state' = [state EXCEPT ![arc[t]] = Published(state[arc[t]], t, gone)]
      BY <1>5 DEF Announce
    <2>2. arc[t] \in Joins => Published(state[arc[t]], t, gone) \in RoomStates
      BY <1>0, PublishedIsRoom
    <2>3. state' \in [Joins -> RoomStates]
      BY <1>0, <2>1, <2>2
    <2> QED BY <1>5, <1>a, <2>3 DEF TypeOK, Announce, Unmarked
  <1>6. CASE Quarantine(t)
    <2>1. arc[t] \in Joins => Emptied(state[arc[t]]) \in RoomStates
      BY <1>0, RoomOperators
    <2>2. [state EXCEPT ![arc[t]] = Emptied(state[arc[t]])] \in [Joins -> RoomStates]
      BY <1>0, <2>1
    <2> QED BY <1>0, <1>6, <1>a, <2>2 DEF TypeOK, Quarantine, Unmarked
  <1>7. CASE Sweep(t)
    BY <1>7, <1>a DEF TypeOK, Sweep
  <1>8. CASE DormantCheck(t)
    BY <1>8, <1>a DEF TypeOK, DormantCheck, Unmarked
  <1>9. CASE DormantWrite(t)
    BY <1>0, <1>9, <1>a, <1>b DEF TypeOK, DormantWrite, Unmarked
  <1> QED BY <1>1, <1>2, <1>f, <1>3, <1>4, <1>5, <1>6, <1>7, <1>8, <1>9 DEF Write

(* Types survive every step of worker recovery. *)
LEMMA RecoverTypes ==
    ASSUME TypeOK, Recover(Recovery)
    PROVE  TypeOK'
  <1> USE DEF registryVars, lockVars, mediaVars, dbVars, taskVars, localVars, processVars,
              restVars, Goto
  <1> DEFINE t == Recovery
  <1>0. t \in Tasks /\ state \in [Joins -> RoomStates]
    BY Kinds DEF TypeOK
  <1>a. pc' \in [Tasks -> Labels]
    BY <1>0 DEF TypeOK, Labels, Recover, RecoverSnapshot, RecoverReplace, RecoverNext,
       RecoverLock, RecoverClose, Teardown
  <1>1. CASE RecoverSnapshot(t)
    BY <1>0, <1>1, <1>a DEF TypeOK, RecoverSnapshot
  <1>2. CASE RecoverReplace(t)
    BY <1>0, <1>2, <1>a DEF TypeOK, RecoverReplace
  <1>3. CASE RecoverNext(t)
    BY <1>0, <1>3, <1>a DEF TypeOK, RecoverNext
  <1>4. CASE RecoverLock(t)
    BY <1>0, <1>4, <1>a DEF TypeOK, RecoverLock
  <1>5. CASE RecoverClose(t)
    <2>1. arc[t] \in Joins => Emptied(state[arc[t]]) \in RoomStates
      BY <1>0, RoomOperators
    <2>2. [state EXCEPT ![arc[t]] = Emptied(state[arc[t]])] \in [Joins -> RoomStates]
      BY <1>0, <2>1
    <2> QED BY <1>0, <1>5, <1>a, <2>2 DEF TypeOK, RecoverClose
  <1>6. CASE Teardown(t)
    BY <1>6, <1>a DEF TypeOK, Teardown, Release
  <1> QED BY <1>1, <1>2, <1>3, <1>4, <1>5, <1>6 DEF Recover

(* Types survive every step of a drain. *)
LEMMA DrainTypes ==
    ASSUME TypeOK, NEW t \in Drains, Drain(t)
    PROVE  TypeOK'
  <1> USE DEF registryVars, lockVars, mediaVars, dbVars, taskVars, localVars, processVars,
              restVars, Goto
  <1>0. t \in Tasks /\ state \in [Joins -> RoomStates]
    BY Kinds DEF TypeOK
  <1>a. pc' \in [Tasks -> Labels]
    <2>0. pc \in [Tasks -> Labels]
      BY DEF TypeOK
    <2>1. DrainBegin(t) \/ DrainMap(t) => pc' \in [Tasks -> Labels]
      BY <1>0, <2>0 DEF Labels, DrainBegin, DrainMap
    <2>2. DrainRoom(t) \/ DrainEnd(t) => pc' \in [Tasks -> Labels]
      BY <1>0, <2>0 DEF Labels, DrainRoom, DrainEnd
    <2>. QED
      BY <2>1, <2>2 DEF Drain
  <1>1. CASE DrainBegin(t)
    BY <1>0, <1>1, <1>a DEF TypeOK, DrainBegin
  <1>2. CASE DrainMap(t)
    BY <1>0, <1>2, <1>a DEF TypeOK, DrainMap
  <1>3. CASE DrainRoom(t)
    <2>1. PICK i \in doomed :
             /\ state' = [state EXCEPT ![i] = [@ EXCEPT !.deleting = TRUE, !.members = {}]]
             /\ doomed' = doomed \ {i}
      BY <1>3 DEF DrainRoom
    <2>2. i \in Joins => [state[i] EXCEPT !.deleting = TRUE, !.members = {}] \in RoomStates
      BY <1>0, RoomOperators
    <2>3. state' \in [Joins -> RoomStates]
      BY <1>0, <2>1, <2>2
    <2> QED BY <1>3, <1>a, <2>1, <2>3 DEF TypeOK, DrainRoom
  <1>4. CASE DrainEnd(t)
    BY <1>4, <1>a DEF TypeOK, DrainEnd
  <1> QED BY <1>1, <1>2, <1>3, <1>4 DEF Drain

(* Types survive every step of a late SQL outcome. *)
LEMMA SettleTypes ==
    ASSUME TypeOK, NEW t \in Tasks, Settle(t)
    PROVE  TypeOK'
  <1> USE DEF registryVars, lockVars, mediaVars, dbVars, taskVars, localVars, processVars,
              restVars
  <1>1. /\ t \in Creates
             => [db EXCEPT ![room[t]] = [gen |-> t, policy |-> t]] \in [RoomIds -> Rows]
        /\ [db EXCEPT ![room[t]] = NoRow] \in [RoomIds -> Rows]
    BY RowOperators, RowUpdate DEF TypeOK
  <1>2. ASSUME t \in Writers \cup Owners
        PROVE  [db EXCEPT ![room[t]].policy = t] \in [RoomIds -> Rows]
    <2>1. room[t] \in RoomIds => [db[room[t]] EXCEPT !.policy = t] \in Rows
      BY <1>2, RowOperators DEF TypeOK
    <2>2. [db EXCEPT ![room[t]] = [db[room[t]] EXCEPT !.policy = t]] \in [RoomIds -> Rows]
      BY <2>1, RowUpdate DEF TypeOK
    <2> QED BY <2>2 DEF TypeOK
  <1>3. db' \in [RoomIds -> Rows]
    BY <1>1, <1>2 DEF Settle, TypeOK
  <1> QED BY <1>3 DEF Settle, TypeOK

(* Every step keeps every type. *)
LEMMA TypeStep ==
    ASSUME TypeOK, Placed, [Next]_vars
    PROVE  TypeOK'
  <1>1. ASSUME NEW t \in Tasks, Step(t)
        PROVE  TypeOK'
    BY <1>1, JoinTypes, LeaveTypes, CreateTypes, DeleteTypes, WriteTypes, DrainTypes,
       RecoverTypes DEF Step
  <1>2. ASSUME NEW w \in Workers, WorkerDies(w)
        PROVE  TypeOK'
    BY <1>2 DEF TypeOK, WorkerDies, registryVars, lockVars, dbVars, taskVars, localVars,
       processVars, restVars
  <1>3. CASE UNCHANGED vars
    BY <1>3 DEF TypeOK, vars, registryVars, lockVars, mediaVars, dbVars, taskVars,
       localVars,
       processVars, restVars
  <1> QED BY <1>1, <1>2, <1>3, SettleTypes DEF Next, Terminated

----------------------------------------------------------------------------
(* What a step of t leaves alone. *)

(* Only t's own place changes, and t stays Placed. *)
OwnPlace(t) ==
    /\ \A u \in Tasks \ {t} : pc'[u] = pc[u] /\ room'[u] = room[u] /\ arc'[u] = arc[u]
    /\ t \notin Drains \cup {Recovery} /\ pc'[t] # "idle" => room'[t] \in RoomIds
    /\ t \in Joins => (pc'[t] \in {"reserve", "snapshot", "control", "insert", "drop", "release",
                                   "teardown"} => arc'[t] \in Joins)
    /\ t \in Leaves =>
         (pc'[t] \in {"remove", "evict", "recheck", "teardown"} => arc'[t] \in Joins)
    /\ t \in Writers \cup Owners =>
         (pc'[t] \in {"admit", "persist", "announce", "quarantine", "sweep"} => arc'[t] \in Joins)
    /\ t \in Deletes /\ pc'[t] = "empty" => arc'[t] \in Joins
    /\ t = Recovery /\ pc'[t] \in {"lock", "close", "teardown"} => arc'[t] \in Joins

(* t takes a lock only when it is free and gives back only its own. *)
OwnLocks(t) ==
    /\ creation' # creation => creation \in {None, t}
    /\ \A i \in Joins : control'[i] # control[i] => control[i] \in {None, t}
    /\ UnderCreation(t)' => creation' = t
    /\ UnderControl(t)' => control'[arc'[t]] = t

(* Every step of a join leaves the other tasks where they are. *)
LEMMA JoinPlaces ==
    ASSUME TypeOK, Placed, NEW t \in Joins, Join(t)
    PROVE  OwnPlace(t)
  <1> USE DEF registryVars, lockVars, mediaVars, dbVars, taskVars, localVars, processVars,
              restVars, Goto
  <1>0. t \in Tasks /\ None \notin Tasks
    BY Kinds, TaskAssumption
  <1>1. CASE JoinLookup(t)
    BY <1>0, <1>1, Kinds DEF TypeOK, Placed, OwnPlace, JoinLookup
  <1>2. CASE JoinReserve(t)
    BY <1>0, <1>2, Kinds DEF TypeOK, Placed, OwnPlace, JoinReserve
  <1>3. CASE JoinCreate(t)
    BY <1>0, <1>3, Kinds DEF TypeOK, Placed, OwnPlace, JoinCreate
  <1>4. CASE JoinLoad(t)
    BY <1>0, <1>4, Kinds DEF TypeOK, Placed, OwnPlace, JoinLoad
  <1>5. CASE JoinRoute(t)
    BY <1>0, <1>5, Kinds DEF TypeOK, Placed, OwnPlace, JoinRoute
  <1>6. CASE JoinRegister(t)
    BY <1>0, <1>6, Kinds DEF TypeOK, Placed, OwnPlace, JoinRegister
  <1>7. CASE JoinRollback(t)
    BY <1>0, <1>7, Kinds DEF TypeOK, Placed, OwnPlace, JoinRollback
  <1>8. CASE JoinPublish(t)
    BY <1>0, <1>8, Kinds DEF TypeOK, Placed, OwnPlace, JoinPublish
  <1>9. CASE JoinSnapshot(t)
    BY <1>0, <1>9, Kinds DEF TypeOK, Placed, OwnPlace, JoinSnapshot
  <1>10. CASE JoinControl(t)
    BY <1>0, <1>10, Kinds DEF TypeOK, Placed, OwnPlace, JoinControl
  <1>11. CASE JoinRefused(t)
    BY <1>0, <1>11, Kinds DEF TypeOK, Placed, OwnPlace, JoinRefused
  <1>12. CASE JoinInsert(t)
    BY <1>0, <1>12, Kinds DEF TypeOK, Placed, OwnPlace, JoinInsert
  <1>13. CASE DropCreation(t)
    BY <1>0, <1>13, Kinds DEF TypeOK, Placed, OwnPlace, DropCreation
  <1>14. CASE DropRelease(t)
    BY <1>0, <1>14, Kinds DEF TypeOK, Placed, OwnPlace, DropRelease, Evict
  <1>15. CASE Teardown(t)
    BY <1>0, <1>15, Kinds DEF TypeOK, Placed, OwnPlace, Teardown
  <1> QED BY <1>1, <1>2, <1>3, <1>4, <1>5, <1>6, <1>7, <1>8, <1>9, <1>10, <1>11, <1>12,
             <1>13,
          <1>14, <1>15 DEF Join

(* Every step of a leave leaves the other tasks where they are. *)
LEMMA LeavePlaces ==
    ASSUME TypeOK, Placed, NEW t \in Leaves, Leave(t)
    PROVE  OwnPlace(t)
  <1> USE DEF registryVars, lockVars, mediaVars, dbVars, taskVars, localVars, processVars,
              restVars, Goto
  <1>0. t \in Tasks /\ None \notin Tasks
    BY Kinds, TaskAssumption
  <1>1. CASE LeaveLookup(t)
    BY <1>0, <1>1, Kinds DEF TypeOK, Placed, OwnPlace, LeaveLookup
  <1>2. CASE LeaveRemove(t)
    BY <1>0, <1>2, Kinds DEF TypeOK, Placed, OwnPlace, LeaveRemove
  <1>3. CASE LeaveCreation(t)
    BY <1>0, <1>3, Kinds DEF TypeOK, Placed, OwnPlace, LeaveCreation
  <1>4. CASE LeaveEvict(t)
    BY <1>0, <1>4, Kinds DEF TypeOK, Placed, OwnPlace, LeaveEvict, Evict
  <1>5. CASE Teardown(t)
    BY <1>0, <1>5, Kinds DEF TypeOK, Placed, OwnPlace, Teardown
  <1> QED BY <1>1, <1>2, <1>3, <1>4, <1>5 DEF Leave

(* Every step of a create_persisted_room leaves the other tasks where they are. *)
LEMMA CreatePlaces ==
    ASSUME TypeOK, Placed, NEW t \in Creates, Create(t)
    PROVE  OwnPlace(t)
  <1> USE DEF registryVars, lockVars, mediaVars, dbVars, taskVars, localVars, processVars,
              restVars, Goto
  <1>0. t \in Tasks /\ None \notin Tasks
    BY Kinds, TaskAssumption
  <1>1. CASE CreateLock(t)
    BY <1>0, <1>1, Kinds DEF TypeOK, Placed, OwnPlace, CreateLock
  <1>2. CASE CreateInsert(t)
    BY <1>0, <1>2, Kinds DEF TypeOK, Placed, OwnPlace, CreateInsert
  <1> QED BY <1>1, <1>2 DEF Create

(* Every step of a delete_persisted_room leaves the other tasks where they are. *)
LEMMA DeletePlaces ==
    ASSUME TypeOK, Placed, NEW t \in Deletes, Delete(t)
    PROVE  OwnPlace(t)
  <1> USE DEF registryVars, lockVars, mediaVars, dbVars, taskVars, localVars, processVars,
              restVars, Goto
  <1>0. t \in Tasks /\ None \notin Tasks
    BY Kinds, TaskAssumption
  <1>1. CASE DeleteRead(t)
    BY <1>0, <1>1, Kinds DEF TypeOK, Placed, OwnPlace, DeleteRead
  <1>2. CASE DeleteLock(t)
    BY <1>0, <1>2, Kinds DEF TypeOK, Placed, OwnPlace, DeleteLock
  <1>3. CASE DeleteTombstone(t)
    BY <1>0, <1>3, Kinds DEF TypeOK, Placed, OwnPlace, DeleteTombstone
  <1>4. CASE DeleteRow(t)
    BY <1>0, <1>4, Kinds DEF TypeOK, Placed, OwnPlace, DeleteRow, ControlDropped
  <1>5. CASE DeleteRestore(t)
    BY <1>0, <1>5, Kinds DEF TypeOK, Placed, OwnPlace, DeleteRestore, ControlDropped
  <1>6. CASE DeleteEmpty(t)
    BY <1>0, <1>6, Kinds DEF TypeOK, Placed, OwnPlace, DeleteEmpty, ControlDropped
  <1>7. CASE Teardown(t)
    BY <1>0, <1>7, Kinds DEF TypeOK, Placed, OwnPlace, Teardown
  <1> QED BY <1>1, <1>2, <1>3, <1>4, <1>5, <1>6, <1>7 DEF Delete

(* Every step of a policy write leaves the other tasks where they are. *)
LEMMA WritePlaces ==
    ASSUME TypeOK, Placed, NEW t \in Writers \cup Owners,
           \/ WriterLookup(t) \/ OwnerMark(t) \/ OwnerFind(t) \/ Write(t)
           \/ DormantCheck(t) \/ DormantWrite(t)
    PROVE  OwnPlace(t)
  <1> USE DEF registryVars, lockVars, mediaVars, dbVars, taskVars, localVars, processVars,
              restVars, Goto
  <1>0. t \in Tasks /\ None \notin Tasks
    BY Kinds, TaskAssumption
  <1>1. CASE WriterLookup(t)
    BY <1>0, <1>1, Kinds DEF TypeOK, Placed, OwnPlace, WriterLookup
  <1>2. CASE OwnerMark(t)
    BY <1>0, <1>2, Kinds DEF TypeOK, Placed, OwnPlace, OwnerMark
  <1>f. CASE OwnerFind(t)
    BY <1>0, <1>f, Kinds DEF TypeOK, Placed, OwnPlace, OwnerFind
  <1>3. CASE Admit(t)
    BY <1>0, <1>3, Kinds DEF TypeOK, Placed, OwnPlace, Admit
  <1>4. CASE Persist(t)
    BY <1>0, <1>4, Kinds DEF TypeOK, Placed, OwnPlace, Persist
  <1>5. CASE Announce(t)
    BY <1>0, <1>5, Kinds DEF TypeOK, Placed, OwnPlace, Announce
  <1>6. CASE Quarantine(t)
    BY <1>0, <1>6, Kinds DEF TypeOK, Placed, OwnPlace, Quarantine
  <1>7. CASE Sweep(t)
    BY <1>0, <1>7, Kinds DEF TypeOK, Placed, OwnPlace, Sweep
  <1>8. CASE DormantCheck(t)
    BY <1>0, <1>8, Kinds DEF TypeOK, Placed, OwnPlace, DormantCheck
  <1>9. CASE DormantWrite(t)
    BY <1>0, <1>9, Kinds DEF TypeOK, Placed, OwnPlace, DormantWrite
  <1> QED BY <1>1, <1>2, <1>f, <1>3, <1>4, <1>5, <1>6, <1>7, <1>8, <1>9 DEF Write

(* Every step of worker recovery leaves the other tasks where they are. *)
LEMMA RecoverPlaces ==
    ASSUME TypeOK, Placed, NEW t \in {Recovery}, Recover(t)
    PROVE  OwnPlace(t)
  <1> USE DEF registryVars, lockVars, mediaVars, dbVars, taskVars, localVars, processVars,
              restVars, Goto
  <1>0. t \in Tasks /\ None \notin Tasks
    BY Kinds, TaskAssumption
  <1>1. CASE RecoverSnapshot(t)
    BY <1>0, <1>1, Kinds DEF TypeOK, Placed, OwnPlace, RecoverSnapshot
  <1>2. CASE RecoverReplace(t)
    BY <1>0, <1>2, Kinds DEF TypeOK, Placed, OwnPlace, RecoverReplace
  <1>3. CASE RecoverNext(t)
    BY <1>0, <1>3, Kinds DEF TypeOK, Placed, OwnPlace, RecoverNext
  <1>4. CASE RecoverLock(t)
    BY <1>0, <1>4, Kinds DEF TypeOK, Placed, OwnPlace, RecoverLock
  <1>5. CASE RecoverClose(t)
    BY <1>0, <1>5, Kinds DEF TypeOK, Placed, OwnPlace, RecoverClose
  <1>6. CASE Teardown(t)
    BY <1>0, <1>6, Kinds DEF TypeOK, Placed, OwnPlace, Teardown
  <1> QED BY <1>1, <1>2, <1>3, <1>4, <1>5, <1>6 DEF Recover

(* Every step of a drain leaves the other tasks where they are. *)
LEMMA DrainPlaces ==
    ASSUME TypeOK, Placed, NEW t \in Drains, Drain(t)
    PROVE  OwnPlace(t)
  <1> USE DEF registryVars, lockVars, mediaVars, dbVars, taskVars, localVars, processVars,
              restVars, Goto
  <1>0. t \in Tasks /\ None \notin Tasks
    BY Kinds, TaskAssumption
  <1>1. CASE DrainBegin(t)
    BY <1>0, <1>1, Kinds DEF TypeOK, Placed, OwnPlace, DrainBegin
  <1>2. CASE DrainMap(t)
    BY <1>0, <1>2, Kinds DEF TypeOK, Placed, OwnPlace, DrainMap
  <1>3. CASE DrainRoom(t)
    BY <1>0, <1>3, Kinds DEF TypeOK, Placed, OwnPlace, DrainRoom
  <1>4. CASE DrainEnd(t)
    BY <1>0, <1>4, Kinds DEF TypeOK, Placed, OwnPlace, DrainEnd
  <1> QED BY <1>1, <1>2, <1>3, <1>4 DEF Drain

(* Every step of a join respects the two locks. *)
LEMMA JoinLocks ==
    ASSUME TypeOK, Placed, CreationExclusive, ControlExclusive, NEW t \in Joins, Join(t)
    PROVE  OwnLocks(t)
  <1> USE DEF registryVars, lockVars, mediaVars, dbVars, taskVars, localVars, processVars,
              restVars, Goto, OwnLocks, UnderCreation, UnderControl, CreationExclusive,
              ControlExclusive, CreationFree, ControlFree
  <1>0. t \in Tasks /\ None \notin Tasks
    BY Kinds, TaskAssumption
  <1>1. CASE JoinLookup(t)
    BY <1>0, <1>1, Kinds DEF TypeOK, Placed, JoinLookup
  <1>2. CASE JoinReserve(t)
    BY <1>0, <1>2, Kinds DEF TypeOK, Placed, JoinReserve
  <1>3. CASE JoinCreate(t)
    BY <1>0, <1>3, Kinds DEF TypeOK, Placed, JoinCreate
  <1>4. CASE JoinLoad(t)
    BY <1>0, <1>4, Kinds DEF TypeOK, Placed, JoinLoad
  <1>5. CASE JoinRoute(t)
    BY <1>0, <1>5, Kinds DEF TypeOK, Placed, JoinRoute
  <1>6. CASE JoinRegister(t)
    BY <1>0, <1>6, Kinds DEF TypeOK, Placed, JoinRegister
  <1>7. CASE JoinRollback(t)
    BY <1>0, <1>7, Kinds DEF TypeOK, Placed, JoinRollback
  <1>8. CASE JoinPublish(t)
    BY <1>0, <1>8, Kinds DEF TypeOK, Placed, JoinPublish
  <1>9. CASE JoinSnapshot(t)
    BY <1>0, <1>9, Kinds DEF TypeOK, Placed, JoinSnapshot
  <1>10. CASE JoinControl(t)
    BY <1>0, <1>10, Kinds DEF TypeOK, Placed, JoinControl
  <1>11. CASE JoinRefused(t)
    BY <1>0, <1>11, Kinds DEF TypeOK, Placed, JoinRefused
  <1>12. CASE JoinInsert(t)
    BY <1>0, <1>12, Kinds DEF TypeOK, Placed, JoinInsert
  <1>13. CASE DropCreation(t)
    BY <1>0, <1>13, Kinds DEF TypeOK, Placed, DropCreation
  <1>14. CASE DropRelease(t)
    BY <1>0, <1>14, Kinds DEF TypeOK, Placed, DropRelease, Evict
  <1>15. CASE Teardown(t)
    BY <1>0, <1>15, Kinds DEF TypeOK, Placed, Teardown
  <1> QED BY <1>1, <1>2, <1>3, <1>4, <1>5, <1>6, <1>7, <1>8, <1>9, <1>10, <1>11, <1>12,
             <1>13,
          <1>14, <1>15 DEF Join

(* Every step of a leave respects the two locks. *)
LEMMA LeaveLocks ==
    ASSUME TypeOK, Placed, CreationExclusive, ControlExclusive, NEW t \in Leaves, Leave(t)
    PROVE  OwnLocks(t)
  <1> USE DEF registryVars, lockVars, mediaVars, dbVars, taskVars, localVars, processVars,
              restVars, Goto, OwnLocks, UnderCreation, UnderControl, CreationExclusive,
              ControlExclusive, CreationFree, ControlFree
  <1>0. t \in Tasks /\ None \notin Tasks
    BY Kinds, TaskAssumption
  <1>1. CASE LeaveLookup(t)
    BY <1>0, <1>1, Kinds DEF TypeOK, Placed, LeaveLookup
  <1>2. CASE LeaveRemove(t)
    BY <1>0, <1>2, Kinds DEF TypeOK, Placed, LeaveRemove
  <1>3. CASE LeaveCreation(t)
    BY <1>0, <1>3, Kinds DEF TypeOK, Placed, LeaveCreation
  <1>4. CASE LeaveEvict(t)
    BY <1>0, <1>4, Kinds DEF TypeOK, Placed, LeaveEvict, Evict
  <1>5. CASE Teardown(t)
    BY <1>0, <1>5, Kinds DEF TypeOK, Placed, Teardown
  <1> QED BY <1>1, <1>2, <1>3, <1>4, <1>5 DEF Leave

(* Every step of a create_persisted_room respects the two locks. *)
LEMMA CreateLocks ==
    ASSUME TypeOK, Placed, CreationExclusive, ControlExclusive, NEW t \in Creates, Create(t)
    PROVE  OwnLocks(t)
  <1> USE DEF registryVars, lockVars, mediaVars, dbVars, taskVars, localVars, processVars,
              restVars, Goto, OwnLocks, UnderCreation, UnderControl, CreationExclusive,
              ControlExclusive, CreationFree, ControlFree
  <1>0. t \in Tasks /\ None \notin Tasks
    BY Kinds, TaskAssumption
  <1>1. CASE CreateLock(t)
    BY <1>0, <1>1, Kinds DEF TypeOK, Placed, CreateLock
  <1>2. CASE CreateInsert(t)
    BY <1>0, <1>2, Kinds DEF TypeOK, Placed, CreateInsert
  <1> QED BY <1>1, <1>2 DEF Create

(* Every step of a delete_persisted_room respects the two locks. *)
LEMMA DeleteLocks ==
    ASSUME TypeOK, Placed, CreationExclusive, ControlExclusive, NEW t \in Deletes, Delete(t)
    PROVE  OwnLocks(t)
  <1> USE DEF registryVars, lockVars, mediaVars, dbVars, taskVars, localVars, processVars,
              restVars, Goto, OwnLocks, UnderCreation, UnderControl, CreationExclusive,
              ControlExclusive, CreationFree, ControlFree
  <1>0. t \in Tasks /\ None \notin Tasks
    BY Kinds, TaskAssumption
  <1>1. CASE DeleteRead(t)
    BY <1>0, <1>1, Kinds DEF TypeOK, Placed, DeleteRead
  <1>2. CASE DeleteLock(t)
    BY <1>0, <1>2, Kinds DEF TypeOK, Placed, DeleteLock
  <1>3. CASE DeleteTombstone(t)
    BY <1>0, <1>3, Kinds DEF TypeOK, Placed, DeleteTombstone
  <1>4. CASE DeleteRow(t)
    BY <1>0, <1>4, Kinds DEF TypeOK, Placed, DeleteRow, ControlDropped
  <1>5. CASE DeleteRestore(t)
    BY <1>0, <1>5, Kinds DEF TypeOK, Placed, DeleteRestore, ControlDropped
  <1>6. CASE DeleteEmpty(t)
    BY <1>0, <1>6, Kinds DEF TypeOK, Placed, DeleteEmpty, ControlDropped
  <1>7. CASE Teardown(t)
    BY <1>0, <1>7, Kinds DEF TypeOK, Placed, Teardown
  <1> QED BY <1>1, <1>2, <1>3, <1>4, <1>5, <1>6, <1>7 DEF Delete

(* Every step of a policy write respects the two locks. *)
LEMMA WriteLocks ==
    ASSUME TypeOK, Placed, CreationExclusive, ControlExclusive, NEW t \in Writers \cup Owners,
           \/ WriterLookup(t) \/ OwnerMark(t) \/ OwnerFind(t) \/ Write(t)
           \/ DormantCheck(t) \/ DormantWrite(t)
    PROVE  OwnLocks(t)
  <1> USE DEF registryVars, lockVars, mediaVars, dbVars, taskVars, localVars, processVars,
              restVars, Goto, OwnLocks, UnderCreation, UnderControl, CreationExclusive,
              ControlExclusive, CreationFree, ControlFree
  <1>0. t \in Tasks /\ None \notin Tasks
    BY Kinds, TaskAssumption
  <1>1. CASE WriterLookup(t)
    BY <1>0, <1>1, Kinds DEF TypeOK, Placed, WriterLookup
  <1>2. CASE OwnerMark(t)
    BY <1>0, <1>2, Kinds DEF TypeOK, Placed, OwnerMark
  <1>f. CASE OwnerFind(t)
    BY <1>0, <1>f, Kinds DEF TypeOK, Placed, OwnerFind
  <1>3. CASE Admit(t)
    BY <1>0, <1>3, Kinds DEF TypeOK, Placed, Admit
  <1>4. CASE Persist(t)
    BY <1>0, <1>4, Kinds DEF TypeOK, Placed, Persist
  <1>5. CASE Announce(t)
    BY <1>0, <1>5, Kinds DEF TypeOK, Placed, Announce
  <1>6. CASE Quarantine(t)
    BY <1>0, <1>6, Kinds DEF TypeOK, Placed, Quarantine
  <1>7. CASE Sweep(t)
    BY <1>0, <1>7, Kinds DEF TypeOK, Placed, Sweep
  <1>8. CASE DormantCheck(t)
    BY <1>0, <1>8, Kinds DEF TypeOK, Placed, DormantCheck
  <1>9. CASE DormantWrite(t)
    BY <1>0, <1>9, Kinds DEF TypeOK, Placed, DormantWrite
  <1> QED BY <1>1, <1>2, <1>f, <1>3, <1>4, <1>5, <1>6, <1>7, <1>8, <1>9 DEF Write

(* Every step of worker recovery respects the two locks. *)
LEMMA RecoverLocks ==
    ASSUME TypeOK, Placed, CreationExclusive, ControlExclusive, NEW t \in {Recovery}, Recover(t)
    PROVE  OwnLocks(t)
  <1> USE DEF registryVars, lockVars, mediaVars, dbVars, taskVars, localVars, processVars,
              restVars, Goto, OwnLocks, UnderCreation, UnderControl, CreationExclusive,
              ControlExclusive, CreationFree, ControlFree
  <1>0. t \in Tasks /\ None \notin Tasks
    BY Kinds, TaskAssumption
  <1>1. CASE RecoverSnapshot(t)
    BY <1>0, <1>1, Kinds DEF TypeOK, Placed, RecoverSnapshot
  <1>2. CASE RecoverReplace(t)
    BY <1>0, <1>2, Kinds DEF TypeOK, Placed, RecoverReplace
  <1>3. CASE RecoverNext(t)
    BY <1>0, <1>3, Kinds DEF TypeOK, Placed, RecoverNext
  <1>4. CASE RecoverLock(t)
    BY <1>0, <1>4, Kinds DEF TypeOK, Placed, RecoverLock
  <1>5. CASE RecoverClose(t)
    BY <1>0, <1>5, Kinds DEF TypeOK, Placed, RecoverClose
  <1>6. CASE Teardown(t)
    BY <1>0, <1>6, Kinds DEF TypeOK, Placed, Teardown
  <1> QED BY <1>1, <1>2, <1>3, <1>4, <1>5, <1>6 DEF Recover

(* Every step of a drain respects the two locks. *)
LEMMA DrainLocks ==
    ASSUME TypeOK, Placed, CreationExclusive, ControlExclusive, NEW t \in Drains, Drain(t)
    PROVE  OwnLocks(t)
  <1> USE DEF registryVars, lockVars, mediaVars, dbVars, taskVars, localVars, processVars,
              restVars, Goto, OwnLocks, UnderCreation, UnderControl, CreationExclusive,
              ControlExclusive, CreationFree, ControlFree
  <1>0. t \in Tasks /\ None \notin Tasks
    BY Kinds, TaskAssumption
  <1>1. CASE DrainBegin(t)
    BY <1>0, <1>1, Kinds DEF TypeOK, Placed, DrainBegin
  <1>2. CASE DrainMap(t)
    BY <1>0, <1>2, Kinds DEF TypeOK, Placed, DrainMap
  <1>3. CASE DrainRoom(t)
    BY <1>0, <1>3, Kinds DEF TypeOK, Placed, DrainRoom
  <1>4. CASE DrainEnd(t)
    BY <1>0, <1>4, Kinds DEF TypeOK, Placed, DrainEnd
  <1> QED BY <1>1, <1>2, <1>3, <1>4 DEF Drain

----------------------------------------------------------------------------
(* The room map and the tombstones. *)

(* The tombstone and the pending count after each operator on a Room. *)
LEMMA OperatorFields ==
    ASSUME NEW s \in RoomStates
    PROVE  /\ Tombstoned(s).deleting /\ Tombstoned(s).pending = s.pending
           /\ Emptied(s).deleting /\ Emptied(s).pending = s.pending
           /\ ~Restored(s).deleting /\ Restored(s).pending = s.pending
           /\ Unreserved(s).deleting = s.deleting
           /\ Unreserved(s).pending = IF s.pending = 0 THEN 0 ELSE s.pending - 1
           /\ \A t : /\ Seated(s, t).deleting = s.deleting
                     /\ Seated(s, t).pending = Unreserved(s).pending
           /\ \A t, gone : /\ Published(s, t, gone).deleting = s.deleting
                           /\ Published(s, t, gone).pending = s.pending
           /\ \A m : /\ [s EXCEPT !.members = m].deleting = s.deleting
                     /\ [s EXCEPT !.members = m].pending = s.pending
                     /\ [s EXCEPT !.deleting = TRUE, !.members = m].pending = s.pending
           /\ \A n : /\ [s EXCEPT !.pending = n].deleting = s.deleting
                     /\ [s EXCEPT !.pending = n].pending = n
  BY DEF RoomStates, Tombstoned, Emptied, Restored, Unreserved, Seated, Published

(* A step of t tombstones a room, or unmaps it before a drain, only while  *)
(* nobody else holds its control lock, and maps only the room it has       *)
(* built.                                                                  *)
OwnRooms(t) ==
    /\ \A r \in RoomIds : rooms'[r] # rooms[r] =>
         \/ rooms'[r] = None /\ (draining \/ control[rooms[r]] \in {None, t})
         \/ t \in Joins /\ pc[t] = "publish" /\ r = room[t] /\ rooms'[r] = t
    /\ \A i \in Joins :
         state'[i].deleting /\ ~state[i].deleting => control[i] \in {None, t}
    /\ draining => draining'

(* Every step of a join respects the rooms others control. *)
LEMMA JoinRooms ==
    ASSUME TypeOK, Placed, ControlExclusive, DrainFlagged, NEW t \in Joins, Join(t)
    PROVE  OwnRooms(t)
  <1> USE DEF registryVars, lockVars, mediaVars, dbVars, taskVars, localVars, processVars,
              restVars, Goto
  <1>0. t \in Tasks /\ state \in [Joins -> RoomStates]
    BY Kinds DEF TypeOK
  <1>1. CASE JoinLookup(t)
    BY <1>1 DEF OwnRooms, JoinLookup
  <1>2. CASE JoinReserve(t)
    <2>1. \A i \in Joins : state'[i].deleting = state[i].deleting
      <3> TAKE i \in Joins
      <3>1. PICK s \in RoomStates : s = state[i]
        BY <1>0
      <3>2. state'[i] = s \/ state'[i] = [s EXCEPT !.pending = s.pending + 1]
        BY <1>0, <1>2, <3>1 DEF JoinReserve
      <3> QED BY <3>1, <3>2 DEF RoomStates
    <2> QED BY <1>2, <2>1 DEF OwnRooms, JoinReserve
  <1>3. CASE JoinCreate(t)
    BY <1>3 DEF OwnRooms, JoinCreate
  <1>4. CASE JoinLoad(t)
    <2>1. \A i \in Joins : state'[i].deleting => state[i].deleting
      BY <1>0, <1>4 DEF JoinLoad, NewRoom
    <2> QED BY <1>4, <2>1 DEF OwnRooms, JoinLoad
  <1>5. CASE JoinRoute(t)
    BY <1>5 DEF OwnRooms, JoinRoute
  <1>6. CASE JoinRegister(t)
    BY <1>6 DEF OwnRooms, JoinRegister
  <1>7. CASE JoinRollback(t)
    BY <1>7 DEF OwnRooms, JoinRollback
  <1>8. CASE JoinPublish(t)
    <2>1. \A i \in Joins : state'[i].deleting = state[i].deleting
      BY <1>0, <1>8, OperatorFields DEF JoinPublish
    <2> QED BY <1>8, <2>1 DEF OwnRooms, JoinPublish, TypeOK
  <1>9. CASE JoinSnapshot(t)
    BY <1>9 DEF OwnRooms, JoinSnapshot
  <1>10. CASE JoinControl(t)
    BY <1>10 DEF OwnRooms, JoinControl
  <1>11. CASE JoinRefused(t)
    BY <1>11 DEF OwnRooms, JoinRefused
  <1>12. CASE JoinInsert(t)
    <2>1. \A i \in Joins : state'[i].deleting = state[i].deleting
      BY <1>0, <1>12, OperatorFields DEF JoinInsert
    <2> QED BY <1>12, <2>1 DEF OwnRooms, JoinInsert
  <1>13. CASE DropCreation(t)
    BY <1>13 DEF OwnRooms, DropCreation
  <1>14. CASE DropRelease(t)
    <2>1. \A i \in Joins : i # arc[t] => state'[i] = state[i]
      BY <1>0, <1>14 DEF DropRelease, Evict
    <2>2. control[arc[t]] = None
      BY <1>14 DEF DropRelease, ControlFree
    <2>3. \A r \in RoomIds : rooms'[r] # rooms[r] => rooms'[r] = None /\ rooms[r] = arc[t]
      BY <1>14 DEF DropRelease, Evict, Evictable, TypeOK
    <2> QED BY <1>14, <2>1, <2>2, <2>3 DEF OwnRooms, DropRelease
  <1>15. CASE Teardown(t)
    BY <1>15 DEF OwnRooms, Teardown
  <1> QED BY <1>1, <1>2, <1>3, <1>4, <1>5, <1>6, <1>7, <1>8, <1>9, <1>10, <1>11, <1>12,
             <1>13,
          <1>14, <1>15 DEF Join

(* Every step of a leave respects the rooms others control. *)
LEMMA LeaveRooms ==
    ASSUME TypeOK, Placed, ControlExclusive, DrainFlagged, NEW t \in Leaves, Leave(t)
    PROVE  OwnRooms(t)
  <1> USE DEF registryVars, lockVars, mediaVars, dbVars, taskVars, localVars, processVars,
              restVars, Goto
  <1>0. t \in Tasks /\ state \in [Joins -> RoomStates]
    BY Kinds DEF TypeOK
  <1>1. CASE LeaveLookup(t)
    BY <1>1 DEF OwnRooms, LeaveLookup
  <1>2. CASE LeaveRemove(t)
    <2>1. \A i \in Joins : state'[i].deleting = state[i].deleting
      BY <1>0, <1>2, OperatorFields DEF LeaveRemove
    <2> QED BY <1>2, <2>1 DEF OwnRooms, LeaveRemove
  <1>3. CASE LeaveCreation(t)
    BY <1>3 DEF OwnRooms, LeaveCreation
  <1>4. CASE LeaveEvict(t)
    <2>1. \A i \in Joins : i # arc[t] => state'[i] = state[i]
      BY <1>0, <1>4 DEF LeaveEvict, Evict
    <2>2. control[arc[t]] = None
      BY <1>4 DEF LeaveEvict, ControlFree
    <2>3. \A r \in RoomIds : rooms'[r] # rooms[r] => rooms'[r] = None /\ rooms[r] = arc[t]
      BY <1>4 DEF LeaveEvict, Evict, Evictable, TypeOK
    <2> QED BY <1>4, <2>1, <2>2, <2>3 DEF OwnRooms, LeaveEvict
  <1>5. CASE Teardown(t)
    BY <1>5 DEF OwnRooms, Teardown
  <1> QED BY <1>1, <1>2, <1>3, <1>4, <1>5 DEF Leave

(* Every step of a create_persisted_room respects the rooms others control. *)
LEMMA CreateRooms ==
    ASSUME TypeOK, Placed, ControlExclusive, DrainFlagged, NEW t \in Creates, Create(t)
    PROVE  OwnRooms(t)
  <1> USE DEF registryVars, lockVars, mediaVars, dbVars, taskVars, localVars, processVars,
              restVars, Goto
  <1>0. t \in Tasks /\ state \in [Joins -> RoomStates]
    BY Kinds DEF TypeOK
  <1>1. CASE CreateLock(t)
    BY <1>1 DEF OwnRooms, CreateLock
  <1>2. CASE CreateInsert(t)
    BY <1>2 DEF OwnRooms, CreateInsert
  <1> QED BY <1>1, <1>2 DEF Create

(* Every step of a delete_persisted_room respects the rooms others control. *)
LEMMA DeleteRooms ==
    ASSUME TypeOK, Placed, ControlExclusive, DrainFlagged, NEW t \in Deletes, Delete(t)
    PROVE  OwnRooms(t)
  <1> USE DEF registryVars, lockVars, mediaVars, dbVars, taskVars, localVars, processVars,
              restVars, Goto
  <1>0. t \in Tasks /\ state \in [Joins -> RoomStates]
    BY Kinds DEF TypeOK
  <1>1. CASE DeleteRead(t)
    BY <1>1 DEF OwnRooms, DeleteRead
  <1>2. CASE DeleteLock(t)
    BY <1>2 DEF OwnRooms, DeleteLock
  <1>3. CASE DeleteTombstone(t)
    <2>1. \A i \in Joins : state'[i] # state[i] => i = arc[t] /\ control[i] = None
      BY <1>0, <1>3 DEF DeleteTombstone, ControlFree
    <2> QED BY <1>3, <2>1 DEF OwnRooms, DeleteTombstone
  <1>4. CASE DeleteRow(t)
    BY <1>4 DEF OwnRooms, DeleteRow
  <1>5. CASE DeleteRestore(t)
    <2>1. \A i \in Joins : state'[i].deleting => state[i].deleting
      BY <1>0, <1>5, OperatorFields DEF DeleteRestore
    <2> QED BY <1>5, <2>1 DEF OwnRooms, DeleteRestore
  <1>6. CASE DeleteEmpty(t)
    <2>1. \A i \in Joins : state'[i].deleting = state[i].deleting
      <3> TAKE i \in Joins
      <3>1. PICK s \in RoomStates : s = state[i]
        BY <1>0
      <3>2. state'[i] = s \/ state'[i] = [s EXCEPT !.members = {}]
        BY <1>0, <1>6, <3>1 DEF DeleteEmpty
      <3> QED BY <3>1, <3>2 DEF RoomStates
    <2>2. arc[t] \in Joins /\ control[arc[t]] = t
      BY <1>0, <1>6, TaskAssumption DEF DeleteEmpty, Placed, ControlExclusive, UnderControl,
         Tasks
    <2>3. \A r \in RoomIds : rooms'[r] # rooms[r] => rooms'[r] = None /\ rooms[r] = arc[t]
      BY <1>6 DEF DeleteEmpty, TypeOK
    <2> QED BY <1>6, <2>1, <2>2, <2>3 DEF OwnRooms, DeleteEmpty
  <1>7. CASE Teardown(t)
    BY <1>7 DEF OwnRooms, Teardown
  <1> QED BY <1>1, <1>2, <1>3, <1>4, <1>5, <1>6, <1>7 DEF Delete

(* Every step of a policy write respects the rooms others control. *)
LEMMA WriteRooms ==
    ASSUME TypeOK, Placed, ControlExclusive, DrainFlagged, NEW t \in Writers \cup Owners,
           \/ WriterLookup(t) \/ OwnerMark(t) \/ OwnerFind(t) \/ Write(t)
           \/ DormantCheck(t) \/ DormantWrite(t)
    PROVE  OwnRooms(t)
  <1> USE DEF registryVars, lockVars, mediaVars, dbVars, taskVars, localVars, processVars,
              restVars, Goto
  <1>0. t \in Tasks /\ state \in [Joins -> RoomStates]
    BY Kinds DEF TypeOK
  <1>1. CASE WriterLookup(t)
    BY <1>1 DEF OwnRooms, WriterLookup
  <1>2. CASE OwnerMark(t)
    BY <1>2 DEF OwnRooms, OwnerMark
  <1>f. CASE OwnerFind(t)
    BY <1>f DEF OwnRooms, OwnerFind
  <1>3. CASE Admit(t)
    BY <1>3 DEF OwnRooms, Admit
  <1>4. CASE Persist(t)
    BY <1>4 DEF OwnRooms, Persist
  <1>5. CASE Announce(t)
    <2>1. \A i \in Joins : state'[i].deleting = state[i].deleting
      BY <1>0, <1>5, OperatorFields DEF Announce
    <2> QED BY <1>5, <2>1 DEF OwnRooms, Announce
  <1>6. CASE Quarantine(t)
    <2>1. \A i \in Joins : i # arc[t] => state'[i] = state[i]
      BY <1>0, <1>6 DEF Quarantine
    <2>2. control[arc[t]] = t
      BY <1>0, <1>6 DEF Quarantine, ControlExclusive, UnderControl
    <2> QED BY <1>6, <2>1, <2>2 DEF OwnRooms, Quarantine
  <1>7. CASE Sweep(t)
    BY <1>7 DEF OwnRooms, Sweep
  <1>8. CASE DormantCheck(t)
    BY <1>8 DEF OwnRooms, DormantCheck
  <1>9. CASE DormantWrite(t)
    BY <1>9 DEF OwnRooms, DormantWrite
  <1> QED BY <1>1, <1>2, <1>f, <1>3, <1>4, <1>5, <1>6, <1>7, <1>8, <1>9 DEF Write

(* Every step of worker recovery respects the rooms others control. *)
LEMMA RecoverRooms ==
    ASSUME TypeOK, Placed, ControlExclusive, DrainFlagged, NEW t \in {Recovery}, Recover(t)
    PROVE  OwnRooms(t)
  <1> USE DEF registryVars, lockVars, mediaVars, dbVars, taskVars, localVars, processVars,
              restVars, Goto
  <1>0. t \in Tasks /\ state \in [Joins -> RoomStates]
    BY Kinds DEF TypeOK
  <1>1. CASE RecoverSnapshot(t)
    BY <1>1 DEF OwnRooms, RecoverSnapshot
  <1>2. CASE RecoverReplace(t)
    BY <1>2 DEF OwnRooms, RecoverReplace
  <1>3. CASE RecoverNext(t)
    BY <1>3 DEF OwnRooms, RecoverNext
  <1>4. CASE RecoverLock(t)
    BY <1>4 DEF OwnRooms, RecoverLock
  <1>5. CASE RecoverClose(t)
    <2>1. \A i \in Joins : state'[i] # state[i] => i = arc[t] /\ control[i] = None
      BY <1>0, <1>5 DEF RecoverClose, ControlFree
    <2>2. \A r \in RoomIds : rooms'[r] # rooms[r] =>
             rooms'[r] = None /\ rooms[r] = arc[t] /\ control[arc[t]] = None
      BY <1>5 DEF RecoverClose, ControlFree, TypeOK
    <2> QED BY <1>5, <2>1, <2>2 DEF OwnRooms, RecoverClose
  <1>6. CASE Teardown(t)
    BY <1>6 DEF OwnRooms, Teardown
  <1> QED BY <1>1, <1>2, <1>3, <1>4, <1>5, <1>6 DEF Recover

(* Every step of a drain respects the rooms others control. *)
LEMMA DrainRooms ==
    ASSUME TypeOK, Placed, ControlExclusive, DrainFlagged, NEW t \in Drains, Drain(t)
    PROVE  OwnRooms(t)
  <1> USE DEF registryVars, lockVars, mediaVars, dbVars, taskVars, localVars, processVars,
              restVars, Goto
  <1>0. t \in Tasks /\ state \in [Joins -> RoomStates]
    BY Kinds DEF TypeOK
  <1>1. CASE DrainBegin(t)
    BY <1>1 DEF OwnRooms, DrainBegin
  <1>2. CASE DrainMap(t)
    <2>1. draining
      BY <1>0, <1>2 DEF DrainMap, DrainFlagged
    <2> QED BY <1>2, <2>1 DEF OwnRooms, DrainMap
  <1>3. CASE DrainRoom(t)
    <2>1. PICK i \in doomed :
             /\ control[i] = None
             /\ state' = [state EXCEPT ![i] = [@ EXCEPT !.deleting = TRUE, !.members = {}]]
      BY <1>3 DEF DrainRoom, ControlFree
    <2>2. \A j \in Joins : j # i => state'[j] = state[j]
      BY <1>0, <2>1
    <2>3. rooms' = rooms /\ draining' = draining
      BY <1>3 DEF DrainRoom
    <2> QED BY <2>1, <2>2, <2>3 DEF OwnRooms
  <1>4. CASE DrainEnd(t)
    BY <1>4 DEF OwnRooms, DrainEnd
  <1> QED BY <1>1, <1>2, <1>3, <1>4 DEF Drain

----------------------------------------------------------------------------
(* Safety. *)

(* A writer past its admission has its room mapped and live, unless a drain *)
(* has begun: what CommittedPolicyIsPublished needs one step earlier.       *)
Governing ==
    \A t \in Writers :
        pc[t] \in {"persist", "announce", "quarantine"} /\ ~draining
            => MappedLive(room[t], arc[t])

SafetyInvariant ==
    /\ TypeOK
    /\ Placed
    /\ CreationExclusive
    /\ ControlExclusive
    /\ DrainFlagged
    /\ BuildsAlone
    /\ CapacityRespected
    /\ Governing

(* A step of a request obeys all three frames. *)
LEMMA StepFrames ==
    ASSUME TypeOK, Placed, CreationExclusive, ControlExclusive, DrainFlagged,
           NEW t \in Tasks, Step(t)
    PROVE  OwnPlace(t) /\ OwnLocks(t) /\ OwnRooms(t)
  <1>1. CASE t \in Joins /\ Join(t)
    BY <1>1, JoinPlaces, JoinLocks, JoinRooms
  <1>2. CASE t \in Leaves /\ Leave(t)
    BY <1>2, LeavePlaces, LeaveLocks, LeaveRooms
  <1>3. CASE t \in Creates /\ Create(t)
    BY <1>3, CreatePlaces, CreateLocks, CreateRooms
  <1>4. CASE t \in Deletes /\ Delete(t)
    BY <1>4, DeletePlaces, DeleteLocks, DeleteRooms
  <1>5. CASE \/ t \in Writers /\ (WriterLookup(t) \/ Write(t))
             \/ t \in Owners /\ (OwnerMark(t) \/ OwnerFind(t) \/ Write(t) \/ DormantCheck(t)
                                   \/ DormantWrite(t))
    BY <1>5, WritePlaces, WriteLocks, WriteRooms
  <1>6. CASE t \in Drains /\ Drain(t)
    BY <1>6, DrainPlaces, DrainLocks, DrainRooms
  <1>7. CASE t = Recovery /\ Recover(t)
    BY <1>7, RecoverPlaces, RecoverLocks, RecoverRooms
  <1> QED BY <1>1, <1>2, <1>3, <1>4, <1>5, <1>6, <1>7 DEF Step

(* Mutual exclusion survives every step: nobody takes a lock that is held  *)
(* and nobody gives back another's.                                        *)
LEMMA LocksStep ==
    ASSUME TypeOK, Placed, CreationExclusive, ControlExclusive, NEW t \in Tasks,
           OwnPlace(t), OwnLocks(t)
    PROVE  Placed' /\ CreationExclusive' /\ ControlExclusive'
  <1>1. Placed'
    BY Kinds DEF Placed, OwnPlace
  <1>2. CreationExclusive'
    <2> SUFFICES ASSUME NEW u \in Tasks, UnderCreation(u)' PROVE creation' = u
      BY DEF CreationExclusive
    <2>1. CASE u = t
      BY <2>1 DEF OwnLocks
    <2>2. CASE u # t
      <3>1. UnderCreation(u)
        BY <2>2 DEF OwnPlace, UnderCreation
      <3>2. creation = u
        BY <3>1 DEF CreationExclusive
      <3> QED BY <2>2, <3>2, TaskAssumption DEF OwnLocks, Tasks
    <2> QED BY <2>1, <2>2
  <1>3. ControlExclusive'
    <2> SUFFICES ASSUME NEW u \in Tasks, UnderControl(u)' PROVE control'[arc'[u]] = u
      BY DEF ControlExclusive
    <2>1. CASE u = t
      BY <2>1 DEF OwnLocks
    <2>2. CASE u # t
      <3>1. UnderControl(u) /\ arc'[u] = arc[u]
        BY <2>2 DEF OwnPlace, UnderControl
      <3>2. control[arc[u]] = u
        BY <3>1 DEF ControlExclusive
      <3>3. arc[u] \in Joins
        BY <3>1 DEF UnderControl, Placed, TypeOK
      <3> QED BY <2>2, <3>1, <3>2, <3>3, TaskAssumption DEF OwnLocks, Tasks
    <2> QED BY <2>1, <2>2
  <1> QED BY <1>1, <1>2, <1>3

(* The drain's flag is raised by its first step and never lowered. *)
LEMMA DrainFlagStep ==
    ASSUME TypeOK, DrainFlagged, NEW t \in Tasks, Step(t), OwnPlace(t), OwnRooms(t)
    PROVE  DrainFlagged'
  <1> SUFFICES ASSUME NEW d \in Drains, pc'[d] # "idle" PROVE draining'
    BY DEF DrainFlagged
  <1>1. CASE d # t
    BY <1>1, Kinds DEF DrainFlagged, OwnPlace, OwnRooms
  <1>2. CASE d = t
    <2>1. Drain(t)
      BY <1>2, Kinds DEF Step
    <2>2. pc[t] = "idle" => draining'
      BY <2>1 DEF Drain, DrainBegin, DrainMap, DrainRoom, DrainEnd
    <2> QED BY <1>2, <2>2 DEF DrainFlagged, OwnRooms
  <1> QED BY <1>1, <1>2

(* The mapped rooms. *)
Mapped == {r \in RoomIds : rooms[r] # None}

(* The map is finite. *)
LEMMA MappedFinite ==
    /\ IsFiniteSet(Mapped) /\ Cardinality(Mapped) \in Nat
    /\ IsFiniteSet(Mapped') /\ Cardinality(Mapped') \in Nat
  <1>1. Mapped \subseteq RoomIds /\ Mapped' \subseteq RoomIds
    BY DEF Mapped
  <1>2. IsFiniteSet(Mapped) /\ IsFiniteSet(Mapped')
    BY <1>1, FS_Subset, ParameterAssumption
  <1> QED BY <1>2, FS_CardinalityType

(* A room is mapped only by the join that has built it, alone and below    *)
(* the cap, so the cap holds after the insertion too.                      *)
LEMMA CapacityStep ==
    ASSUME TypeOK, Placed, CreationExclusive, BuildsAlone, CapacityRespected, NEW t \in Tasks,
           Step(t), OwnPlace(t), OwnLocks(t), OwnRooms(t), CreationExclusive'
    PROVE  BuildsAlone' /\ CapacityRespected'
  <1> USE DEF Mapped
  <1>1. CASE t \in Joins /\ pc[t] = "publish"
    <2>1. Cardinality(Mapped) < MaxRooms
      BY <1>1, MappedFinite, ParameterAssumption DEF BuildsAlone, Building, AtCapacity
    <2>2. Mapped' \subseteq Mapped \cup {room[t]}
      BY <1>1 DEF OwnRooms
    <2>3. /\ IsFiniteSet(Mapped \cup {room[t]})
          /\ Cardinality(Mapped \cup {room[t]}) <= Cardinality(Mapped) + 1
      <3>1. /\ IsFiniteSet(Mapped \cup {room[t]})
            /\ Cardinality(Mapped \cup {room[t]}) =
                 IF room[t] \in Mapped THEN Cardinality(Mapped) ELSE Cardinality(Mapped) + 1
        BY MappedFinite, FS_AddElement
      <3> QED BY <3>1, MappedFinite
    <2>4. Cardinality(Mapped') <= Cardinality(Mapped \cup {room[t]})
      BY <2>2, <2>3, FS_Subset
    <2>5. Cardinality(Mapped') <= MaxRooms
      <3>1. Cardinality(Mapped \cup {room[t]}) \in Nat
        BY <2>3, FS_CardinalityType
      <3> QED BY <2>1, <2>3, <2>4, <3>1, MappedFinite, ParameterAssumption
    <2>6. \A u \in Joins : ~Building(u)'
      <3>1. ASSUME NEW u \in Joins, u # t, Building(u)' PROVE FALSE
        <4>1. UnderCreation(u)' /\ Building(u)
          BY <3>1, Kinds DEF Building, UnderCreation, OwnPlace
        <4>2. creation = u
          BY <4>1, Kinds DEF CreationExclusive, UnderCreation, Building
        <4>3. creation = t
          BY <1>1 DEF CreationExclusive, UnderCreation
        <4> QED BY <3>1, <4>2, <4>3
      <3>2. ~Building(t)'
        <4>1. Join(t)
          BY <1>1, Kinds DEF Step
        <4> QED BY <1>1, <4>1 DEF Join, JoinLookup, JoinReserve, JoinCreate, JoinLoad,
                JoinRoute,
                JoinRegister, JoinRollback, JoinPublish, JoinSnapshot, JoinControl, JoinRefused,
                JoinInsert, DropCreation, DropRelease, Teardown, Goto, Building, TypeOK
      <3> QED BY <3>1, <3>2
    <2> QED BY <2>5, <2>6 DEF BuildsAlone, CapacityRespected
  <1>2. CASE ~(t \in Joins /\ pc[t] = "publish")
    <2>1. \A r \in RoomIds : rooms'[r] \in {rooms[r], None}
      BY <1>2 DEF OwnRooms
    <2>2. Mapped' \subseteq Mapped
      BY <2>1
    <2>3. Cardinality(Mapped') <= Cardinality(Mapped)
      BY <2>2, FS_Subset, MappedFinite
    <2>4. CapacityRespected'
      BY <2>3, MappedFinite, ParameterAssumption DEF CapacityRespected
    <2>5. ~AtCapacity => ~AtCapacity'
      BY <2>3, MappedFinite, ParameterAssumption DEF AtCapacity
    <2>6. ASSUME NEW u \in Joins, Building(u)'
          PROVE  rooms'[room'[u]] = None /\ ~AtCapacity'
      <3>1. CASE Building(u)
        <4>1. room'[u] = room[u] /\ room[u] \in RoomIds
          <5>1. CASE u # t
            BY <3>1, <5>1, Kinds DEF OwnPlace, Building, Placed
          <5>2. CASE u = t
            <6>1. Join(u)
              BY <5>2, Kinds DEF Step
            <6> QED BY <3>1, <6>1 DEF Join, JoinLookup, JoinReserve, JoinCreate, JoinLoad,
                    JoinRoute, JoinRegister, JoinRollback, JoinPublish, JoinSnapshot,
                       JoinControl,
                    JoinRefused, JoinInsert, DropCreation, DropRelease, Teardown, taskVars,
                    Building, Placed
          <5> QED BY <5>1, <5>2
        <4> QED BY <2>1, <2>5, <3>1, <4>1 DEF BuildsAlone
      <3>2. CASE ~Building(u)
        <4>1. u = t /\ Join(u)
          BY <2>6, <3>2, Kinds DEF Building, OwnPlace, Step
        <4>2. JoinCreate(u) /\ room[u] \in RoomIds
          BY <2>6, <3>2, <4>1, Kinds DEF Join, JoinLookup, JoinReserve, JoinCreate,
             JoinLoad,
             JoinRoute, JoinRegister, JoinRollback, JoinPublish, JoinSnapshot, JoinControl,
             JoinRefused, JoinInsert, DropCreation, DropRelease, Teardown, Goto, Building,
                TypeOK,
             Placed
        <4>3. rooms[room[u]] = None /\ ~AtCapacity /\ room' = room
          BY <2>6, <4>2, Kinds DEF JoinCreate, CreationRefused, Building, Goto, TypeOK
        <4> QED BY <2>1, <2>5, <4>2, <4>3
      <3> QED BY <3>1, <3>2
    <2> QED BY <2>4, <2>6 DEF BuildsAlone
  <1> QED BY <1>1, <1>2

(* Nobody unmaps or tombstones the room of a writer that holds control. *)
LEMMA GoverningStep ==
    ASSUME TypeOK, Placed, CreationExclusive, ControlExclusive, BuildsAlone, Governing,
           NEW t \in Tasks, Step(t), OwnPlace(t), OwnRooms(t)
    PROVE  Governing'
  <1> SUFFICES ASSUME NEW w \in Writers, pc'[w] \in {"persist", "announce", "quarantine"},
                      ~draining'
               PROVE  rooms'[room'[w]] = arc'[w] /\ ~state'[arc'[w]].deleting
    BY DEF Governing, MappedLive
  <1>0. ~draining /\ w \in Tasks
    BY Kinds DEF OwnRooms
  <1>1. CASE w # t
    <2>1. pc'[w] = pc[w] /\ room'[w] = room[w] /\ arc'[w] = arc[w]
      BY <1>0, <1>1 DEF OwnPlace
    <2>2. room[w] \in RoomIds /\ arc[w] \in Joins
      BY <2>1 DEF Placed
    <2>3. rooms[room[w]] = arc[w] /\ ~state[arc[w]].deleting
      BY <1>0, <2>1 DEF Governing, MappedLive
    <2>4. control[arc[w]] = w /\ w # None
      BY <1>0, <2>1, Kinds DEF ControlExclusive, UnderControl
    <2>5. rooms'[room[w]] = rooms[room[w]]
      <3>1. ~(t \in Joins /\ pc[t] = "publish" /\ room[w] = room[t])
        BY <2>2, <2>3, Kinds DEF BuildsAlone, Building
      <3> QED BY <1>0, <1>1, <2>2, <2>3, <2>4, <3>1 DEF OwnRooms
    <2>6. ~state'[arc[w]].deleting
      BY <1>0, <1>1, <2>2, <2>3, <2>4 DEF OwnRooms
    <2> QED BY <2>1, <2>3, <2>5, <2>6
  <1>2. CASE w = t
    <2>1. WriterLookup(w) \/ Write(w)
      BY <1>2, Kinds, TaskAssumption DEF Step
    <2>2. CASE Admit(w) /\ pc'[w] = "persist"
      BY <1>0, <2>2 DEF Admit, Admissible, OwnerAdmissible, MappedLive, Goto, TypeOK,
         taskVars
    <2>3. CASE Persist(w)
      <3>1. MappedLive(room[w], arc[w])
        BY <1>0, <2>3 DEF Governing, Persist
      <3> QED BY <2>3, <3>1 DEF Persist, MappedLive, taskVars
    <2>4. CASE ~(Admit(w) /\ pc'[w] = "persist") /\ ~Persist(w)
      BY <1>0, <2>1, <2>4 DEF Write, WriterLookup, Admit, Announce, Quarantine, Sweep, Goto,
         TypeOK
    <2> QED BY <2>2, <2>3, <2>4
  <1> QED BY <1>1, <1>2

(* The safety invariant holds initially. *)
LEMMA SafetyInit == Init => SafetyInvariant
  <1> SUFFICES ASSUME Init PROVE SafetyInvariant
    OBVIOUS
  <1>1. \A t \in Tasks : pc[t] = "idle"
    BY DEF Init
  <1>2. Placed /\ CreationExclusive /\ ControlExclusive /\ DrainFlagged /\ BuildsAlone
     /\ Governing
    BY <1>1, Kinds DEF Placed, CreationExclusive, ControlExclusive, DrainFlagged,
       BuildsAlone,
       Governing, UnderCreation, UnderControl, Building
  <1>3. CapacityRespected
    <2>1. {r \in RoomIds : rooms[r] # None} = {}
      BY DEF Init
    <2> QED BY <2>1, FS_EmptySet, ParameterAssumption DEF CapacityRespected
  <1> QED BY <1>2, <1>3, TypeInit DEF SafetyInvariant

(* The safety invariant is inductive: one step per conjunct. *)
LEMMA SafetyStep == SafetyInvariant /\ [Next]_vars => SafetyInvariant'
  <1> SUFFICES ASSUME SafetyInvariant, [Next]_vars PROVE SafetyInvariant'
    OBVIOUS
  <1>1. TypeOK'
    BY TypeStep DEF SafetyInvariant
  <1>2. ASSUME NEW t \in Tasks, Step(t)
        PROVE  SafetyInvariant'
    <2>1. OwnPlace(t) /\ OwnLocks(t) /\ OwnRooms(t)
      BY <1>2, StepFrames DEF SafetyInvariant
    <2>2. Placed' /\ CreationExclusive' /\ ControlExclusive'
      BY <2>1, LocksStep DEF SafetyInvariant
    <2>3. DrainFlagged'
      BY <1>2, <2>1, DrainFlagStep DEF SafetyInvariant
    <2>4. BuildsAlone' /\ CapacityRespected'
      BY <1>2, <2>1, <2>2, CapacityStep DEF SafetyInvariant
    <2>5. Governing'
      BY <1>2, <2>1, GoverningStep DEF SafetyInvariant
    <2> QED BY <1>1, <2>2, <2>3, <2>4, <2>5 DEF SafetyInvariant
  <1>3. ASSUME UNCHANGED <<pc, room, arc, rooms, creation, control, draining, state>>
        PROVE  SafetyInvariant'
    BY <1>1, <1>3 DEF SafetyInvariant, Placed, CreationExclusive, ControlExclusive,
       DrainFlagged,
       BuildsAlone, CapacityRespected, Governing, UnderCreation, UnderControl, Building,
       AtCapacity, MappedLive
  <1>4. ASSUME (\E t \in Tasks : Settle(t)) \/ (\E w \in Workers : WorkerDies(w))
     \/ UNCHANGED vars
        PROVE  UNCHANGED <<pc, room, arc, rooms, creation, control, draining, state>>
    BY <1>4 DEF Settle, WorkerDies, vars, registryVars, lockVars, taskVars, processVars,
       restVars
  <1> QED BY <1>2, <1>3, <1>4 DEF Next, Terminated

(* The locks exclude each other, a room is built alone and below the cap, *)
(* and a writer keeps its room, in every reachable state.                 *)
THEOREM SafetyHolds == Spec => []SafetyInvariant
  BY SafetyInit, SafetyStep, PTL DEF Spec

(* Every variable of the room manager keeps its type; in particular no     *)
(* cleanup ever drives pending_joins below zero.                           *)
THEOREM TypeCorrect == Spec => []TypeOK
  <1>1. SafetyInvariant => TypeOK
    BY DEF SafetyInvariant
  <1> QED BY <1>1, SafetyHolds, PTL

(* However many first joins race, the map never holds more than max_rooms. *)
THEOREM CapacityHolds == Spec => []CapacityRespected
  <1>1. SafetyInvariant => CapacityRespected
    BY DEF SafetyInvariant
  <1> QED BY <1>1, SafetyHolds, PTL

(* A policy that run_room_control has committed is published in the live,  *)
(* mapped room it was committed for.                                       *)
THEOREM CommittedPoliciesArePublished == Spec => []CommittedPolicyIsPublished
  <1>1. SafetyInvariant => CommittedPolicyIsPublished
    BY DEF SafetyInvariant, Governing, CommittedPolicyIsPublished
  <1> QED BY <1>1, SafetyHolds, PTL

----------------------------------------------------------------------------
(* The accounting of pending joins. *)

(* The incarnation a join would create does not exist yet, and nobody can  *)
(* hold an Arc to it or find it in the map.                                *)
Early == {"idle", "create", "load", "route", "register", "publish"}
Unpublished(i) == pc[i] \in Early
Known ==
    /\ \A r \in RoomIds : rooms[r] \in Joins => ~Unpublished(rooms[r])
    /\ \A u \in Tasks : arc[u] \in Joins => ~Unpublished(arc[u])

Holders(i) == {t \in Joins : Reserved(t, i)}

(* The joins that hold a reservation are finitely many; one more or one *)
(* fewer changes their number by one.                                   *)
LEMMA HoldersFinite ==
    ASSUME NEW i
    PROVE  /\ IsFiniteSet(Holders(i)) /\ Cardinality(Holders(i)) \in Nat
           /\ \A t \in Joins \ Holders(i) :
                Cardinality(Holders(i) \cup {t}) = Cardinality(Holders(i)) + 1
           /\ \A t \in Holders(i) :
                /\ Cardinality(Holders(i)) # 0
                /\ Cardinality(Holders(i) \ {t}) = Cardinality(Holders(i)) - 1
  <1>1. IsFiniteSet(Holders(i))
    <2>1. Holders(i) \subseteq Joins
      BY DEF Holders
    <2> QED BY <2>1, FS_Subset, ParameterAssumption
  <1>2. Cardinality(Holders(i)) \in Nat
    BY <1>1, FS_CardinalityType
  <1>3. \A t \in Joins \ Holders(i) : Cardinality(Holders(i)
     \cup {t}) = Cardinality(Holders(i)) + 1
    BY <1>1, FS_AddElement
  <1>4. ASSUME NEW t \in Holders(i)
        PROVE  /\ Cardinality(Holders(i)) # 0
               /\ Cardinality(Holders(i) \ {t}) = Cardinality(Holders(i)) - 1
    <2>1. Cardinality(Holders(i) \ {t}) = Cardinality(Holders(i)) - 1
      BY <1>1, <1>4, FS_RemoveElement
    <2>2. Cardinality(Holders(i)) # 0
      BY <1>1, <1>4, FS_EmptySet
    <2> QED BY <2>1, <2>2
  <1> QED BY <1>1, <1>2, <1>3, <1>4

(* Only joins touch the count. *)
KeepsPending == \A i \in Joins : state'[i].pending = state[i].pending

(* A task that is not a join leaves every pending count as it is. *)
LEMMA OthersKeepPending ==
    ASSUME TypeOK, NEW t \in Tasks \ Joins, Step(t)
    PROVE  KeepsPending
  <1>0. state \in [Joins -> RoomStates]
    BY DEF TypeOK
  <1>1. CASE t \in Leaves /\ Leave(t)
    <2>1. ASSUME NEW i \in Joins
          PROVE  state'[i].pending = state[i].pending
      <3>1. PICK s \in RoomStates : s = state[i]
        BY <1>0
      <3>2. \/ state'[i] = s \/ state'[i] = Tombstoned(s)
            \/ \E m : state'[i] = [s EXCEPT !.members = m]
        BY <1>0, <1>1, <3>1 DEF Leave, LeaveLookup, LeaveRemove, LeaveCreation, LeaveEvict,
           Evict,
           Teardown
      <3> QED BY <3>1, <3>2 DEF RoomStates, Tombstoned
    <2> QED BY <2>1 DEF KeepsPending
  <1>2. CASE t \in Creates /\ Create(t)
    BY <1>2 DEF KeepsPending, Create, CreateLock, CreateInsert
  <1>3. CASE t \in Deletes /\ Delete(t)
    <2>1. ASSUME NEW i \in Joins
          PROVE  state'[i].pending = state[i].pending
      <3>1. PICK s \in RoomStates : s = state[i]
        BY <1>0
      <3>2. \/ state'[i] = s \/ state'[i] = Tombstoned(s) \/ state'[i] = Restored(s)
            \/ state'[i] = [s EXCEPT !.members = {}]
        BY <1>0, <1>3, <3>1 DEF Delete, DeleteRead, DeleteLock, DeleteTombstone, DeleteRow,
           DeleteRestore, DeleteEmpty, Teardown
      <3> QED BY <3>1, <3>2 DEF RoomStates, Tombstoned, Restored
    <2> QED BY <2>1 DEF KeepsPending
  <1>4. CASE \/ t \in Writers /\ (WriterLookup(t) \/ Write(t))
             \/ t \in Owners /\ (OwnerMark(t) \/ OwnerFind(t) \/ Write(t) \/ DormantCheck(t)
                                   \/ DormantWrite(t))
    <2>1. ASSUME NEW i \in Joins
          PROVE  state'[i].pending = state[i].pending
      <3>1. PICK s \in RoomStates : s = state[i]
        BY <1>0
      <3>2. \/ state'[i] = s \/ state'[i] = Emptied(s)
            \/ \E gone : state'[i] = Published(s, t, gone)
        BY <1>0, <1>4, <3>1 DEF Write, WriterLookup, OwnerMark, OwnerFind, Admit, Persist,
           Announce, Quarantine, Sweep, DormantCheck, DormantWrite
      <3> QED BY <3>1, <3>2, OperatorFields
    <2> QED BY <2>1 DEF KeepsPending
  <1>5. CASE t \in Drains /\ Drain(t)
    <2>1. ASSUME NEW i \in Joins
          PROVE  state'[i].pending = state[i].pending
      <3>1. PICK s \in RoomStates : s = state[i]
        BY <1>0
      <3>2. state'[i] = s \/ state'[i] = [s EXCEPT !.deleting = TRUE, !.members = {}]
        BY <1>0, <1>5, <3>1 DEF Drain, DrainBegin, DrainMap, DrainRoom, DrainEnd
      <3> QED BY <3>1, <3>2 DEF RoomStates
    <2> QED BY <2>1 DEF KeepsPending
  <1>6. CASE t = Recovery /\ Recover(t)
    <2>1. ASSUME NEW i \in Joins
          PROVE  state'[i].pending = state[i].pending
      <3>1. PICK s \in RoomStates : s = state[i]
        BY <1>0
      <3>2. state'[i] = s \/ state'[i] = Emptied(s)
        BY <1>0, <1>6, <3>1 DEF Recover, RecoverSnapshot, RecoverReplace, RecoverNext,
           RecoverLock, RecoverClose, Teardown
      <3> QED BY <3>1, <3>2, OperatorFields
    <2> QED BY <2>1 DEF KeepsPending
  <1> QED BY <1>1, <1>2, <1>3, <1>4, <1>5, <1>6 DEF Step

(* No step lets anyone reach an incarnation that is not published. *)
LEMMA KnownStep ==
    ASSUME TypeOK, Placed, Known, NEW t \in Tasks, Step(t), OwnPlace(t), OwnRooms(t)
    PROVE  Known'
  <1>1. \A i \in Joins : ~Unpublished(i) => pc'[i] \notin Early
    <2> SUFFICES ASSUME NEW i \in Joins, ~Unpublished(i) PROVE pc'[i] \notin Early
      OBVIOUS
    <2>1. CASE i # t
      BY <2>1, Kinds DEF OwnPlace, Unpublished
    <2>2. CASE i = t
      <3>1. Join(t)
        BY <2>2, Kinds DEF Step
      <3> QED BY <2>2, <3>1 DEF Join, JoinLookup, JoinReserve, JoinCreate, JoinLoad,
                 JoinRoute,
              JoinRegister, JoinRollback, JoinPublish, JoinSnapshot, JoinControl, JoinRefused,
              JoinInsert, DropCreation, DropRelease, Teardown, Goto, Unpublished, Early, TypeOK
    <2> QED BY <2>1, <2>2
  <1>2. pc[t] = "publish" /\ t \in Joins => pc'[t] \notin Early
    <2> SUFFICES ASSUME t \in Joins, pc[t] = "publish" PROVE pc'[t] \notin Early
      OBVIOUS
    <2>1. JoinPublish(t) \/ JoinRollback(t)
      BY Kinds DEF Step, Join, JoinLookup, JoinReserve, JoinCreate, JoinLoad, JoinRoute,
         JoinRegister, JoinSnapshot, JoinControl, JoinRefused, JoinInsert, DropCreation,
         DropRelease, Teardown
    <2> QED BY <2>1 DEF JoinPublish, JoinRollback, Goto, Unpublished, Early, TypeOK
  <1>3. \A r \in RoomIds : rooms'[r] \in Joins => pc'[rooms'[r]] \notin Early
    <2> SUFFICES ASSUME NEW r \in RoomIds, rooms'[r] \in Joins PROVE pc'[rooms'[r]] \notin Early
      OBVIOUS
    <2>1. rooms'[r] = rooms[r] \/ (t \in Joins /\ pc[t] = "publish" /\ rooms'[r] = t)
      BY TaskAssumption DEF OwnRooms, Tasks
    <2>2. CASE rooms'[r] = rooms[r]
      <3>1. ~Unpublished(rooms[r])
        BY <2>2 DEF Known
      <3> QED BY <1>1, <2>2, <3>1 DEF Unpublished
    <2>3. CASE t \in Joins /\ pc[t] = "publish" /\ rooms'[r] = t
      BY <1>2, <2>3 DEF Unpublished
    <2> QED BY <2>1, <2>2, <2>3
  <1>4. \A u \in Tasks : arc'[u] \in Joins => pc'[arc'[u]] \notin Early
    <2> SUFFICES ASSUME NEW u \in Tasks, arc'[u] \in Joins PROVE pc'[arc'[u]] \notin Early
      OBVIOUS
    <2>1. \/ arc'[u] = arc[u]
          \/ \E r \in RoomIds : arc'[u] = rooms[r]
          \/ arc'[u] = t /\ t \in Joins /\ pc[t] = "publish"
      <3>1. CASE u # t
        BY <3>1 DEF OwnPlace
      <3>2. CASE u = t
        <4> USE DEF taskVars, TypeOK
        <4>1. CASE t \in Joins /\ Join(t)
          BY <3>2, <4>1 DEF Join, JoinLookup, JoinReserve, JoinCreate, JoinLoad, JoinRoute,
             JoinRegister, JoinRollback, JoinPublish, JoinSnapshot, JoinControl, JoinRefused,
             JoinInsert, DropCreation, DropRelease, Teardown, Placed
        <4>2. CASE t \in Leaves /\ Leave(t)
          BY <3>2, <4>2 DEF Leave, LeaveLookup, LeaveRemove, LeaveCreation, LeaveEvict,
             Teardown
        <4>3. CASE t \in Creates /\ Create(t)
          BY <3>2, <4>3 DEF Create, CreateLock, CreateInsert
        <4>4. CASE t \in Deletes /\ Delete(t)
          BY <3>2, <4>4 DEF Delete, DeleteRead, DeleteLock, DeleteTombstone, DeleteRow,
             DeleteRestore, DeleteEmpty, Teardown, Placed
        <4>5. CASE \/ t \in Writers /\ (WriterLookup(t) \/ Write(t))
                   \/ t \in Owners /\ (OwnerMark(t) \/ OwnerFind(t) \/ Write(t)
                                         \/ DormantCheck(t) \/ DormantWrite(t))
          BY <3>2, <4>5 DEF Write, WriterLookup, OwnerMark, OwnerFind, Admit, Persist,
             Announce, Quarantine, Sweep, DormantCheck, DormantWrite, Placed
        <4>6. CASE t \in Drains /\ Drain(t)
          BY <3>2, <4>6 DEF Drain, DrainBegin, DrainMap, DrainRoom, DrainEnd
        <4>7. CASE t = Recovery /\ Recover(t)
          BY <3>2, <4>7 DEF Recover, RecoverSnapshot, RecoverReplace, RecoverNext,
             RecoverLock,
             RecoverClose, Teardown
        <4> QED BY <4>1, <4>2, <4>3, <4>4, <4>5, <4>6, <4>7 DEF Step
      <3> QED BY <3>1, <3>2
    <2>2. CASE arc'[u] = arc[u] \/ \E r \in RoomIds : arc'[u] = rooms[r]
      <3>1. ~Unpublished(arc'[u])
        BY <2>2 DEF Known, Unpublished
      <3> QED BY <1>1, <3>1 DEF Unpublished
    <2>3. CASE arc'[u] = t /\ t \in Joins /\ pc[t] = "publish"
      BY <1>2, <2>3 DEF Unpublished
    <2> QED BY <2>1, <2>2, <2>3
  <1> QED BY <1>3, <1>4 DEF Known, Unpublished

(* Each join adds itself once to the count and takes itself off once. *)
LEMMA PendingStep ==
    ASSUME TypeOK, Placed, Known, PendingAccounting, NEW t \in Tasks, Step(t), OwnPlace(t)
    PROVE  PendingAccounting'
  <1> SUFFICES ASSUME NEW i \in Joins
               PROVE  state'[i].pending = Cardinality(Holders(i)')
    BY DEF PendingAccounting, Holders
  <1>0. /\ state \in [Joins -> RoomStates] /\ state[i] \in RoomStates
        /\ state[i].pending = Cardinality(Holders(i))
    BY DEF TypeOK, PendingAccounting, Holders
  <1>1. \A u \in Joins : u # t => (Reserved(u, i)' <=> Reserved(u, i))
    BY Kinds DEF OwnPlace, Reserved
  <1>2. CASE t \notin Joins
    <2>1. Holders(i)' = Holders(i)
      BY <1>1, <1>2 DEF Holders
    <2>2. state'[i].pending = state[i].pending
      BY <1>2, OthersKeepPending DEF KeepsPending
    <2> QED BY <1>0, <2>1, <2>2
  <1>3. ASSUME t \in Joins, state'[i].pending = state[i].pending, Reserved(t,
     i)' <=> Reserved(t, i)
        PROVE  state'[i].pending = Cardinality(Holders(i)')
    <2>1. Holders(i)' = Holders(i)
      BY <1>1, <1>3 DEF Holders
    <2> QED BY <1>0, <1>3, <2>1
  <1>4. ASSUME t \in Joins, state'[i].pending = state[i].pending + 1, Reserved(t, i)',
               ~Reserved(t, i)
        PROVE  state'[i].pending = Cardinality(Holders(i)')
    <2>1. Holders(i)' = Holders(i) \cup {t} /\ t \notin Holders(i)
      BY <1>1, <1>4 DEF Holders
    <2> QED BY <1>0, <1>4, <2>1, HoldersFinite
  <1>5. ASSUME t \in Joins, state'[i].pending = Unreserved(state[i]).pending, ~Reserved(t, i)',
               Reserved(t, i)
        PROVE  state'[i].pending = Cardinality(Holders(i)')
    <2>1. Holders(i)' = Holders(i) \ {t} /\ t \in Holders(i)
      BY <1>1, <1>5 DEF Holders
    <2>2. /\ Cardinality(Holders(i)) \in Nat \ {0}
          /\ Cardinality(Holders(i)') = Cardinality(Holders(i)) - 1
      BY <2>1, HoldersFinite
    <2>3. Unreserved(state[i]).pending = IF state[i].pending = 0 THEN 0 ELSE state[i].pending - 1
      BY <1>0, OperatorFields
    <2> QED BY <1>0, <1>5, <2>2, <2>3
  <1>6. CASE t \in Joins
    <2> USE DEF taskVars, Goto
    <2>0. Join(t) /\ t \in Tasks
      BY <1>6, Kinds DEF Step
    <2>1. CASE \/ JoinLookup(t) \/ JoinCreate(t) \/ JoinRoute(t) \/ JoinRegister(t)
               \/ JoinRollback(t) \/ JoinSnapshot(t) \/ JoinControl(t) \/ JoinRefused(t)
               \/ DropCreation(t) \/ Teardown(t)
      <3>1. state' = state
        BY <2>1 DEF JoinLookup, JoinCreate, JoinRoute, JoinRegister, JoinRollback,
           JoinSnapshot,
           JoinControl, JoinRefused, DropCreation, Teardown
      <3>2. Reserved(t, i)' <=> Reserved(t, i)
        BY <1>6, <2>0, <2>1, Kinds DEF Reserved, TypeOK, JoinLookup, JoinCreate, JoinRoute,
           JoinRegister,
           JoinRollback, JoinSnapshot, JoinControl, JoinRefused, DropCreation, Teardown
      <3> QED BY <1>3, <1>6, <3>1, <3>2
    <2>2. CASE JoinReserve(t)
      <3>1. ~Reserved(t, i)
        BY <2>2 DEF JoinReserve, Reserved
      <3>2. CASE state' = state /\ pc'[t] = "done"
        BY <1>3, <1>6, <3>1, <3>2 DEF Reserved
      <3>3. CASE state' = [state EXCEPT ![arc[t]].pending = @ + 1] /\ pc'[t] = "snapshot"
        <4>1. arc'[t] = arc[t]
          BY <2>2 DEF JoinReserve
        <4>2. CASE arc[t] = i
          <5>1. state'[i] = [state[i] EXCEPT !.pending = state[i].pending + 1]
            BY <1>0, <3>3, <4>2
          <5>2. state'[i].pending = state[i].pending + 1
            BY <1>0, <5>1, OperatorFields
          <5>3. Reserved(t, i)'
            BY <3>3, <4>1, <4>2 DEF Reserved
          <5> QED BY <1>4, <1>6, <3>1, <5>2, <5>3
        <4>3. CASE arc[t] # i
          <5>1. state'[i] = state[i] /\ ~Reserved(t, i)'
            BY <1>0, <3>3, <4>1, <4>3 DEF Reserved
          <5> QED BY <1>3, <1>6, <3>1, <5>1
        <4> QED BY <4>2, <4>3
      <3> QED BY <2>0, <2>2, <3>2, <3>3 DEF JoinReserve, TypeOK
    <2>3. CASE JoinLoad(t)
      <3>1. ~Reserved(t, i) /\ ~Reserved(t, i)'
        BY <2>0, <2>3 DEF JoinLoad, Reserved, TypeOK
      <3>2. CASE i # t
        BY <1>0, <1>3, <1>6, <2>3, <3>1, <3>2 DEF JoinLoad
      <3>3. CASE i = t
        <4>1. Unpublished(t)
          BY <2>3 DEF JoinLoad, Unpublished, Early
        <4>2. Holders(i) = {}
          BY <1>6, <3>3, <4>1, Kinds DEF Holders, Reserved, Known
        <4>3. state[i].pending = 0
          BY <1>0, <4>2, FS_EmptySet
        <4>4. state'[i].pending = 0
          BY <1>0, <2>3, <3>3, <4>3 DEF JoinLoad, NewRoom
        <4> QED BY <1>3, <1>6, <3>1, <4>3, <4>4
      <3> QED BY <3>2, <3>3
    <2>4. CASE JoinPublish(t)
      <3>1. ~Reserved(t, i) /\ pc'[t] = "snapshot" /\ arc'[t] = t
        BY <2>0, <2>4 DEF JoinPublish, Reserved, TypeOK
      <3>2. CASE i # t
        <4>1. state'[i] = state[i] /\ ~Reserved(t, i)'
          BY <1>0, <2>4, <3>1, <3>2 DEF JoinPublish, Reserved
        <4> QED BY <1>3, <1>6, <3>1, <4>1
      <3>3. CASE i = t
        <4>1. Unpublished(t)
          BY <2>4 DEF JoinPublish, Unpublished, Early
        <4>2. Holders(i) = {}
          BY <1>6, <3>3, <4>1, Kinds DEF Holders, Reserved, Known
        <4>3. state[i].pending = 0
          BY <1>0, <4>2, FS_EmptySet
        <4>4. state'[i] = [state[i] EXCEPT !.pending = 1]
          BY <1>0, <2>4, <3>3 DEF JoinPublish
        <4>5. state'[i].pending = 1
          BY <1>0, <4>4, OperatorFields
        <4>6. Reserved(t, i)'
          BY <3>1, <3>3 DEF Reserved
        <4> QED BY <1>4, <1>6, <3>1, <4>3, <4>5, <4>6
      <3> QED BY <3>2, <3>3
    <2>5. CASE JoinInsert(t)
      <3>1. pc[t] = "insert" /\ arc'[t] = arc[t]
        BY <2>5 DEF JoinInsert
      <3>2. CASE state' = state /\ pc'[t] = "drop"
        BY <1>3, <1>6, <3>1, <3>2 DEF Reserved
      <3>3. CASE state' = [state EXCEPT ![arc[t]] = Seated(state[arc[t]], t)] /\ pc'[t] = "done"
        <4>1. ~Reserved(t, i)'
          BY <3>3 DEF Reserved
        <4>2. CASE arc[t] = i
          <5>1. state'[i].pending = Unreserved(state[i]).pending
            BY <1>0, <3>3, <4>2, OperatorFields
          <5> QED BY <1>5, <1>6, <3>1, <4>1, <4>2, <5>1 DEF Reserved
        <4>3. CASE arc[t] # i
          BY <1>0, <1>3, <1>6, <3>3, <4>1, <4>3 DEF Reserved
        <4> QED BY <4>2, <4>3
      <3> QED BY <2>0, <2>5, <3>2, <3>3 DEF JoinInsert, TypeOK
    <2>6. CASE DropRelease(t)
      <3>1. pc[t] = "release" /\ arc'[t] = arc[t] /\ pc'[t] \in {"teardown", "done"}
        BY <2>0, <2>6 DEF DropRelease, TypeOK
      <3>2. ~Reserved(t, i)'
        BY <3>1 DEF Reserved
      <3>3. CASE arc[t] = i
        <4>1. Unreserved(state[i]) \in RoomStates
          BY <1>0, RoomOperators
        <4>2. state'[i] = Unreserved(state[i]) \/ state'[i] = Tombstoned(Unreserved(state[i]))
          BY <1>0, <2>6, <3>3 DEF DropRelease, Evict
        <4>3. state'[i].pending = Unreserved(state[i]).pending
          BY <4>1, <4>2, OperatorFields
        <4> QED BY <1>5, <1>6, <3>1, <3>2, <3>3, <4>3 DEF Reserved
      <3>4. CASE arc[t] # i
        <4>1. state'[i] = state[i]
          BY <1>0, <2>6, <3>4 DEF DropRelease, Evict
        <4> QED BY <1>3, <1>6, <3>2, <3>4, <4>1 DEF Reserved
      <3> QED BY <3>3, <3>4
    <2> QED BY <2>0, <2>1, <2>2, <2>3, <2>4, <2>5, <2>6 DEF Join
  <1> QED BY <1>2, <1>6

PendingInvariant == SafetyInvariant /\ Known /\ PendingAccounting

(* The accounting holds initially. *)
LEMMA PendingInit == Init => PendingInvariant
  <1> SUFFICES ASSUME Init PROVE PendingInvariant
    OBVIOUS
  <1>1. Known
    BY TaskAssumption DEF Init, Known, Tasks
  <1>2. ASSUME NEW i \in Joins
        PROVE  state[i].pending = Cardinality(Holders(i))
    <2>1. Holders(i) = {}
      BY Kinds DEF Init, Holders, Reserved
    <2>2. state[i].pending = 0
      BY DEF Init, NewRoom
    <2> QED BY <2>1, <2>2, FS_EmptySet
  <1> QED BY <1>1, <1>2, SafetyInit DEF PendingInvariant, PendingAccounting, Holders

(* The accounting is inductive. *)
LEMMA PendingInductive == PendingInvariant /\ [Next]_vars => PendingInvariant'
  <1> SUFFICES ASSUME PendingInvariant, [Next]_vars PROVE PendingInvariant'
    OBVIOUS
  <1>1. SafetyInvariant'
    BY SafetyStep DEF PendingInvariant
  <1>2. ASSUME NEW t \in Tasks, Step(t)
        PROVE  Known' /\ PendingAccounting'
    <2>1. OwnPlace(t) /\ OwnRooms(t)
      BY <1>2, StepFrames DEF PendingInvariant, SafetyInvariant
    <2> QED BY <1>2, <2>1, KnownStep, PendingStep DEF PendingInvariant, SafetyInvariant
  <1>3. ASSUME UNCHANGED <<pc, arc, rooms, state>>
        PROVE  Known' /\ PendingAccounting'
    BY <1>3 DEF PendingInvariant, Known, Unpublished, PendingAccounting, Reserved
  <1>4. ASSUME (\E t \in Tasks : Settle(t)) \/ (\E w \in Workers : WorkerDies(w))
     \/ UNCHANGED vars
        PROVE  UNCHANGED <<pc, arc, rooms, state>>
    BY <1>4 DEF Settle, WorkerDies, vars, registryVars, taskVars
  <1> QED BY <1>1, <1>2, <1>3, <1>4 DEF Next, Terminated, PendingInvariant

(* pending_joins is exactly the number of joins that still hold a          *)
(* reservation on the room, for any number of joins and any interleaving   *)
(* with leaves, deletions, quarantines, recoveries and a drain.            *)
THEOREM PendingJoinsAreCounted == Spec => []PendingAccounting
  <1>1. PendingInvariant => PendingAccounting
    BY DEF PendingInvariant
  <1> QED BY <1>1, PendingInit, PendingInductive, PTL DEF Spec
=============================================================================
