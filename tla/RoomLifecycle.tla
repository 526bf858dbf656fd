--------------------------- MODULE RoomLifecycle ---------------------------
(***************************************************************************)
(* The life of a runtime room inside RoomManager: how joins create and     *)
(* reserve it, how leaves and failed joins evict it, how the owner deletes *)
(* the row behind it, how an uncertain SQL outcome quarantines it, how a   *)
(* dead media worker closes it, and how a drain clears it.                 *)
(*                                                                         *)
(* Every pending request is a task.  A task is an asynchronous function of *)
(* the server cut at its awaits: one action per stretch between two        *)
(* awaits that matter.  Three locks order the tasks (control.rs:3):        *)
(* `creation` (the process-wide room_creation_lock), `control[i]` (one per *)
(* runtime incarnation) and the room's state lock, whose critical sections *)
(* never await and are therefore single actions here.                      *)
(*                                                                         *)
(* A runtime incarnation (one Arc<RwLock<Room>>) is named by the join that *)
(* created it, a membership by the join that inserted it, and a deletion   *)
(* token (a fresh UUID in the code) by the task that issued it.            *)
(***************************************************************************)
EXTENDS Naturals, FiniteSets

CONSTANTS
    RoomIds,      \* room identifiers
    Joins,        \* add_participant requests
    Leaves,       \* remove_participant_for_sender calls (leave, disconnect, grace timer)
    Creates,      \* create_persisted_room requests
    Deletes,      \* delete_persisted_room requests
    Writers,      \* operations admitted by run_room_control (settings, moderation)
    Owners,       \* REST identity and administration updates, live or dormant
    Drains,       \* shutdown, which runs once
    Recovery,     \* the one task that consumes worker-death events
    Workers,      \* media workers the process may ever run
    Spares,       \* those not yet started
    Mortal,       \* those that may die
    MaxRooms,     \* SFU_MAX_ROOMS, the cap on live runtime rooms
    AllowAdHoc,   \* whether a room without a row may be created by a join
    Timeouts,     \* whether bounded waits may expire
    Doubtful,     \* tasks whose SQL outcome may be lost (timeout or I/O error)
    Seed,         \* the generation and policy of a row that predates the process
    None

Tasks == Joins \cup Leaves \cup Creates \cup Deletes \cup Writers \cup Owners
           \cup Drains \cup {Recovery}

(* Requests of different kinds are different tasks. *)
ASSUME TaskAssumption ==
    /\ Joins \cap (Leaves \cup Creates \cup Deletes \cup Writers \cup Owners \cup Drains) = {}
    /\ Leaves \cap (Creates \cup Deletes \cup Writers \cup Owners \cup Drains) = {}
    /\ Creates \cap (Deletes \cup Writers \cup Owners \cup Drains) = {}
    /\ Deletes \cap (Writers \cup Owners \cup Drains) = {}
    /\ Writers \cap (Owners \cup Drains) = {}
    /\ Owners \cap Drains = {}
    /\ Recovery \notin Joins \cup Leaves \cup Creates \cup Deletes \cup Writers
                         \cup Owners \cup Drains
    /\ None \notin Tasks \cup Workers \cup {Seed}
    /\ Seed \notin Tasks

(* The process drains once, when its server loop has ended (app.rs:203). *)
ASSUME DrainAssumption == \A d, e \in Drains : d = e

ASSUME ParameterAssumption ==
    /\ Spares \subseteq Workers /\ Mortal \subseteq Workers
    /\ MaxRooms \in Nat
    /\ AllowAdHoc \in BOOLEAN /\ Timeouts \in BOOLEAN
    /\ Doubtful \subseteq Tasks
    /\ IsFiniteSet(RoomIds) /\ IsFiniteSet(Joins)

VARIABLES
    draining,     \* DrainSignal
    rooms,        \* RoomManager.rooms: the incarnation mapped at each id
    token,        \* RoomManager.deleting_rooms: the reservation held on each id
    identity,     \* RoomManager.identity_updates
    state,        \* the Room behind each incarnation
    creation,     \* holder of room_creation_lock
    control,      \* holder of each incarnation's control lock
    routers,      \* RouterManager.routers: the incarnation whose router is registered
    host,         \* the worker on which a join created its router
    worker,       \* life cycle of each media worker
    db,           \* the rooms table: generation (created_at) and policy of each row
    inDoubt,      \* tasks whose SQL statement may still commit
    pc, room, arc,      \* each task's next step, its room id and its Room Arc
    snapshot,     \* policy_revision a join read before its database checks
    generation,   \* created_at a deletion read before taking any lock
    victim,       \* membership a leave removes
    failed, affected,   \* the dead worker being recovered and its rooms left to close
    doomed        \* incarnations a drain has unmapped and not yet cleared

registryVars == <<rooms, token, identity>>
lockVars == <<creation, control>>
mediaVars == <<routers, host, worker>>
dbVars == <<db, inDoubt>>
taskVars == <<room, arc>>
localVars == <<snapshot, generation, victim>>
processVars == <<draining, failed, affected, doomed>>
restVars == <<localVars, processVars>>
vars == <<registryVars, state, lockVars, mediaVars, dbVars, pc, taskVars, restVars>>

NoRow == [gen |-> None, policy |-> None]
Rows ==
    [gen : Creates \cup {Seed, None},
     policy : Creates \cup Writers \cup Owners \cup {Seed, None}]

RoomStates ==
    [deleting : BOOLEAN, pending : Nat, members : SUBSET Joins, revision : Nat,
     gen : Creates \cup {Seed, None},
     policy : Creates \cup Writers \cup Owners \cup {Seed, None}]

(* Room::new_with_observers: the policy comes from the row that was loaded. *)
NewRoom(row) ==
    [deleting |-> FALSE, pending |-> 0, members |-> {}, revision |-> 0,
     gen |-> row.gen, policy |-> row.policy]

Labels ==
    {"idle", "done", "unknown", "abandoned", "revived",
     "reserve", "create", "load", "route", "register", "publish", "snapshot", "control",
     "insert", "drop", "release", "remove", "evict", "recheck",
     "teardown", "read", "lock", "tombstone", "delete", "restore", "empty",
     "find", "admit", "persist", "announce", "quarantine", "sweep", "dormant", "write",
     "replace", "next", "close", "clear"}

(* How a request ends: it is done; it does not know whether its SQL        *)
(* committed; it gave up its cleanup, after an expired wait, without its   *)
(* lock or because the router was gone; or it lifted the tombstone of a    *)
(* room that is no longer mapped.                                          *)
Ended == {"done", "unknown", "abandoned", "revived"}

----------------------------------------------------------------------------
(* Idioms shared by the handlers. *)

Goto(t, label) == pc' = [pc EXCEPT ![t] = label]

(* ensure_live together with the Arc::ptr_eq test against the map. *)
MappedLive(r, i) == rooms[r] = i /\ ~state[i].deleting

(* RoomManager.max_rooms: the cap counts every mapped room, live or not. *)
AtCapacity == Cardinality({r \in RoomIds : rooms[r] # None}) >= MaxRooms

(* Mutant of Release: the reservation is kept. *)
ReleaseNever(r, t) == token

(* release_deletion_reservation: only the issuing task's token is removed. *)
Release(r, t) == [token EXCEPT ![r] = IF @ = t THEN None ELSE @]

(* deleting = true; policy_revision += 1 *)
Tombstoned(s) == [s EXCEPT !.deleting = TRUE, !.revision = @ + 1]

(* What restore_failed_deletion lifts again. *)
Restored(s) == [s EXCEPT !.deleting = FALSE, !.revision = @ + 1]

(* The same with participants and lobby cleared. *)
Emptied(s) == [Tombstoned(s) EXCEPT !.members = {}]

(* Mutant of Evictable: pending joins are not consulted. *)
EvictableIgnoringJoins(r, i, s) == rooms[r] = i /\ ~s.deleting /\ s.members = {}

(* The final check before an empty room is evicted, under creation,        *)
(* control and state locks.                                                *)
Evictable(r, i, s) ==
    rooms[r] = i /\ ~s.deleting /\ s.pending = 0 /\ s.members = {}

(* Mutant of PolicyUnchanged: the tombstone is not consulted. *)
PolicyIgnoringTombstone(t, i) == snapshot[t] = state[i].revision

(* The policy a join was authorised against is still the room's policy.    *)
PolicyUnchanged(t, i) == ~state[i].deleting /\ snapshot[t] = state[i].revision

(* room_creation_lock is free for t, or, when it is not, t's bounded wait  *)
(* for it may expire.                                                      *)
CreationFree == creation = None
ControlFree(i) == control[i] = None
WaitExpires(blocked) == Timeouts /\ blocked

(* Mutants of Unreserved: a count given back twice, or never. *)
UnreservedTwice(s) == [s EXCEPT !.pending = @ - 2]
UnreservedNever(s) == s

(* One pending join less (complete_locked, release_join_reservation).      *)
Unreserved(s) == [s EXCEPT !.pending = IF @ = 0 THEN 0 ELSE @ - 1]

Init ==
    /\ draining = FALSE
    /\ rooms = [r \in RoomIds |-> None]
    /\ token = [r \in RoomIds |-> None]
    /\ identity = {}
    /\ state = [i \in Joins |-> NewRoom(NoRow)]
    /\ creation = None
    /\ control = [i \in Joins |-> None]
    /\ routers = [r \in RoomIds |-> None]
    /\ host = [i \in Joins |-> None]
    /\ worker = [w \in Workers |-> IF w \in Spares THEN "spare" ELSE "up"]
    /\ db \in [RoomIds -> {NoRow, [gen |-> Seed, policy |-> Seed]}]
    /\ inDoubt = {}
    /\ pc = [t \in Tasks |-> "idle"]
    /\ room = [t \in Tasks |-> None]
    /\ arc = [t \in Tasks |-> None]
    /\ snapshot = [t \in Joins |-> 0]
    /\ generation = [t \in Deletes |-> None]
    /\ victim = [t \in Leaves |-> None]
    /\ failed = None /\ affected = {}
    /\ doomed = {}

----------------------------------------------------------------------------
(* Joining: add_participant and get_or_create_room. *)

(* Rate limits, saturation, the dormant-room precheck and the fast path of *)
(* get_or_create_room.  Refusal needs no reason the other state can see.   *)
JoinLookup(t) ==
    /\ pc[t] = "idle"
    /\ \E r \in RoomIds :
         /\ room' = [room EXCEPT ![t] = r]
         /\ \/ Goto(t, "done") /\ UNCHANGED arc
            \/ /\ ~draining /\ token[r] = None
               /\ IF rooms[r] # None
                  THEN arc' = [arc EXCEPT ![t] = rooms[r]] /\ Goto(t, "reserve")
                  ELSE ~AtCapacity /\ Goto(t, "create") /\ UNCHANGED arc
    /\ UNCHANGED <<registryVars, state, lockVars, mediaVars, dbVars, restVars>>

(* reserve_existing_room_join; the wait for the room's own lock may expire. *)
JoinReserve(t) ==
    /\ pc[t] = "reserve"
    /\ \/ /\ ~draining /\ ~state[arc[t]].deleting
          /\ state' = [state EXCEPT ![arc[t]].pending = @ + 1]
          /\ Goto(t, "snapshot")
       \/ /\ draining \/ state[arc[t]].deleting \/ Timeouts
          /\ Goto(t, "done") /\ UNCHANGED state
    /\ UNCHANGED <<registryVars, lockVars, mediaVars, dbVars, taskVars, restVars>>

(* Mutants of CreationRefused: identity updates, or the cap, not rechecked. *)
CreationRefusedIgnoringUpdates(r) ==
    draining \/ token[r] # None \/ (rooms[r] = None /\ AtCapacity)
CreationRefusedUncapped(r) == draining \/ token[r] # None \/ r \in identity

(* What get_or_create_room checks again once it holds room_creation_lock.  *)
CreationRefused(r) ==
    draining \/ token[r] # None \/ r \in identity \/ (rooms[r] = None /\ AtCapacity)

JoinCreate(t) ==
    /\ pc[t] = "create"
    /\ \/ /\ CreationFree
          /\ LET r == room[t] IN
             \/ /\ CreationRefused(r)
                /\ Goto(t, "done") /\ UNCHANGED <<arc, creation>>
             \/ /\ ~CreationRefused(r) /\ rooms[r] # None
                /\ arc' = [arc EXCEPT ![t] = rooms[r]]
                /\ Goto(t, "reserve") /\ UNCHANGED creation
             \/ /\ ~CreationRefused(r) /\ rooms[r] = None
                /\ creation' = t /\ Goto(t, "load") /\ UNCHANGED arc
       \/ /\ WaitExpires(~CreationFree)
          /\ Goto(t, "done") /\ UNCHANGED <<arc, creation>>
    /\ UNCHANGED <<registryVars, state, control, mediaVars, dbVars, room, restVars>>

(* settings::load_room.  The loaded row is kept in the room about to be    *)
(* published; a failed lookup, or no row where ad-hoc rooms are disabled,  *)
(* ends the join.                                                          *)
JoinLoad(t) ==
    /\ pc[t] = "load"
    /\ \/ /\ AllowAdHoc \/ db[room[t]].gen # None
          /\ state' = [state EXCEPT ![t] = NewRoom(db[room[t]])]
          /\ Goto(t, "route") /\ UNCHANGED creation
       \/ /\ creation' = None
          /\ Goto(t, "done") /\ UNCHANGED state
    /\ UNCHANGED <<registryVars, control, mediaVars, dbVars, taskVars, restVars>>

(* RouterManager::create_router up to the native router: refused when one  *)
(* is registered, created on a worker that is up.                          *)
JoinRoute(t) ==
    /\ pc[t] = "route"
    /\ routers[room[t]] = None
    /\ \E w \in Workers : worker[w] = "up" /\ host' = [host EXCEPT ![t] = w]
    /\ Goto(t, "register")
    /\ UNCHANGED <<registryVars, state, lockVars, routers, worker, dbVars, taskVars, restVars>>

(* The map insertion that ends create_router. *)
JoinRegister(t) ==
    /\ pc[t] = "register"
    /\ routers[room[t]] = None
    /\ routers' = [routers EXCEPT ![room[t]] = t]
    /\ Goto(t, "publish")
    /\ UNCHANGED <<registryVars, state, lockVars, host, worker, dbVars, taskVars, restVars>>

(* Media setup failed or timed out, or the drain began before publication: *)
(* whatever router the id has is removed, unless that wait expires too.    *)
JoinRollback(t) ==
    /\ pc[t] \in {"route", "register", "publish"}
    /\ \/ routers' = [routers EXCEPT ![room[t]] = None] /\ Goto(t, "done")
       \/ Timeouts /\ UNCHANGED routers /\ Goto(t, "abandoned")
    /\ creation' = None
    /\ UNCHANGED <<registryVars, state, control, host, worker, dbVars, taskVars, restVars>>

(* Insertion into the map under drain.admit(): the room becomes visible    *)
(* with its creator's pending join counted, and the creation lock ends.    *)
JoinPublish(t) ==
    /\ pc[t] = "publish"
    /\ ~draining
    /\ rooms' = [rooms EXCEPT ![room[t]] = t]
    /\ arc' = [arc EXCEPT ![t] = t]
    /\ state' = [state EXCEPT ![t].pending = 1]
    /\ creation' = None
    /\ Goto(t, "snapshot")
    /\ UNCHANGED <<token, identity, control, mediaVars, dbVars, room, restVars>>

(* The policy snapshot is taken under control, so never in the middle of a *)
(* policy write; the ban, role, sanction and password checks follow it     *)
(* without any lock.                                                       *)
JoinSnapshot(t) ==
    /\ pc[t] = "snapshot"
    /\ ControlFree(arc[t])
    /\ snapshot' = [snapshot EXCEPT ![t] = state[arc[t]].revision]
    /\ Goto(t, "control")
    /\ UNCHANGED <<registryVars, state, lockVars, mediaVars, dbVars, taskVars,
                   generation, victim, processVars>>

(* Control is taken for the commit and kept while preferences load. *)
JoinControl(t) ==
    /\ pc[t] = "control"
    /\ ControlFree(arc[t])
    /\ control' = [control EXCEPT ![arc[t]] = t]
    /\ Goto(t, "insert")
    /\ UNCHANGED <<registryVars, state, creation, mediaVars, dbVars, taskVars, restVars>>

(* Mutant of JoinRefused: a refused join starts over. *)
JoinRefusedRetries(t) ==
    /\ pc[t] \in {"snapshot", "control"}
    /\ Goto(t, "snapshot")
    /\ UNCHANGED <<registryVars, state, lockVars, mediaVars, dbVars, taskVars, restVars>>

(* A check before the commit refused: the reservation is dropped. *)
JoinRefused(t) ==
    /\ pc[t] \in {"snapshot", "control"}
    /\ Goto(t, "drop")
    /\ UNCHANGED <<registryVars, state, lockVars, mediaVars, dbVars, taskVars, restVars>>

(* A pending join becomes a membership. *)
Seated(s, t) == [Unreserved(s) EXCEPT !.members = @ \cup {t}]

(* The membership commit (participant or lobby entry), or its refusal      *)
(* because of drain, a changed policy, a ban, a duplicate or a full room.  *)
JoinInsert(t) ==
    /\ pc[t] = "insert"
    /\ LET i == arc[t] IN
       /\ \/ /\ ~draining /\ PolicyUnchanged(t, i)
             /\ state' = [state EXCEPT ![i] = Seated(state[i], t)]
             /\ Goto(t, "done")
          \/ Goto(t, "drop") /\ UNCHANGED state
       /\ control' = [control EXCEPT ![i] = None]
    /\ UNCHANGED <<registryVars, creation, mediaVars, dbVars, taskVars, restVars>>

----------------------------------------------------------------------------
(* Eviction of an empty room, by a failed join or by the last departure.   *)

(* The eviction itself: tombstone, reserve the id, unmap. *)
Evict(t, r, i, s) ==
    /\ state' = [state EXCEPT ![i] = Tombstoned(s)]
    /\ token' = [token EXCEPT ![r] = t]
    /\ rooms' = [rooms EXCEPT ![r] = None]

(* release_failed_join, spawned by PendingRoomJoin::drop: the creation     *)
(* lock first, without a deadline.                                         *)
DropCreation(t) ==
    /\ pc[t] = "drop"
    /\ CreationFree
    /\ creation' = t
    /\ Goto(t, "release")
    /\ UNCHANGED <<registryVars, state, control, mediaVars, dbVars, taskVars, restVars>>

(* Then control and the room: the reservation ends and, if it was the last *)
(* claim on the room, the room goes with it.                               *)
DropRelease(t) ==
    /\ pc[t] = "release"
    /\ ControlFree(arc[t])
    /\ LET r == room[t]
           i == arc[t]
           s == Unreserved(state[i])
       IN \/ /\ state[i].pending # 0 /\ Evictable(r, i, s)
             /\ Evict(t, r, i, s) /\ Goto(t, "teardown")
          \/ /\ ~(state[i].pending # 0 /\ Evictable(r, i, s))
             /\ state' = [state EXCEPT ![i] = s]
             /\ Goto(t, "done") /\ UNCHANGED <<rooms, token>>
    /\ creation' = None
    /\ UNCHANGED <<identity, control, mediaVars, dbVars, taskVars, restVars>>

(* remove_participant_inner looks the room up in the map. *)
LeaveLookup(t) ==
    /\ pc[t] = "idle"
    /\ \E r \in RoomIds, m \in Joins :
         /\ room' = [room EXCEPT ![t] = r]
         /\ victim' = [victim EXCEPT ![t] = m]
         /\ IF rooms[r] = None
            THEN Goto(t, "done") /\ UNCHANGED arc
            ELSE Goto(t, "remove") /\ arc' = [arc EXCEPT ![t] = rooms[r]]
    /\ UNCHANGED <<registryVars, state, lockVars, mediaVars, dbVars, snapshot,
                   generation, processVars>>

(* Under control: the membership goes if this sender still owns it.        *)
LeaveRemove(t) ==
    /\ pc[t] = "remove"
    /\ ControlFree(arc[t])
    /\ LET i == arc[t]
           rest == state[i].members \ {victim[t]}
       IN /\ state' = [state EXCEPT ![i].members = rest]
          /\ Goto(t, IF victim[t] \in state[i].members /\ rest = {} THEN "evict" ELSE "done")
    /\ UNCHANGED <<registryVars, lockVars, mediaVars, dbVars, taskVars, restVars>>

(* The room looked empty: the creation lock, or an expired wait for it.    *)
LeaveCreation(t) ==
    /\ pc[t] = "evict"
    /\ \/ CreationFree /\ creation' = t /\ Goto(t, "recheck")
       \/ WaitExpires(~CreationFree) /\ Goto(t, "abandoned") /\ UNCHANGED creation
    /\ UNCHANGED <<registryVars, state, control, mediaVars, dbVars, taskVars, restVars>>

(* The final check under all three locks (or an expired wait for the last).*)
LeaveEvict(t) ==
    /\ pc[t] = "recheck"
    /\ ControlFree(arc[t])
    /\ LET r == room[t]
           i == arc[t]
       IN \/ /\ Evictable(r, i, state[i])
             /\ Evict(t, r, i, state[i]) /\ Goto(t, "teardown")
          \/ /\ \/ ~Evictable(r, i, state[i]) /\ Goto(t, "done")
                \/ Timeouts /\ Goto(t, "abandoned")
             /\ UNCHANGED <<state, rooms, token>>
    /\ creation' = None
    /\ UNCHANGED <<identity, control, mediaVars, dbVars, taskVars, restVars>>

(* remove_router outside every lock, then the reservation if it succeeded. *)
(* A router that is not registered is an error; an expired wait may fall   *)
(* on either side of the removal.                                          *)
Teardown(t) ==
    /\ pc[t] = "teardown"
    /\ LET r == room[t]
           gone == [routers EXCEPT ![r] = None]
           End(label) == Goto(t, IF t = Recovery THEN "next" ELSE label)
       IN \/ routers[r] # None /\ routers' = gone /\ token' = Release(r, t) /\ End("done")
          \/ routers[r] = None /\ UNCHANGED <<routers, token>> /\ End("abandoned")
          \/ Timeouts /\ routers' \in {routers, gone} /\ UNCHANGED token /\ End("abandoned")
    /\ UNCHANGED <<rooms, identity, state, lockVars, host, worker, dbVars, taskVars, restVars>>

----------------------------------------------------------------------------
(* The rooms table: create_persisted_room and delete_persisted_room.       *)

(* The id must be neither reserved nor live while the creation lock is     *)
(* held across the insert.                                                 *)
CreateLock(t) ==
    /\ pc[t] = "idle"
    /\ \E r \in RoomIds :
         /\ room' = [room EXCEPT ![t] = r]
         /\ \/ /\ CreationFree /\ ~draining /\ token[r] = None /\ rooms[r] = None
               /\ creation' = t /\ Goto(t, "persist")
            \/ /\ draining \/ token[r] # None \/ rooms[r] # None \/ WaitExpires(~CreationFree)
               /\ Goto(t, "done") /\ UNCHANGED creation
    /\ UNCHANGED <<registryVars, state, control, mediaVars, dbVars, arc, restVars>>

(* settings::create_room: inserted, refused (the id exists, a quota, an    *)
(* error) or, when the deadline passes first, possibly inserted later.     *)
CreateInsert(t) ==
    /\ pc[t] = "persist"
    /\ LET r == room[t] IN
       \/ /\ db[r] = NoRow /\ db' = [db EXCEPT ![r] = [gen |-> t, policy |-> t]]
          /\ Goto(t, "done") /\ UNCHANGED inDoubt
       \/ Goto(t, "done") /\ UNCHANGED dbVars
       \/ /\ t \in Doubtful /\ inDoubt' = inDoubt \cup {t}
          /\ Goto(t, "unknown") /\ UNCHANGED db
    /\ creation' = None
    /\ UNCHANGED <<registryVars, state, control, mediaVars, taskVars, restVars>>

(* Ownership and generation are read before any lock. *)
DeleteRead(t) ==
    /\ pc[t] = "idle"
    /\ \E r \in RoomIds :
         /\ room' = [room EXCEPT ![t] = r]
         /\ generation' = [generation EXCEPT ![t] = db[r].gen]
         /\ Goto(t, IF db[r].gen = None THEN "done" ELSE "lock")
    /\ UNCHANGED <<registryVars, state, lockVars, mediaVars, dbVars, arc, snapshot,
                   victim, processVars>>

DeleteLock(t) ==
    /\ pc[t] = "lock"
    /\ \/ /\ CreationFree /\ creation' = t
          /\ arc' = [arc EXCEPT ![t] = rooms[room[t]]]
          /\ Goto(t, "tombstone")
       \/ /\ WaitExpires(~CreationFree)
          /\ Goto(t, "done") /\ UNCHANGED <<arc, creation>>
    /\ UNCHANGED <<registryVars, state, control, mediaVars, dbVars, room, restVars>>

(* Control (of a live room), then the reservation, then the tombstone.     *)
(* A reservation already there, or an expired wait, ends the deletion.     *)
DeleteTombstone(t) ==
    /\ pc[t] = "tombstone"
    /\ LET r == room[t]
           i == arc[t]
       IN \/ /\ i # None => ControlFree(i)
             /\ token[r] = None
             /\ token' = [token EXCEPT ![r] = t]
             /\ IF i = None
                THEN UNCHANGED <<state, control>>
                ELSE /\ state' = [state EXCEPT ![i] = Tombstoned(state[i])]
                     /\ control' = [control EXCEPT ![i] = t]
             /\ Goto(t, "delete") /\ UNCHANGED creation
          \/ /\ \/ (i # None => ControlFree(i)) /\ token[r] # None
                \/ i # None /\ Timeouts
             /\ creation' = None /\ Goto(t, "done")
             /\ UNCHANGED <<token, state, control>>
    /\ UNCHANGED <<rooms, identity, mediaVars, dbVars, taskVars, restVars>>

(* The control lock of t's room, if it has one, is dropped. *)
ControlDropped(t) ==
    IF arc[t] = None THEN control ELSE [control EXCEPT ![arc[t]] = None]

(* The conditional DELETE and the end of the creation lock.  Committed:    *)
(* teardown follows.  No row matched, or a definite refusal: the tombstone *)
(* is lifted.  Unknown: tombstone and reservation stay for ever.           *)
DeleteRow(t) ==
    /\ pc[t] = "delete"
    /\ LET r == room[t]
           matches == db[r].gen = generation[t]
       IN \/ /\ matches /\ db' = [db EXCEPT ![r] = NoRow]
             /\ IF arc[t] = None
                THEN token' = Release(r, t) /\ Goto(t, "done")
                ELSE Goto(t, "empty") /\ UNCHANGED token
             /\ UNCHANGED <<inDoubt, control>>
          \/ Goto(t, "restore") /\ UNCHANGED <<dbVars, token, control>>
          \/ /\ t \in Doubtful /\ inDoubt' = inDoubt \cup {t}
             /\ control' = ControlDropped(t)
             /\ Goto(t, "unknown") /\ UNCHANGED <<db, token>>
    /\ creation' = None
    /\ UNCHANGED <<rooms, identity, state, mediaVars, taskVars, restVars>>

(* restore_failed_deletion: the tombstone is lifted, then the reservation, *)
(* without a look at the map.  (A busy room delays it; control is then     *)
(* dropped before the restore.)                                            *)
DeleteRestore(t) ==
    /\ pc[t] = "restore"
    /\ \/ /\ IF arc[t] = None
             THEN UNCHANGED state
             ELSE state' = [state EXCEPT ![arc[t]] = Restored(state[arc[t]])]
          /\ token' = Release(room[t], t)
          /\ \/ /\ arc[t] # None => control[arc[t]] = t
                /\ control' = ControlDropped(t)
                /\ Goto(t, IF arc[t] \in {None, rooms[room[t]]} THEN "done" ELSE "revived")
             \/ /\ arc[t] # None /\ control[arc[t]] # t /\ UNCHANGED control
                /\ Goto(t, IF arc[t] = rooms[room[t]] THEN "abandoned" ELSE "revived")
       \/ /\ Timeouts /\ arc[t] # None /\ control[arc[t]] = t
          /\ control' = ControlDropped(t) /\ UNCHANGED <<state, token, pc>>
    /\ UNCHANGED <<rooms, identity, creation, mediaVars, dbVars, taskVars, restVars>>

(* The row is gone: members are told and cleared, the room is unmapped if  *)
(* it is still this one, control ends.  A busy room keeps all of it.       *)
DeleteEmpty(t) ==
    /\ pc[t] = "empty"
    /\ LET r == room[t]
           i == arc[t]
       IN \/ /\ state' = [state EXCEPT ![i].members = {}]
             /\ rooms' = [rooms EXCEPT ![r] = IF @ = i THEN None ELSE @]
             /\ Goto(t, "teardown")
          \/ Timeouts /\ Goto(t, "abandoned") /\ UNCHANGED <<state, rooms>>
    /\ control' = ControlDropped(t)
    /\ UNCHANGED <<token, identity, creation, mediaVars, dbVars, taskVars, restVars>>

(* A statement whose outcome was lost takes effect, or turns out not to.   *)
Settle(t) ==
    /\ t \in inDoubt
    /\ inDoubt' = inDoubt \ {t}
    /\ LET r == room[t] IN
       \/ UNCHANGED db
       \/ t \in Creates /\ db[r] = NoRow /\ db' = [db EXCEPT ![r] = [gen |-> t, policy |-> t]]
       \/ t \in Deletes /\ db[r].gen = generation[t] /\ db' = [db EXCEPT ![r] = NoRow]
       \/ /\ t \in Writers \cup Owners /\ db[r] # NoRow
          /\ db' = [db EXCEPT ![r].policy = t]
    /\ UNCHANGED <<registryVars, state, lockVars, mediaVars, pc, taskVars, restVars>>

----------------------------------------------------------------------------
(* Policy writes under control: run_room_control, update_room_identity,    *)
(* the administration API, persist_room and quarantine_room.               *)

WriterLookup(t) ==
    /\ pc[t] = "idle"
    /\ \E r \in RoomIds :
         /\ room' = [room EXCEPT ![t] = r]
         /\ IF rooms[r] = None
            THEN Goto(t, "done") /\ UNCHANGED arc
            ELSE Goto(t, "admit") /\ arc' = [arc EXCEPT ![t] = rooms[r]]
    /\ UNCHANGED <<registryVars, state, lockVars, mediaVars, dbVars, restVars>>

(* Creation of this id is excluded by a marker instead of the lock, which  *)
(* is released before any SQL.                                             *)
OwnerMark(t) ==
    /\ pc[t] = "idle"
    /\ \E r \in RoomIds :
         /\ room' = [room EXCEPT ![t] = r]
         /\ \/ /\ CreationFree /\ ~draining /\ token[r] = None /\ r \notin identity
               /\ identity' = identity \cup {r}
               /\ Goto(t, "find")
            \/ /\ \/ CreationFree /\ (draining \/ token[r] # None \/ r \in identity)
                  \/ WaitExpires(~CreationFree)
               /\ Goto(t, "done") /\ UNCHANGED identity
    /\ UNCHANGED <<rooms, token, state, lockVars, mediaVars, dbVars, arc, restVars>>

(* The room is looked up once the lock is gone (the administration API     *)
(* does it just before).                                                   *)
OwnerFind(t) ==
    /\ pc[t] = "find"
    /\ arc' = [arc EXCEPT ![t] = rooms[room[t]]]
    /\ Goto(t, IF rooms[room[t]] = None THEN "dormant" ELSE "admit")
    /\ UNCHANGED <<registryVars, state, lockVars, mediaVars, dbVars, room, restVars>>

(* IdentityUpdateGuard::drop, for the tasks that hold the marker. *)
Unmarked(t) == IF t \in Owners THEN identity \ {room[t]} ELSE identity

(* update_room_identity asks for a live persisted room; the map is not      *)
(* looked at again.                                                        *)
OwnerAdmissible(i) == ~state[i].deleting /\ state[i].gen # None

(* Mutant of Admissible: the room is not looked at again under control. *)
AdmissibleUnchecked(t) == TRUE

(* A write may start: the room is the mapped, live one (run_room_control   *)
(* and its actor, a member) or at least not tombstoned and backed by a row *)
(* (the REST paths).                                                       *)
Admissible(t) ==
    LET i == arc[t] IN
    IF t \in Writers
    THEN ~draining /\ MappedLive(room[t], i) /\ state[i].members # {}
    ELSE OwnerAdmissible(i)

Admit(t) ==
    /\ pc[t] = "admit"
    /\ LET i == arc[t] IN
       \/ /\ ControlFree(i) /\ Admissible(t)
          /\ control' = [control EXCEPT ![i] = t]
          /\ Goto(t, "persist") /\ UNCHANGED identity
       \/ /\ \/ ControlFree(i) /\ (~Admissible(t) \/ draining)
             \/ WaitExpires(~ControlFree(i))
          /\ identity' = Unmarked(t)
          /\ Goto(t, "done") /\ UNCHANGED control
    /\ UNCHANGED <<rooms, token, state, creation, mediaVars, dbVars, taskVars, restVars>>

(* persist_room: committed, definitely refused, or unknown; a missing row  *)
(* counts as unknown.  A room without a row is changed in memory only.     *)
Persist(t) ==
    /\ pc[t] = "persist"
    /\ LET r == room[t]
           i == arc[t]
       IN \/ /\ state[i].gen = None
             /\ Goto(t, "announce") /\ UNCHANGED <<dbVars, control, identity>>
          \/ /\ state[i].gen # None /\ db[r] # NoRow
             /\ db' = [db EXCEPT ![r].policy = t]
             /\ Goto(t, "announce") /\ UNCHANGED <<inDoubt, control, identity>>
          \/ /\ state[i].gen # None /\ db[r] = NoRow
             /\ Goto(t, "quarantine") /\ UNCHANGED <<dbVars, control, identity>>
          \/ /\ state[i].gen # None /\ t \in Doubtful
             /\ inDoubt' = inDoubt \cup {t}
             /\ Goto(t, "quarantine") /\ UNCHANGED <<db, control, identity>>
          \/ /\ control' = [control EXCEPT ![i] = None]
             /\ identity' = Unmarked(t)
             /\ Goto(t, "done") /\ UNCHANGED dbVars
    /\ UNCHANGED <<rooms, token, state, creation, mediaVars, taskVars, restVars>>

(* The runtime copy of a policy write: an ad-hoc room has no durable one. *)
Published(s, t, gone) ==
    [s EXCEPT !.policy = IF s.gen = None THEN @ ELSE t, !.revision = @ + 1,
              !.members = @ \ gone]

(* Publication of the committed policy, with the members a removal names.  *)
(* A moderator in the room stays in it; a REST caller need not be there.   *)
Announce(t) ==
    /\ pc[t] = "announce"
    /\ LET i == arc[t] IN
       /\ \E gone \in SUBSET state[i].members :
            /\ t \in Writers => gone # state[i].members
            /\ state' = [state EXCEPT ![i] = Published(state[i], t, gone)]
       /\ control' = [control EXCEPT ![i] = None]
    /\ identity' = Unmarked(t)
    /\ Goto(t, "done")
    /\ UNCHANGED <<rooms, token, creation, mediaVars, dbVars, taskVars, restVars>>

(* Mutant of Quarantine: the id is not reserved. *)
QuarantineUnreserved(t) ==
    /\ pc[t] = "quarantine"
    /\ LET r == room[t]
           i == arc[t]
       IN /\ IF MappedLive(r, i)
             THEN /\ state' = [state EXCEPT ![i] = Emptied(state[i])]
                  /\ Goto(t, "sweep")
             ELSE Goto(t, "unknown") /\ UNCHANGED state
          /\ control' = [control EXCEPT ![i] = None]
    /\ identity' = Unmarked(t)
    /\ UNCHANGED <<rooms, token, creation, mediaVars, dbVars, taskVars, restVars>>

(* quarantine_room: tombstone, keep or install a reservation that nobody   *)
(* releases, clear the members; the room stays mapped.                     *)
Quarantine(t) ==
    /\ pc[t] = "quarantine"
    /\ LET r == room[t]
           i == arc[t]
       IN /\ IF MappedLive(r, i)
             THEN /\ state' = [state EXCEPT ![i] = Emptied(state[i])]
                  /\ token' = [token EXCEPT ![r] = IF @ = None THEN t ELSE @]
                  /\ Goto(t, "sweep")
             ELSE Goto(t, "unknown") /\ UNCHANGED <<state, token>>
          /\ control' = [control EXCEPT ![i] = None]
    /\ identity' = Unmarked(t)
    /\ UNCHANGED <<rooms, creation, mediaVars, dbVars, taskVars, restVars>>

(* Mutant of Sweep: the reservation ends with the cleanup. *)
SweepReleasing(t) ==
    /\ pc[t] = "sweep"
    /\ routers' = [routers EXCEPT ![room[t]] = None]
    /\ token' = Release(room[t], t)
    /\ Goto(t, "unknown")
    /\ UNCHANGED <<rooms, identity, state, lockVars, host, worker, dbVars, taskVars, restVars>>

(* The detached media cleanup of a quarantined room; its outcome is only   *)
(* logged and the reservation is kept.                                     *)
Sweep(t) ==
    /\ pc[t] = "sweep"
    /\ \/ routers' = [routers EXCEPT ![room[t]] = None]
       \/ Timeouts /\ UNCHANGED routers
    /\ Goto(t, "unknown")
    /\ UNCHANGED <<registryVars, state, lockVars, host, worker, dbVars, taskVars, restVars>>

(* A REST update of a room that is not live is authorised from the row.    *)
DormantCheck(t) ==
    /\ pc[t] = "dormant"
    /\ \/ db[room[t]] # NoRow /\ Goto(t, "write") /\ UNCHANGED identity
       \/ Goto(t, "done") /\ identity' = Unmarked(t)
    /\ UNCHANGED <<rooms, token, state, lockVars, mediaVars, dbVars, taskVars, restVars>>

(* Its write: committed, refused (or no row left), or unknown, which       *)
(* reserves the id unless it is reserved already.                          *)
DormantWrite(t) ==
    /\ pc[t] = "write"
    /\ LET r == room[t] IN
       \/ /\ db[r] # NoRow /\ db' = [db EXCEPT ![r].policy = t]
          /\ Goto(t, "done") /\ UNCHANGED <<inDoubt, token>>
       \/ Goto(t, "done") /\ UNCHANGED <<dbVars, token>>
       \/ /\ t \in Doubtful
          /\ inDoubt' = inDoubt \cup {t}
          /\ token' = [token EXCEPT ![r] = IF @ = None THEN t ELSE @]
          /\ Goto(t, "unknown") /\ UNCHANGED db
    /\ identity' = Unmarked(t)
    /\ UNCHANGED <<rooms, state, lockVars, mediaVars, taskVars, restVars>>

----------------------------------------------------------------------------
(* Worker death: recover_from_worker_death and close_room_for_rejoin.      *)

WorkerDies(w) ==
    /\ w \in Mortal /\ worker[w] = "up"
    /\ worker' = [worker EXCEPT ![w] = "died"]
    /\ UNCHANGED <<registryVars, state, lockVars, routers, host, dbVars, pc, taskVars,
                   restVars>>

(* A death event is received: the affected rooms are read off the routers. *)
RecoverSnapshot(t) ==
    /\ pc[t] = "idle"
    /\ \E w \in Workers :
         /\ worker[w] = "died"
         /\ worker' = [worker EXCEPT ![w] = "gone"]
         /\ failed' = w
         /\ affected' = {r \in RoomIds : routers[r] # None /\ host[routers[r]] = w}
    /\ Goto(t, "replace")
    /\ UNCHANGED <<draining, registryVars, state, lockVars, routers, host, dbVars,
                   taskVars, localVars, doomed>>

(* recreate_worker, which may fail. *)
RecoverReplace(t) ==
    /\ pc[t] = "replace"
    /\ \/ UNCHANGED worker
       \/ \E w \in Workers : worker[w] = "spare" /\ worker' = [worker EXCEPT ![w] = "up"]
    /\ Goto(t, "next")
    /\ UNCHANGED <<registryVars, state, lockVars, routers, host, dbVars, taskVars, restVars>>

(* Mutant of RecoverNext: a room that is gone stays on the list. *)
RecoverNextRepeats(t) ==
    /\ pc[t] = "next"
    /\ \/ affected = {} /\ Goto(t, "idle") /\ UNCHANGED <<affected, room, arc>>
       \/ \E r \in affected :
            /\ room' = [room EXCEPT ![t] = r]
            /\ IF rooms[r] = None
               THEN UNCHANGED <<pc, arc, affected>>
               ELSE /\ affected' = affected \ {r}
                    /\ arc' = [arc EXCEPT ![t] = rooms[r]]
                    /\ Goto(t, "lock")
    /\ UNCHANGED <<registryVars, state, lockVars, mediaVars, dbVars, localVars, draining, failed,
                   doomed>>

(* The next affected room that is still live, or the end of this recovery. *)
RecoverNext(t) ==
    /\ pc[t] = "next"
    /\ \/ affected = {} /\ Goto(t, "idle") /\ UNCHANGED <<affected, room, arc>>
       \/ \E r \in affected :
            /\ affected' = affected \ {r}
            /\ IF rooms[r] = None
               THEN UNCHANGED <<pc, room, arc>>
               ELSE /\ room' = [room EXCEPT ![t] = r]
                    /\ arc' = [arc EXCEPT ![t] = rooms[r]]
                    /\ Goto(t, "lock")
    /\ UNCHANGED <<draining, registryVars, state, lockVars, mediaVars, dbVars, localVars,
                   failed, doomed>>

(* Mutant of StillAffected: whichever worker the room is on now. *)
StillAffectedAnywhere(r, i) == rooms[r] = i

(* The room is still this one and its router is still on the dead worker.  *)
StillAffected(r, i) ==
    rooms[r] = i /\ routers[r] # None /\ host[routers[r]] = failed

RecoverLock(t) ==
    /\ pc[t] = "lock"
    /\ LET ok == StillAffected(room[t], arc[t]) IN
       \/ CreationFree /\ ok /\ creation' = t /\ Goto(t, "close")
       \/ /\ (CreationFree /\ ~ok) \/ WaitExpires(~CreationFree)
          /\ Goto(t, "next") /\ UNCHANGED creation
    /\ UNCHANGED <<registryVars, state, control, mediaVars, dbVars, taskVars, restVars>>

(* Under control: members are told and cleared, the room is tombstoned and *)
(* unmapped, and the id is reserved by writing the token unconditionally.  *)
RecoverClose(t) ==
    /\ pc[t] = "close"
    /\ LET r == room[t]
           i == arc[t]
       IN \/ /\ ControlFree(i)
             /\ state' = [state EXCEPT ![i] = Emptied(state[i])]
             /\ rooms' = [rooms EXCEPT ![r] = IF @ = i THEN None ELSE @]
             /\ token' = [token EXCEPT ![r] = t]
             /\ Goto(t, "teardown")
          \/ Timeouts /\ Goto(t, "next") /\ UNCHANGED <<state, rooms, token>>
    /\ creation' = None
    /\ UNCHANGED <<identity, control, mediaVars, dbVars, taskVars, restVars>>

----------------------------------------------------------------------------
(* Drain: shutdown_with_budget. *)

DrainBegin(t) ==
    /\ pc[t] = "idle"
    /\ draining' = TRUE
    /\ Goto(t, "lock")
    /\ UNCHANGED <<registryVars, state, lockVars, mediaVars, dbVars, taskVars, localVars,
                   failed, affected, doomed>>

(* The creation lock keeps late publications out while the map is emptied. *)
DrainMap(t) ==
    /\ pc[t] = "lock"
    /\ CreationFree
    /\ creation' = t
    /\ doomed' = {rooms[r] : r \in RoomIds} \ {None}
    /\ rooms' = [r \in RoomIds |-> None]
    /\ Goto(t, "clear")
    /\ UNCHANGED <<draining, token, identity, state, control, mediaVars, dbVars,
                   taskVars, localVars, failed, affected>>

DrainRoom(t) ==
    /\ pc[t] = "clear"
    /\ \E i \in doomed :
         /\ ControlFree(i)
         /\ state' = [state EXCEPT ![i] = [@ EXCEPT !.deleting = TRUE, !.members = {}]]
         /\ doomed' = doomed \ {i}
    /\ UNCHANGED <<draining, registryVars, lockVars, mediaVars, dbVars, pc, taskVars,
                   localVars, failed, affected>>

(* Mutant of DrainEnd: the clearing of the rooms is not awaited. *)
DrainEndEarly(t) ==
    /\ pc[t] = "clear" /\ creation' = None
    /\ Goto(t, "done")
    /\ UNCHANGED <<registryVars, state, control, mediaVars, dbVars, taskVars, restVars>>

(* All rooms are cleared, or the stage's budget is spent. *)
DrainEnd(t) ==
    /\ \/ pc[t] = "clear" /\ doomed = {} /\ creation' = None /\ Goto(t, "done")
       \/ /\ Timeouts /\ Goto(t, "abandoned")
          /\ \/ pc[t] = "clear" /\ creation' = None
             \/ pc[t] = "lock" /\ UNCHANGED creation
    /\ UNCHANGED <<registryVars, state, control, mediaVars, dbVars, taskVars, restVars>>

----------------------------------------------------------------------------
Join(t) ==
    \/ JoinLookup(t) \/ JoinReserve(t) \/ JoinCreate(t) \/ JoinLoad(t) \/ JoinRoute(t)
    \/ JoinRegister(t) \/ JoinRollback(t) \/ JoinPublish(t) \/ JoinSnapshot(t)
    \/ JoinControl(t) \/ JoinRefused(t) \/ JoinInsert(t)
    \/ DropCreation(t) \/ DropRelease(t) \/ Teardown(t)
Leave(t) ==
    LeaveLookup(t) \/ LeaveRemove(t) \/ LeaveCreation(t) \/ LeaveEvict(t) \/ Teardown(t)
Create(t) == CreateLock(t) \/ CreateInsert(t)
Delete(t) ==
    \/ DeleteRead(t) \/ DeleteLock(t) \/ DeleteTombstone(t) \/ DeleteRow(t)
    \/ DeleteRestore(t) \/ DeleteEmpty(t) \/ Teardown(t)
Write(t) ==
    Admit(t) \/ Persist(t) \/ Announce(t) \/ Quarantine(t) \/ Sweep(t)
Recover(t) ==
    \/ RecoverSnapshot(t) \/ RecoverReplace(t) \/ RecoverNext(t) \/ RecoverLock(t)
    \/ RecoverClose(t) \/ Teardown(t)
Drain(t) == DrainBegin(t) \/ DrainMap(t) \/ DrainRoom(t) \/ DrainEnd(t)

Step(t) ==
    \/ t \in Joins /\ Join(t)
    \/ t \in Leaves /\ Leave(t)
    \/ t \in Creates /\ Create(t)
    \/ t \in Deletes /\ Delete(t)
    \/ t \in Writers /\ (WriterLookup(t) \/ Write(t))
    \/ /\ t \in Owners
       /\ OwnerMark(t) \/ OwnerFind(t) \/ Write(t) \/ DormantCheck(t) \/ DormantWrite(t)
    \/ t \in Drains /\ Drain(t)
    \/ t = Recovery /\ Recover(t)

(* Every request has ended and nothing is left to recover or settle. *)
Finished(t) == pc[t] \in Ended
Settled ==
    /\ \A t \in Tasks \ {Recovery} : Finished(t)
    /\ pc[Recovery] = "idle" /\ \A w \in Workers : worker[w] # "died"
    /\ inDoubt = {}
Terminated == Settled /\ UNCHANGED vars

Next ==
    \/ \E t \in Tasks : Step(t)
    \/ \E t \in Tasks : Settle(t)
    \/ \E w \in Workers : WorkerDies(w)
    \/ Terminated

Spec == Init /\ [][Next]_vars

(* Tasks run on the tokio runtime: one that can take its next step does so *)
(* eventually (its mutexes are granted in order of request).  Requests     *)
(* need not arrive, workers need not die, lost statements need not settle. *)
Fairness ==
    /\ \A t \in Tasks \ {Recovery} : WF_vars(pc[t] # "idle" /\ Step(t))
    /\ WF_vars(Step(Recovery))
FairSpec == Spec /\ Fairness

----------------------------------------------------------------------------
(* Properties. *)

(* Every variable keeps its type. *)
TypeOK ==
    /\ draining \in BOOLEAN
    /\ rooms \in [RoomIds -> Joins \cup {None}]
    /\ token \in [RoomIds -> Tasks \cup {None}]
    /\ identity \subseteq RoomIds
    /\ state \in [Joins -> RoomStates]
    /\ creation \in Tasks \cup {None}
    /\ control \in [Joins -> Tasks \cup {None}]
    /\ routers \in [RoomIds -> Joins \cup {None}]
    /\ host \in [Joins -> Workers \cup {None}]
    /\ worker \in [Workers -> {"spare", "up", "died", "gone"}]
    /\ db \in [RoomIds -> Rows]
    /\ inDoubt \subseteq Tasks
    /\ pc \in [Tasks -> Labels]
    /\ room \in [Tasks -> RoomIds \cup {None}]
    /\ arc \in [Tasks -> Joins \cup {None}]
    /\ snapshot \in [Joins -> Nat]
    /\ generation \in [Deletes -> Creates \cup {Seed, None}]
    /\ victim \in [Leaves -> Joins \cup {None}]
    /\ failed \in Workers \cup {None}
    /\ affected \subseteq RoomIds
    /\ doomed \subseteq Joins

(* A join that owns one count of pending_joins of incarnation i. *)
Reserved(t, i) ==
    arc[t] = i /\ pc[t] \in {"snapshot", "control", "insert", "drop", "release"}

(* No task is between two steps. *)
Quiet == \A t \in Tasks : pc[t] = "idle" \/ Finished(t)

(* No worker has died so far. *)
Healthy == \A w \in Workers : worker[w] \in {"spare", "up"}

(* Until a worker dies, a live room in the map is served by the router its *)
(* own creator registered: no delayed teardown ever removes a              *)
(* replacement's router and no rollback removes a live one                 *)
(* (lifecycle.rs:403-406).                                                 *)
OwnRouter ==
    Healthy => \A r \in RoomIds :
        rooms[r] # None /\ ~state[rooms[r]].deleting => routers[r] = rooms[r]

(* A room is not evicted underneath a join that has reserved it: from the  *)
(* final check until its teardown ends nobody holds a reservation on an    *)
(* evicted room and nobody is a member of it (mod.rs:590-592).             *)
ReservedRoomKept ==
    \A e \in Joins \cup Leaves :
        pc[e] = "teardown" =>
            /\ state[arc[e]].members = {}
            /\ \A t \in Joins : ~Reserved(t, arc[e])

(* pending_joins counts exactly the joins that still hold a reservation,   *)
(* whatever mixture of commits, refusals and cleanups ended the others.    *)
PendingAccounting ==
    \A i \in Joins : state[i].pending = Cardinality({t \in Joins : Reserved(t, i)})

(* A failed deletion has lifted the tombstone of i although i had been     *)
(* unmapped meanwhile (mod.rs:433).                                        *)
Revived(i) == \E t \in Deletes : pc[t] = "revived" /\ arc[t] = i

(* Nobody is a member of a room that can no longer be found, unless a      *)
(* failed deletion has revived it: no eviction, deletion or recovery       *)
(* leaves members behind in an unreachable incarnation.                    *)
NobodyStranded ==
    \A i \in Joins :
        state[i].members # {} /\ ~draining => Revived(i) \/ \E r \in RoomIds : rooms[r] = i

(* A create or a REST update that never learned whether it committed and   *)
(* holds no reservation: it found its room gone, or its id reserved.       *)
Unknown(t) == t \in Creates \cup Owners /\ pc[t] = "unknown" /\ token[room[t]] # t

(* Until a worker dies, a live room enforces the row it was loaded from,   *)
(* except while the writer that is changing it holds control: no order of  *)
(* commits, publications and loads, no lost outcome of a deletion or of a  *)
(* moderator's write, and none of a create or a REST update that has       *)
(* reserved its id, leaves the runtime serving a policy the database does  *)
(* not have (control.rs:176-178).  What a create or an update that has no  *)
(* reservation may still commit is the one exception: a row next to an     *)
(* ad-hoc room, and the policy of that update.                             *)
PolicyCoherent ==
    Healthy => \A r \in RoomIds :
        LET s == state[rooms[r]] IN
        rooms[r] # None /\ ~s.deleting /\ control[rooms[r]] \notin Writers \cup Owners =>
            \/ s.gen = db[r].gen /\ (s.policy = db[r].policy \/ Unknown(db[r].policy))
            \/ s.gen = None /\ Unknown(db[r].gen)

(* Between its COMMIT and its publication a policy writer keeps the room   *)
(* it wrote for: control excludes every tombstone and eviction, so a       *)
(* committed policy is always published (control.rs:81-83).                *)
CommittedPolicyIsPublished ==
    \A t \in Writers : pc[t] = "announce" /\ ~draining => MappedLive(room[t], arc[t])

(* The same for a REST update, which checks the tombstone and not the map. *)
OwnerPolicyIsPublished ==
    \A t \in Owners :
        pc[t] = "announce" /\ ~draining => MappedLive(room[t], arc[t]) \/ Revived(arc[t])

(* An id reserved because an SQL outcome is unknown stays reserved         *)
(* (control.rs:176, control.rs:276): only recovery, closing a room of that *)
(* id for a worker that died, writes its own token over it                 *)
(* (lifecycle.rs:482).                                                     *)
QuarantineHolds ==
    [][\A r \in RoomIds : token[r] \in Writers \cup Owners =>
          \/ token'[r] = token[r]
          \/ /\ pc[Recovery] = "close" /\ pc'[Recovery] = "teardown"
             /\ room[Recovery] = r /\ token'[r] = Recovery]_vars

(* The live-room cap is never exceeded, however many first joins race.     *)
CapacityRespected == Cardinality({r \in RoomIds : rooms[r] # None}) <= MaxRooms

(* Once a drain has completed within its budget no room is mapped and      *)
(* nobody is a member of any incarnation, for ever, unless a failed        *)
(* deletion has revived it.                                                *)
DrainIsFinal ==
    \A t \in Drains :
        pc[t] = "done" =>
            /\ \A r \in RoomIds : rooms[r] = None
            /\ \A i \in Joins : state[i].members # {} => Revived(i)

(* When nothing is running, and until a worker dies, nothing is left over  *)
(* at an id where no cleanup was given up: every live room has a member    *)
(* (or a REST call has removed its last one), every router serves a mapped *)
(* room, and an id is reserved only by an update that has quarantined it   *)
(* or a deletion whose outcome was lost (mod.rs:1274-1276).                *)
(* (After a drain the media server closes all routers at once.)            *)
NothingLeaks ==
    Quiet /\ ~draining /\ Healthy => \A r \in RoomIds :
        \/ \E t \in Tasks : pc[t] = "abandoned" /\ room[t] = r
        \/ /\ rooms[r] # None /\ ~state[rooms[r]].deleting =>
                 state[rooms[r]].members # {} \/ \E o \in Owners : arc[o] = rooms[r]
           /\ routers[r] # None => rooms[r] = routers[r]
           /\ token[r] # None => pc[token[r]] = "unknown"

(* Recovery closes only rooms whose router was on the worker that died, not *)
(* a replacement that took the id in the meantime (lifecycle.rs:428-429).   *)
RecoverySparesOthers ==
    [][\A r \in RoomIds :
          /\ pc[Recovery] = "close" /\ pc'[Recovery] = "teardown"
          /\ rooms[r] # None /\ rooms'[r] = None
          => host[rooms[r]] = failed]_vars

(* Once every death has been handled no live room is left on a worker that *)
(* died (lifecycle.rs:329-332).                                            *)
RecoveryIsComplete ==
    Quiet /\ (\A w \in Workers : worker[w] # "died") =>
        \A r \in RoomIds :
            rooms[r] # None /\ ~state[rooms[r]].deleting => worker[host[rooms[r]]] = "up"

(* Every request that has started ends: no cycle of lock waits, no lock    *)
(* that is never released.                                                 *)
EveryRequestEnds ==
    \A t \in Tasks \ {Recovery} : pc[t] # "idle" ~> Finished(t)

(* Every worker death is worked off, whatever the rooms it names are doing. *)
DeathsAreHandled ==
    \A w \in Workers : worker[w] = "died" ~> (worker[w] = "gone" /\ pc[Recovery] = "idle")
=============================================================================
