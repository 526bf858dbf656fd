# simplestChat: a TLA+ model of the server

simplestChat is a group video and chat server in Rust. One process serves HTTP
(accounts, room administration), WebSocket signaling, the rooms themselves and
the mediasoup workers that carry their media; PostgreSQL is optional for guest
rooms and holds accounts, room rows and history. This directory models the
concurrent core of that process and the account transactions behind it, checks
it with TLC and proves part of it with TLAPS. Source paths below are relative to `src/` of the repository.

## Inventory

| Component | State it keeps | Operations | What is hard | What makes it correct |
| --- | --- | --- | --- | --- |
| Room life cycle: `room/manager/lifecycle.rs`, `membership.rs`, `room/control.rs`, `room/mod.rs`, `room/community.rs` | map of live rooms, `deleting_rooms` tokens, `identity_updates`, creation lock, a control lock per room, `deleting`, `pending_joins`, `policy_revision`, members | join, leave, failed-join cleanup, create and delete a row, policy write, quarantine, worker recovery, drain | long asynchronous functions over three locks; SQL whose outcome is lost; teardown outside every lock, keyed by room id | a live room keeps its router, nobody is a member of an unreachable room, runtime policy equals durable policy, uncertain ids stay reserved, nothing leaks, no deadlock |
| Routers and workers: `media/router_manager.rs`, `worker_manager.rs` | router per room, viewer routers and pipes, load counts, worker list | create, remove, place a viewer, recreate a worker | a worker may die between any two steps | load counts return to zero, dead workers hold no room |
| REST administration: `room/administration.rs`, `api.rs`, `community.rs` | none of its own (marker in `identity_updates`) | admit, authorise in a transaction, publish | the room may be live or dormant and change between | published iff committed |
| Reconnect grace: `signaling/connection_grace.rs`, `membership.rs` 1156-1278 | bounded map of retained memberships with tokens and timers | retain, take over, expire, revoke | timer, new socket, moderator and drain race for one membership | every membership has somebody who ends it; nobody ends another's |
| Connections and their credentials: `signaling/connection.rs`, `connection_credentials.rs`, `connection_authentication.rs`, `signaling/mod.rs` | current room, lobby guard, accepted claims, check in flight, allowance, receiver of revocations | upgrade, join, leave, check, renew, close | an answer read before a revocation and applied after it; notices lost; the database unreachable | no revocation is missed; old credentials end in bounded time |
| Lobby, roles, sanctions: `manager/lobby.rs`, `moderation_ops.rs`, `roles.rs`, `moderation.rs`, `publication.rs` | lobby, roles, bans, sanctions, saved and runtime | admit, deny, kick, ban, mute, promote | authorization read before a lock is taken; saved and runtime copies | a banned identity is not in the room; rank rules |
| Settings and media permission: `settings_ops.rs`, `media_ops.rs` | room policy, records of producers | update, produce, close, revoke | native creation and closing run outside the room's lock, between two looks at a policy that changes | what the room records is permitted and within its limit; no stream is left that nobody records or closes |
| Receive replacement: `room/receive_replacement.rs` | old and new transport of a participant | begin, commit, roll back | consumers created during the switch | one receive transport at the end |
| Transports: `media/transport_manager.rs` | transports, producers, consumers, caps | create, connect, close | caps under concurrency, late native answers | caps hold, nothing survives its session |
| Refresh sessions: `auth/session.rs`, `sessions.rs`, `routes.rs` | rows of rotating tokens, `auth_version` | sign in, rotate, log out, revoke, change password, sweep | transactions that verified before they locked; statements that wait for a row another one changes | one successor per token; what has ended stays ended; no sign-in at an old version |
| Passkeys, password and recovery key: `auth/passkeys.rs`, `webauthn.rs`, `account.rs` | rows of credentials, bounded challenge store in memory | start, authorize, enroll, replace, remove, redeem, sign in | a proof held across requests; memory written before a commit that may fail | the owner keeps a way in; nothing is used twice; no proof outlives a change of credentials |
| WebSocket tickets: `auth/ws_tickets.rs` | bounded table of one-use tickets | issue, redeem, expire | cap, expiry and revocation together | admits once, and not for a session that has ended |
| Account update hub: `auth/updates.rs` | streams per account, generation of revocations, bounded queues | subscribe, notify, revalidate, validate, release | a query in flight while a revocation is announced; announcements that never come | a stream that was told is silent; one that was not told closes |
| Rate limits: `room/mod.rs` 255-380, `room/window.rs`, `auth/limiter.rs`, token bucket | windows, counters, overflow share | allow, reclaim | the table at its limit, window edges | never more than the limit per window |
| Invitations, chat and history, push, attachments | rows, sequences, bounded queues, grants | see files | concurrent redemption, edits, retries | counts and order |
| Shutdown: `shutdown.rs`, `app.rs` | drain flag, stages with budgets | begin, stages | admission racing the flag | no admission after the flag |
| Configuration, metrics, diagnostics, web client, tooling | | | no protocol state | not modelled |

Requests meet in `RoomManager`. Signaling calls `add_participant`,
`remove_participant_for_sender` and the control operations; HTTP calls
`create_persisted_room`, `delete_persisted_room`, `update_room_identity` and the
administration context; a worker's exit is a message to one recovery task; a
signal starts the drain. All of them share the map, the reservations and the
locks, in the order creation, control, room state (`room/control.rs:3`).

## Modules

| Module | Content |
| --- | --- |
| `RoomLifecycle` | the room life cycle: state, one action per stretch between two awaits, properties |
| `MCRoomLifecycle` | symmetry for TLC; the `.cfg` files give the sets of requests |
| `RoomLifecycleProofs` | types, the cap, the locks, publication and the pending count |
| `RoomCustodyProofs` | evictions, reservations, routers, members, rows, drain, left-overs and recovery |
| `MemberSessions` | who speaks for a member: sockets, reconnect grace, credentials, lobby guard |
| `MCMemberSessions` | symmetry for TLC |
| `MemberSessionsProofs` | the inductive invariant and the theorems about seats |
| `MemberStandingProofs` | lobbies and revocations, on top of the custody of seats |
| `SessionAuthority` | abstract: what the account database promises about sessions and their bearers |
| `AccountSessions` | the transactions on refresh sessions, shown to implement `SessionAuthority` |
| `AccountSessionsProofs` | the inductive invariant, the theorems and the refinement |
| `AccountCredentials` | password, passkeys, recovery key and their ceremonies, on top of `SessionAuthority` |
| `AccountCredentialsProofs` | the inductive invariant and the theorems about keys and ceremonies |
| `AccountCapabilities` | WebSocket tickets and account update streams, on top of `SessionAuthority` |
| `AccountCapabilitiesProofs` | the inductive invariant and the theorems about tickets and streams |
| `MediaPermissions` | who may send what: the room's records of producers against the streams of the media server |
| `MediaPermissionsProofs` | the inductive invariant and the theorems about producers |
| `MCAccountSessions`, `MCAccountCredentials`, `MCAccountCapabilities`, `MCMediaPermissions` | symmetry and instances for TLC |

The composition goes through an interface. `AccountSessions` works out the SQL;
what the rest of the process sees of it is `SessionAuthority`, whose actions
`AccountCredentials` and `AccountCapabilities` use for every sign-in, renewal,
revocation and change of credentials. Replacing the interface by its
implementation there would multiply states and change nothing they can observe.

### How RoomLifecycle corresponds to the code

A request is a *task* with a program counter `pc[t]`, the room id it is for
(`room[t]`) and the `Arc<RwLock<Room>>` it cloned (`arc[t]`). An incarnation of a
room is named by the join that created it, a membership by the join that
inserted it, and a deletion token (a fresh UUID) by the task that issued it, so
`Arc::ptr_eq`, sender identity and token equality are equality of names. One
action is what runs between two awaits that matter: waiting for a lock, SQL,
native media, a detached task. The room's state lock is never held over an await
and so never appears; `creation` and `control[i]` are variables.

| Code | Actions |
| --- | --- |
| `get_or_create_room`, `add_participant` | `JoinLookup`, `JoinReserve`, `JoinCreate`, `JoinLoad`, `JoinRoute`, `JoinRegister`, `JoinRollback`, `JoinPublish`, `JoinSnapshot`, `JoinRefused`, `JoinControl`, `JoinInsert` |
| `PendingRoomJoin::drop`, `release_failed_join` | `DropCreation`, `DropRelease`, `Teardown` |
| `remove_participant_inner` | `LeaveLookup`, `LeaveRemove`, `LeaveCreation`, `LeaveEvict`, `Teardown` |
| `create_persisted_room` | `CreateLock`, `CreateInsert` |
| `delete_persisted_room`, `restore_failed_deletion` | `DeleteRead`, `DeleteLock`, `DeleteTombstone`, `DeleteRow`, `DeleteRestore`, `DeleteEmpty`, `Teardown` |
| `run_room_control`, `persist_room`, `quarantine_room` | `WriterLookup`, `Admit`, `Persist`, `Announce`, `Quarantine`, `Sweep` |
| `update_room_identity`, administration `Context` | `OwnerMark`, `OwnerFind`, then the same, or `DormantCheck`, `DormantWrite` |
| `recover_from_worker_death`, `close_room_for_rejoin` | `RecoverSnapshot`, `RecoverReplace`, `RecoverNext`, `RecoverLock`, `RecoverClose`, `Teardown` |
| `begin_draining`, `shutdown_with_budget` | `DrainBegin`, `DrainMap`, `DrainRoom`, `DrainEnd` |
| PostgreSQL, mediasoup (external) | `Settle`, `WorkerDies` |

Abstractions. A policy is the name of the write that produced it and a row adds
the name of the insert that created it (`created_at`). Participants and lobby
entries are one set of members, since every guard of the life cycle asks whether
both are empty. The checks of a join (ban, password, role, capacity of the room)
are a choice between going on and being refused. The SQL of a task in `Doubtful`
may lose its answer: the handler goes on as it does on a timeout, and `Settle`
commits or drops the statement at any later time. `Timeouts` says whether a
bounded wait may expire. How a task ended is kept in `pc`: `done`, `unknown` (it
never learned its SQL outcome), `abandoned` (it gave up a cleanup that only it
would have done), `revived` (a failed deletion lifted the tombstone of a room that
had been unmapped meanwhile); no action reads the difference. The replacement of one's own stale membership inside
`add_participant` is an independent `Leave`, which allows it at more moments than
the code does. Closing a participant's media is left out: it is keyed by a fresh
session id that no other membership shares.

### How MemberSessions corresponds to the code

The other half of a membership: `RoomLifecycle` says what becomes of the room,
`MemberSessions` who may act for a member. A *seat* is an entry of
`participants` or `lobby`; its `owner` is the outbound channel, named by its
socket, so `same_channel` is equality of names. A socket closes once and its
reconnect token is a fresh UUID, so a grace entry is named by the socket that
left it (`timer[s]`). Everything done to a seat happens in one critical section
of its room and is part of one action; what is split is the socket's task, at its
awaits, and the steps after a lock is released (`JoinSettle`, `Mark`).

| Code | Actions |
| --- | --- |
| `ws_handler` | `Subscribe`, `Validate`, `Accept` |
| `JoinRoom`, `add_participant` | `JoinStart`, `JoinMove`, `JoinLookup`, `JoinReplace`, `JoinCommit`, `JoinSettle` |
| `LeaveRoom` | `LeaveStart`, `LeaveEnd` |
| `handle_reconnect`, `rebind_participant_sender` | `Reconnect`, `Resume`, `ResumeFails` |
| `CredentialSession` | `Notice`, `NoticesLost`, `CheckBegin`, `CheckEnd`, `RenewBegin`, `RenewEnd` |
| end of `handle_connection` | `Disconnect`, `RecheckBegin`, `RecheckEnd`, `Part`, `Retain`, `RemoveOwn`, `WriterEnds`, `Mark` |
| timer of `retain_for_reconnect` | `TimerCheckBegin`, `TimerCheckEnd`, `TimerNotice`, `TimerExpires`, `TimerStops`, `TimerRemoves` |
| `revoke_account_sessions` | `ChangeCredentials`, `Notify`, `TakeRevoked`, `Purge` |
| `admit_from_lobby`; kick, ban, denial, end of a room | `Admit`; `Eject` |
| `begin_draining`, `shutdown_with_budget` | `DrainBegin`, `DrainClose`, `DrainRoom` |
| PostgreSQL, clock, broadcast channel | `Query`, `Lapse`, `FallBehind`, `WriterFails` |

Abstractions. Deadlines are events that may happen whenever they are running:
the token's expiry and the 15 s allowance are `Lapse`, the 30 s of grace
`TimerExpires`. `cred.life` is `over` when `CredentialSession::expired` is true.
The revocations that wait in a receiver are a set of versions of its own account;
`lagged` is `RecvError::Lagged`. Joins are refused or accepted without their
reasons. A change of credentials raises `auth_version`; the end of the issuing
session, which `validate_current_claims` asks for too, looks like a change that
is not announced.

### How AccountSessions corresponds to the code

A request is a process whose transaction takes effect at its commit. Until then
it holds the users row (`lock`, the `FOR NO KEY UPDATE`) and the session rows it
has locked (`RowLocked`). A refresh token is named by its family and by the
request that minted it, so hashes are names.

| Code | Actions |
| --- | --- |
| `login`, `passkey_login_finish`, `create_session_with` | `LoginVerify`, `KeyLoginStart`, `LoginInsert`, `LoginCommit` |
| `refresh`, `rotate_refresh_token_with` | `RefreshLookup`, `RefreshJudge`, `RefreshRotate`, `RefreshCommit`, `ReuseCommit` |
| `spawn_expired_cleanup`, `cleanup_expired` | `SweepPick`, `SweepDelete`, `SweepFail` |
| `logout`, `delete_session_by_token` | `Logout` |
| `sessions.rs` | `RevokeVerify`, `RevokeWrite`, `RevokeCommit` |
| `change_password` | `ChangeVerify`, `ChangeWrite`, `ChangeCommit` |
| rollback, lost connection, end of the process | `Fail` |

Isolation is PostgreSQL's READ COMMITTED. A statement that waits for a row judges
the row it finds afterwards (`Logout`), except where a subquery has already
chosen ids in its snapshot: the sweep then deletes what it picked, although a
rotation may have renewed it (`SweepPick`, `SweepDelete`). Statements of one
transaction whose clock readings may differ are separate actions. A sign-in's
`now()` is its transaction's start, some time between its arrival and the lock.

`SessionAuthority` knows of each session whether it is new, live, lapsed (its row
is there and past its expiry) or ended; the mapping reads this off `table`, `row`
and the clock. A lapsed session may be renewed by a rotation that was under way:
the UPDATE does not ask for the expiry again (`RefreshRotate`).

### How AccountCredentials corresponds to the code

A request proves something without a lock (a bearer, the password, possession of
a ceremony), waits, locks the users row and writes. Everything after the lock is
one action, because nobody writes these rows without it; the exception is the
registration challenge, which goes into the process's memory before the commit
(`Prepare`, then `RegistrationCommit`, `RegistrationFails` or
`RegistrationDropped`, which differ in what the client, the memory and the rows
are left with; a request may be dropped before or after its commit). `opener` is
a history variable: the passkey each session was signed in with.

| Code | Actions |
| --- | --- |
| `passkeys::start` | `ProvePassword`, `StartCeremony` |
| `authorize`, `enroll` | `AuthorizeTake`, `EnrollTake` |
| `apply_action`, `prepare_registration`, `commit_registration` | `ApplyProved`, `ApplyAsserted`, `RegistrationCommit`, `RegistrationFails`, `RegistrationDropped` |
| `enroll`, `replace_credential` | `EnrollAdded`, `EnrollReplaced` |
| `change_password`, `create_recovery_key`, `redeem_recovery` | `ProveChange`, `Change`, `Keep`, `ProveRecovery`, `Redeem` |
| `passkey_login_finish` | `AssertSignIn`, `KeySignIn` |

### How AccountCapabilities corresponds to the code

| Code | Actions |
| --- | --- |
| `Hub::subscribe`, drop of the lease | `StreamOpen`, `Subscribe`, `Close` (in `Leave`, `Reject`, `Lagged`) |
| `Connection::valid` | `Load`, `Query`, `Accept`, `Reject` |
| `Connection::next` | `Delivered`, `Due`, `Wake`, `Receive`, `Lagged` |
| `Hub::revalidate`, `Hub::changed` | `Announce`, `AnnouncementLost`, `Changed` |
| `TicketStore` | `TicketAsk`, `TicketIssue`, `TicketRefused`, `TicketExpires`, `TicketTake`, `TicketRedeem` |

A generation counts the revocations announced while the account has a
subscriber, and starts again at 0 with a new entry. Deadlines may pass at any
moment. `told` and `dead` are history variables: no action reads them.

### How MediaPermissions corresponds to the code

A session is one membership of one participant, `<<member, number>>`; it stands
for the `media_session_id` and the sender, which change together because a
resumed membership keeps both and is taken over only after the old socket's loop
has ended. `records` is `Participant.producers` with `producer_to_participant`,
which are written in the same critical sections; `streams` and `media` are what
the media server holds.

| Code | Actions |
| --- | --- |
| `add_participant`, `remove_participant_inner` | `Join`, `Leave`, `RemoveMedia` |
| `create_send_transport` | `OpenBegin`, `OpenNative`, `OpenSettle` |
| `create_producer` | `ProduceBegin`, `ProduceNative`, `ProduceRecord`, `ProduceRefused`, `ProduceUndo` |
| `close_producer` | `CloseBegin`, `CloseNative`, `CloseRecord` |
| `update_room_settings`, `set_participant_role`, media sanctions | `OpBegin`, `OpFails`, `OpAmend` |
| `revoke_unauthorized_producers`, `close_revoked_producers` | `Revoked` in `OpAmend`, `OpClose`, `OpEnd` |
| kick, ban of a cohort, deletion, recovery, quarantine | `OpRemove` |
| `close_cam` | `CamBegin`, `CamClose`, `CamRecord` |

Left out: pausing and resuming, consumers, observers, receive transports, and how
long a ban keeps an identity out (it may expire, so a return is possible at any
time). A text mute, which also spreads a camera ban over the cohort, has no action:
all of a cohort have the ban already. `media` is the set of sessions with a
send transport; the empty entry that a failed transport creation leaves behind
until its member departs is not in it. The converse of `NothingUnseen` does not
hold and is not claimed: after the fallback of `close_revoked_producers` has
dropped a member's whole media, records of its other producers stay until it
leaves.

## Runs

Twelve runs, one per question; ten pass and two end in the counterexample of a
finding.

| Run | Requests | Shows |
| --- | --- | --- |
| `RoomContention` | 2 joins, 1 leave, 1 delete, 1 write, a worker that dies; waits expire; the write may be in doubt | router ownership until the death, no eviction under a reservation, exact pending count, publication after commit, only recovery overwrites a quarantine |
| `RoomRest` | 2 joins over 2 ids with a cap of 1, a create, a delete, a REST update; each of these three may be in doubt | the marker in place of the creation lock keeps policies coherent; the cap |
| `RoomSettled` | 2 joins, leave, 2 deletes, drain; waits expire; the deletes may be in doubt | nobody stranded, nothing left behind that was not given up, a completed drain is final |
| `RoomLiveness` | 2 joins, a delete, a worker that dies and a replacement that dies too; fairness, no symmetry | every request ends, deaths are handled, recovery closes only rooms of the dead worker |
| `SessionCustody` | 2 sockets of one account, 2 rooms, a grace map of 1, drain | no membership is forgotten or ended by another session's leftovers, no lobby member is retained, a resumed member stays present, a closed grace map stays empty |
| `SessionRevocation` | 1 socket, all credential mechanisms, 1 change, drain; fairness | no announced revocation is missed, an unannounced one takes effect, a closed socket's membership ends |
| `AccountTransactions` | a sign-in, 2 refreshes, a logout, a revocation, a change of password and the sweep over one seed session, cap 1 | one successor per token, a logout is final, no ended session manages others, and the refinement of `SessionAuthority` |
| `AccountKeys` | 4 requests of any kind, a passkey and optionally a password and a recovery key at the start, 2 sessions | a way in remains, limits hold when ceremonies finish together, nothing is used twice, no proof outlives a change, no session outlives its key, a replacement keeps its backup |
| `AccountStreams` | a stream, 2 tickets and 2 upgrades of one session in stores of one, drain; fairness | a ticket admits once and never for an ended session, a stream that was told is silent, one that was not told closes |
| `MediaPolicy` | 2 members with three sources, 2 administrators of any kind | permission, limit and no unseen stream |
| `RoomRegistrationRace`, `SessionAdmission` | see Findings | |

Bounds. One id is enough for everything keyed by id; the cap needs two. Two
joins make a creator and a second member, and let a room be evicted and created
again, which is what every stale `Arc` and delayed teardown needs; two deletes
(`RoomSettled`) let one act on the other's leftovers. Two deaths are enough for
one to come while recovery from the other waits for a busy room. No run has every
kind of request at once, and waits do not expire in `RoomRest`, where a lost
outcome is what an update or a create may meet; the theorems about rooms have no
such bound. Numbers are not capped: `pending` and
`revision` are bounded by the number of tasks. `policy_revision` is a wrapping
64-bit counter in the code and a natural number here.

Two sockets are an old and a new session of one person, which every takeover,
replacement and late cleanup is about; a grace map of one is full when the second
closes. `Watched` names the sockets that live long enough for periodic checks,
renewal and expiry: none in `SessionCustody`, where only the check at disconnect
is made, and the only one in `SessionRevocation`. `MaxVersion` bounds the changes
of credentials: none in `SessionCustody`, whose memberships end by moves, timers
and the drain. That a revocation between two sockets of one account forgets no
membership either is what the theorem `SeatsHaveCustody` adds.

For accounts, two refreshes are the two that race for one token; a cap of one
makes a sign-in evict; a `Grace` of one, a `Slide` of two and an `Absolute` of
three are the least for which a predecessor is presented within its window and
after it (the family is then revoked), a session lapses and is renewed by a
rotation that was under way, and the absolute age cuts a slide short.
Four requests let two ceremonies be started and finished, or one be started,
authorized and enrolled while a fourth request changes what it rests on; a limit
of two passkeys over one at the start is reached by the second enrollment. One
session suffices for tickets and streams, since nothing there compares sessions.
In `MediaPolicy` a limit can fall to one with two broadcasters, one of them with
two sources, so a revocation may remove some of a member's producers or all;
each member has one visit, and each of the two administrators one request. Both
members come from one address, so a sanction on one binds both.

Symmetry permutes requests of one kind whose SQL may be lost alike; it is not
used where liveness is checked.

Fairness. Each task that has started is weakly fair: tokio runs every ready task
and its mutex is first come, first served. Requests need not arrive, workers need
not die, lost statements need not settle. The liveness runs assume that SQL and
native calls return, which their deadlines guarantee. For sessions, a socket's
task past its select is weakly fair, and so are answers, expiries of a running
allowance and cleanup. Notices and checks are strongly fair: their arms precede
the frame arm of a `biased` select and a check is due every five seconds, so
frames cannot keep them from running. The expiry of the grace period is strongly
fair because its deadline is fixed while checks come and go. Peers need not send
or close. An update stream is polled as long as its connection takes data, and
its validation timer passes (`FairSpec` of `AccountCapabilities`); a client that
stops reading is ended by the stream's lifetime, which is `Leave`, and receives
nothing meanwhile. Announcements need not come.

### Findings

Two runs state what a comment of the code promises and end in a counterexample.

| Run | Promise | What happens |
| --- | --- | --- |
| `RoomRegistrationRace` | `lifecycle.rs:329-332`: every room of a dead worker is closed | a router registered after the snapshot is not on the list |
| `SessionAdmission` | `lobby.rs:187-188`, `connection.rs:555-557`: admission opens the guard | the joining task raises the guard (`connection.rs:1569`) after the admission has lowered it, once the room's locks are free |

Five more orders of events leave the rooms in a state that a reader may not
expect. TLC finds each when the exception that names it is taken out of the
property; the properties state these exceptions and nothing wider, so the runs
and theorems show that they are the only ones.

| What happens | Named in |
| --- | --- |
| A deletion that fails restores `deleting = false` (`mod.rs:433`) on an incarnation that another deletion or a recovery has unmapped meanwhile; its members are then out of reach, a drain does not find it, and a REST update of it commits to the new row (compare `lifecycle.rs:49`) | `Revived` in `NobodyStranded`, `DrainIsFinal`, `OwnerPolicyIsPublished` |
| Recovery replaces the token of a room of the dead worker (`lifecycle.rs:482`), also one that quarantines an unknown outcome (compare `control.rs:176`), and releases the id | the last disjunct of `QuarantineHolds` |
| After that, a deletion that lost its token may remove the router of the next room with that id (compare `lifecycle.rs:403-406`); and recovery may reserve an id whose router a deletion has already removed, and keep it | `Healthy` in `OwnRouter`, `PolicyCoherent` and `NothingLeaks` |
| A create whose deadline passes has no reservation: its row may commit next to an ad-hoc room (compare `lifecycle.rs:7-10`). A dormant update keeps the token of a deletion instead of its own (`or_insert_with`), which the deletion then releases (compare `community.rs:198-199`) | `Unknown` in `PolicyCoherent` |
| A cleanup whose bounded wait expires is logged and not repeated (`membership.rs:1061`), and a REST kick of the last member evicts nobody (`administration.rs:929`) | `abandoned` and `Owners` in `NothingLeaks` |

Three behaviours of the account code that a reader may not expect are in the
models as they are, and no document contradicts them: the sweep may end a session
that was renewed while it waited; a logout announces nothing, so streams and
sockets of its session end at their next check; and the management of passkeys
and passwords checks the account's version again under the lock, but not that
the session which authorized it is still there.

## Proofs

`RoomLifecycleProofs` proves, for any finite sets of rooms and joins and any
sets of other requests and workers, from `TaskAssumption` and
`ParameterAssumption` only (`DrainAssumption`, that a process drains at most once,
`app.rs:203`, serves `DrainsAreFinal` below):

- `TypeCorrect`: `TypeOK`; that `pending` stays a natural number is part of it;
- `CapacityHolds`: `CapacityRespected`;
- `CommittedPoliciesArePublished`: `CommittedPolicyIsPublished`;
- `PendingJoinsAreCounted`: `PendingAccounting`.

The first three follow from `SafetyInvariant` (`SafetyHolds`). The cap is not
inductive: that publication keeps it rests on nobody else publishing between the
check and the insertion, hence on mutual exclusion of the creation lock
(`CreationExclusive`: a task at a step under that lock is its holder) and on
`BuildsAlone` (a creator's id is free and the map is below the cap). Publication
after COMMIT rests on `ControlExclusive`, on `Governing` (from admission to
publication the writer's room is mapped and live) and on every action that
tombstones or unmaps a room taking control first; the drain is the exception, so
`DrainFlagged` ties its steps to the flag. Exclusion needs `Placed`: a task past
its lookup has a room and an incarnation. The pending count needs `Known` besides:
an incarnation whose creator has not published it is unknown to every other task.

The proofs go kind by kind. For each kind of request one lemma each says what its
steps may do to types, to the places of other tasks, to the locks and to rooms
others control (`OwnPlace`, `OwnLocks`, `OwnRooms`); the invariant's parts then
follow from these frames and not from the 60 actions again.

`MemberSessionsProofs` proves, for any sets of rooms, accounts and sockets, any
capacity of the grace map and any number of credential changes, from
`SocketAssumption` and `SeatAssumption` only (`None` is no room, socket, account
or seat, and an account is no socket):

- `TypeCorrect`: `TypeOK`;
- `SeatsHaveCustody`: `EverySeatHasCustody`;
- `DrainEndsAllTimers`: `DrainEndsTimers`;
- `ResumedStaysConnected`: `ResumedIsConnected`;
- `OnlyModeratorsDoEvict`: the action property `OnlyModeratorsEvict`.

They rest on `Custodial` (`CustodialHolds`). Types alone are not inductive: a join
reads the room it wants and the channel it replaces, a resume the session it took,
and `Located` says that a task at such a step has set them. Custody is not
inductive either: a timer that removes "the seat of its session" ends custody of
everything that socket holds, so it has to be one seat, the one that its locals
name. That is `Seated`; with it, `LeftInCare` says that a seat whose socket's task
no longer attends to it has a timer, a cleanup or a reconnect. That nobody else's
left-over ends a resting member's seat needs the converse, `LeftAreGone` (only a
socket that is closing for good is retained, purged or resumed), and
`ReplacedAreDown` (a join replaces only a channel whose writer is gone).

The argument goes through frames again: `CredentialSteps` (settling credentials
moves only the task itself), `BackgroundSteps` (a timer or a cleanup moves no task
and removes at most its session's seat) and `WorldSteps` (moderators, credential
changes and the drain move no task and give no seat); `OwnsVacated`, `OwnsGranted`
and `OwnsMarked` say what a step makes of who holds a seat.

`MediaPermissionsProofs` proves, for any members, sessions, sources, policies and
administrators, from `MediaAssumption` only:

- `TypeCorrect`: `TypeOK`;
- `RecordsStayPermitted`: `RecordsArePermitted`;
- `LimitHolds`: `WithinLimit`;
- `NothingStaysUnseen`: `NothingUnseen`.

They rest on `SoundHolds`. That streams are known is not inductive: an owner's
`CloseRecord` forgets a record, so its stream must be closed by then
(`ClosedIsClosed`); a revocation that skips a session where a close has failed
drops it from `todo`, so what is left of that session must be doomed
(`FailedIsDoomed`), which a producer created later would break unless it is in
nobody's `todo` yet (`Fresh`); and all of them compare producers of different
commands, which `OwnProducer` keeps apart. Permission after a change of policy
has two halves: who is examined loses what is forbidden, and who is not examined
is not restricted (`UnexaminedKeep`). The limit after a change of settings rests
on `SeatsAreFew`: seats are kept in a strict total order, so the number of
candidates ahead is an injection of those who stay into `0 .. Limit - 1`.

### Rooms after the locks: RoomCustodyProofs

Its theorems rest on those of `RoomLifecycleProofs` and on the same assumptions.
None has a condition on the constants: any number of deletions, lost outcomes,
expired waits and worker deaths. What the properties except is in them and listed
under *Findings*.

| Theorem | Property | Rests on |
| --- | --- | --- |
| `ReservationsKeepRooms` | `ReservedRoomKept` | `EvictionInvariant` |
| `RecoveriesSpareOthers` | `RecoverySparesOthers` | `AimInvariant` |
| `LiveRoomsKeepTheirRouter` | `OwnRouter` | `CustodyInvariant` |
| `QuarantinesAreKept` | `QuarantineHolds` | `Registry` (`RegistryHolds`) |
| `MembersAreFound` | `NobodyStranded` | `Rooted` |
| `OwnerPoliciesArePublished` | `OwnerPolicyIsPublished` | `Stewarding` |
| `PoliciesAreCoherent` | `PolicyCoherent` | `PolicyInvariant` |
| `DrainsAreFinal` | `DrainIsFinal` | `Vacated` |
| `NothingIsLeaked` | `NothingLeaks` | `TidyInvariant` |

*Eviction.* That nobody enters an evicted room is not inductive: a deletion that
had found the room could fail and lift the tombstone. `Doomed` says that the
deletion that tombstoned a room is the only one to do so and has the id's token
for as long as the room is mapped; `Evicted` says that an evicted room is
tombstoned, empty, unmapped and out of reach of every deletion. `Homed` (an
incarnation is found only at the id it was made for) and `Closing` (what recovery
finds under the creation lock) tie the map to the tasks.

*Custody.* `Registry` holds always, deaths included. `TokenTells` says that a
mapped room is tombstoned exactly while its id is reserved, which is how a lookup
and a reservation agree; `Unclaimed` that a room is built only where nothing is
reserved; `Claiming` that nobody else's room is mapped where a task holds the
reservation; `Marked` is the exclusion of REST updates by the identity marker, as
those of dormant rooms take no lock; `Cleared` covers the drain. A quarantine is
then lost only to recovery. The router needs more: teardown happens only under a
reservation that is still the task's own (`Holding`), and a live room has its own
router (`Equipped`, `Routed`). Recovery breaks `Holding` by writing its token over
another, so `CustodyInvariant` is that all of this holds while `Healthy`.
`RecoverySparesOthers` needs none of this: under the creation lock a registered
router is that of the mapped room (`Matched`), and the router of a room that
others know is not moved (`Aimed`).

*Members and rows.* `Rooted` says that an incarnation out of the map is empty and
found tombstoned by all who hold it, or `Revived`. With it, the REST update, which
looks at the tombstone only, is known to work on the mapped room or on a revived
one (`Stewarding`). Coherence of a live room and its row goes through the whole
life of the copy: `Inserting` (a row is created where no room is mapped), `Loaded`
(what a creator has read is still the row, as it holds the creation lock),
`Tracking` and `Committed` (between COMMIT and publication the row is the
writer's, and nobody else's). Lost outcomes are not excluded: `Lost` says of each
statement that may still commit that its task has reserved the id or is about to,
or that it is one of the two that have no reservation and are `Unknown`.

*Drain and left-overs.* `Vacated` says that an unmapped incarnation with members
is on the drain's list or revived. `Tidy` is one debtor for each thing that could
be left at an id where no cleanup was given up: a live room, or one whose
tombstone may still be lifted (`Liftable`), has a member, a join or an eviction
under way (`Inhabited`, `Attended`), a router without a room has a publisher or a
teardown (`Serving`), a reserved id has a task that will release it or an unknown
outcome (`Owed`). When no task is left there are no debtors.

### Lobbies and revocations: MemberStandingProofs

From the assumptions of `MemberSessionsProofs` and `Custodial`:

- `NoGraceInTheLobby`: `LobbyGetsNoGrace`. It rests on `Graceful`: the flag that
  the closing task consults is never behind the seat (`Flagged`), and who is
  retained was not flagged (`Unflagged`). Neither holds alone, as a moderator may
  move a member while its socket closes;
- `RevocationsAreNotLost`: `NoRevocationLost`. It needs `Ahead` (nothing is
  announced before it is reached, so an answer given after the announcement is not
  "current") and `Unasked` (a check is in flight only where a task or timer waits
  for it, so none answers a later question).

### Accounts

`AccountSessionsProofs`, from `KindAssumption`, `TimeAssumption` and
`CapAssumption` (requests have one kind each, there are finitely many, durations
are ordered as the code's constants are):

- `TypeCorrect`, `TokensBuyOneSuccessor` (`OneSuccessor`), `LogoutsAreFinal`
  (`LogoutIsFinal`) and, for the action property, `RevokersAreLive`
  (`OnlyTheLiveRevoke`);
- `SessionsImplementAuthority`: `ImplementsAuthority`, the refinement. Initial
  states map to initial states, and each action is one of `SessionAuthority` or a
  stutter (`NextImplements`, one lemma per kind of commit);
- `NoRowIsOutdated` and `EndedSessionsStayEnded`: what the modules built on the
  interface rely on, carried over to the rows.

The invariant `Inv` adds to these properties what a transaction may rely on from
its read to its commit (`Held`, with `Running`: who has written holds the lock),
and the history of tokens (`Presented`, `Minting`, `Spent`). A single successor is
not inductive without `Spent`: a token that was rotated is never current again, so
the loser of a race finds another one. `Registered` (rows are at the current
version) is what the refinement takes for a sign-in that overlaps a change of
password.

`AccountCredentialsProofs`, from `CredentialAssumption`: `TypeCorrect`,
`AWayInRemains` (`SignInMethodRemains`), `KeyLimitHolds` (`KeyLimit`),
`ProofsAreUsedOnce` (`SingleUse`), `KeysTakeTheirSessions`
(`SessionsDieWithTheirKey`), and the action properties `ReplacementsAreBacked` and
`AuthorityIsCurrent` (`NoStaleAuthority`). `Inv` follows a ceremony from its
request to its use: `Stored` (one request, one ceremony), `Offered` (a replacement
is offered with its recovery key only), `Taken` (what was taken is gone, and will
not be stored again), `Backed` (whoever enrolls a replacement was shown its key),
and a recovery key to its end: `Written`, `Redeemed`. The limit needs that
passkeys are finitely many (`Keyed`). A registration's commit checks no
version; that it writes nothing stale is `Held`: while it is being stored it holds
the account's row, and whoever changes the version finds the row free. That no
session outlives the passkey that opened it relates three kinds of steps: a
removal or replacement ends every session with the same commit, and a sign-in that
was asserted before it finds the key gone after it.

`AccountCapabilitiesProofs`, from `CapabilityAssumption`: `TypeCorrect`,
`TicketsAreUsedOnce` (`TicketsAdmitOnce`) and the action property
`ToldStreamsAreSilent` (`SilentOnceTold`). That the count of subscribers stays a
natural number is part of the types and needs `Counted` (it is the number of
leases). Silence is not inductive: `Warned` says that a stream which was told must
ask again, and that an answer it already has is of an older generation
(`Opened`: generations read are not ahead of the hub's). Tickets need `Issued` (a
ticket is in the store or with one upgrade) and `Late` (an upgrade that came after
its session's end stays refused).

### Left to TLC

- the liveness properties `EveryRequestEnds`, `DeathsAreHandled`,
  `MembershipEnds`, `RevocationTakesEffect` and `RevokedStreamsClose`: fairness is
  out of the prover's reach;
- the two counterexamples.

Every other property of a passing run is stated by a theorem. Not covered: which
of the room properties with `Healthy` in them still hold, after a worker has died,
for the rooms of workers that are up.

## Plan

1. The room properties after a death, for rooms on workers that are up, where
   recovery may write over a deletion's token.
2. Modules not yet written: receive-transport replacement and consumers on top of
   `MediaPermissions`; `RateTable` with the windows and token buckets as functions
   checked against reference definitions; invitation redemption; join policy with
   bans that keep an identity out; placement of viewer routers and their load
   reservations.

## Not modelled

Rate limits, invitations, chat history, push and attachments, command gates,
readiness and placement of viewers are components without a module; the plan
names those with protocol state. Not planned: process restart (nothing of the
modelled memory is persisted; the rows are re-read), the native media path,
cryptography and hashing, configuration, metrics, diagnostics, the web client,
and the build, operations and load-test tooling, which is most of the
repository's lines and has no part in the server's run-time state.
