--------------------------- MODULE MemberSessions ---------------------------
(***************************************************************************)
(* Who speaks for a room member.  A membership (a seat) belongs to the     *)
(* outbound channel of one WebSocket.  The socket's task joins, leaves and *)
(* closes; a closed socket's seat is retained for a reconnect under a      *)
(* timer; a new socket may resume it; a moderator, a new login of the same *)
(* account, a change of the account's credentials and a drain may each end *)
(* it at the same moment.                                                  *)
(*                                                                         *)
(* One task per socket (handle_connection) and one per retained session    *)
(* (the timer of retain_for_reconnect), cut at their awaits.  Everything   *)
(* done to a seat happens inside one critical section of its room and is   *)
(* therefore part of a single action.                                      *)
(*                                                                         *)
(* A channel is named by its socket.  A reconnect token is a fresh UUID    *)
(* and a socket disconnects once, so a retained session is named by the    *)
(* socket that left it.  Time is abstract: a deadline may pass at any      *)
(* moment it is running.                                                   *)
(***************************************************************************)
EXTENDS Naturals, FiniteSets

CONSTANTS
    Rooms,        \* rooms
    Sockets,      \* WebSocket connections
    Guests,       \* those without an account
    Accounts,     \* accounts
    Watched,      \* sockets that live until a periodic check, a renewal, an expiry
    MaxRetained,  \* capacity of the grace map
    MaxVersion,   \* bound on credential changes of an account
    Drain,        \* whether the server may start to drain
    None

ASSUME SocketAssumption ==
    /\ Guests \subseteq Sockets /\ Watched \subseteq Sockets \ Guests
    /\ Accounts \cap Sockets = {}
    /\ None \notin Rooms \cup Sockets \cup Accounts

ASSUME BoundAssumption ==
    /\ IsFiniteSet(Sockets)
    /\ MaxRetained \in Nat /\ MaxVersion \in Nat /\ Drain \in BOOLEAN

(* A guest's participant id is generated with its socket. *)
People == Accounts \cup Sockets

VARIABLES
    draining, closed,   \* DrainSignal; GracePeriodMap.closed
    seat,         \* per room and participant: the membership, or None
    version,      \* users.auth_version of each account
    sent,         \* the last revocation each account's sockets were sent
    revoker,      \* progress of a credential change that is being announced
    purge,        \* retained sessions a revocation took and has still to remove
    pc,           \* each socket task's next step
    who, pid,     \* its account (or None) and participant_id
    here, want,   \* current_room_id and the room being joined
    flag,         \* in_lobby
    down,         \* whether the writer is gone (Sender::is_closed)
    other,        \* the stale channel a join replaces, the session a reconnect took
    timer,        \* the grace entry and timer this socket left behind
    cred,         \* CredentialSession and CredentialContinuity
    mail,         \* its broadcast receiver of revocations
    check, query  \* the account check in flight, and the one being awaited

roomVars == <<draining, closed, seat>>
accountVars == <<version, sent, revoker, purge>>
socketVars == <<who, pid, here, want, flag, other>>
credVars == <<cred, mail, check, query>>
vars == <<roomVars, accountVars, pc, socketVars, down, timer, credVars>>

Seats == [owner : Sockets, lobby : BOOLEAN, connected : BOOLEAN]

ASSUME SeatAssumption == None \notin Seats

Creds ==
    [version : Nat,
     life : {"good", "allowance", "over"},   \* accepted, database uncertain, terminal
     must : BOOLEAN,                         \* revalidation_required
     invalidated : BOOLEAN]
NewCred(v) == [version |-> v, life |-> "good", must |-> FALSE, invalidated |-> FALSE]

Answers == {"current", "revoked", "unavailable"}
Mails == [notices : SUBSET Nat, lagged : BOOLEAN]   \* versions of the own account
NoMail == [notices |-> {}, lagged |-> FALSE]

TimerStates == {"off", "armed", "checking", "stopped", "removing"}

Labels ==
    {"new", "shaking", "validated", "open", "moving", "lookup", "replace", "commit", "joined",
     "lobbied", "leaving", "resuming", "dropping", "renewing", "closing", "rechecking",
     "parting", "retaining", "removing", "marking", "closed"}

Init ==
    /\ draining = FALSE /\ closed = FALSE
    /\ seat = [r \in Rooms |-> [p \in People |-> None]]
    /\ version = [a \in Accounts |-> 0]
    /\ sent = [a \in Accounts |-> 0]
    /\ revoker = [a \in Accounts |-> "idle"]
    /\ purge = {}
    /\ pc = [s \in Sockets |-> "new"]
    /\ who = [s \in Sockets |-> None]
    /\ pid = [s \in Sockets |-> s]
    /\ here = [s \in Sockets |-> None]
    /\ want = [s \in Sockets |-> None]
    /\ flag = [s \in Sockets |-> FALSE]
    /\ down = [s \in Sockets |-> FALSE]
    /\ other = [s \in Sockets |-> None]
    /\ timer = [s \in Sockets |-> "off"]
    /\ cred = [s \in Sockets |-> NewCred(0)]
    /\ mail = [s \in Sockets |-> NoMail]
    /\ check = [s \in Sockets |-> "none"]
    /\ query = [s \in Sockets |-> "none"]

----------------------------------------------------------------------------
(* Idioms shared by the handlers. *)

Goto(s, label) == pc' = [pc EXCEPT ![s] = label]

(* same_channel: the seat of p in r belongs to s. *)
Owns(s, r, p) == seat[r][p] # None /\ seat[r][p].owner = s

(* Mutants of Vacated: the identity alone is compared; the channel is      *)
(* dropped and the entry kept.                                             *)
VacatedByIdentity(s, r, p) == [seat EXCEPT ![r][p] = None]
VacatedInPart(s, r, p) ==
    IF Owns(s, r, p) THEN [seat EXCEPT ![r][p].owner = None] ELSE seat

(* remove_participant_for_sender: participant or lobby entry, of this      *)
(* channel only.                                                           *)
Vacated(s, r, p) == IF Owns(s, r, p) THEN [seat EXCEPT ![r][p] = None] ELSE seat

(* The grace map: an entry goes when whoever ends its timer removes it, or *)
(* stays behind when the timer saw the drain first.                        *)
Retained == {s \in Sockets : timer[s] \in {"armed", "checking", "stopped"}}

Lapsed(s) == cred[s].life = "over"

(* A notice for this account at a newer version than the accepted claims.  *)
Revoking(s) == \E v \in mail[s].notices : cred[s].version < v

(* Mutant of Observed: an unreachable database starts no allowance. *)
ObservedPatiently(c, answer) ==
    [c EXCEPT !.life = IF c.life = "over" \/ answer = "revoked" THEN "over" ELSE "good",
              !.must = IF answer = "current" THEN FALSE ELSE @]

(* CredentialContinuity::observe *)
Observed(c, answer) ==
    [c EXCEPT
        !.life = IF \/ c.life = "over" \/ answer = "revoked"
                    \/ answer = "unavailable" /\ c.must
                 THEN "over"
                 ELSE IF answer = "current" THEN "good" ELSE "allowance",
        !.must = IF answer = "current" /\ c.life # "over" THEN FALSE ELSE @]

(* settle_account_validation: delivered notices are read first and outrank *)
(* the answer, and notices that were lost count as a revocation.           *)
Settled(s, answer) ==
    Observed(cred[s], IF Revoking(s) \/ mail[s].lagged THEN "revoked" ELSE answer)

Invalidated(c) == [c EXCEPT !.invalidated = TRUE]

(* The socket's task is at its select, whose arms are ordered: drain and a *)
(* closed writer come first, then notices, then frames, which an expired   *)
(* credential no longer dispatches.                                        *)
Listening(s) == pc[s] = "open" /\ ~draining /\ ~down[s]
Ready(s) == Listening(s) /\ ~Lapsed(s) /\ mail[s] = NoMail

----------------------------------------------------------------------------
(* Opening: ws_handler. *)

(* The receiver subscribes before the ticket is validated. *)
Subscribe(s) ==
    /\ pc[s] = "new" /\ ~draining
    /\ \E a \in IF s \in Guests THEN {None} ELSE Accounts :
         /\ who' = [who EXCEPT ![s] = a]
         /\ pid' = [pid EXCEPT ![s] = IF a = None THEN s ELSE a]
    /\ Goto(s, "shaking")
    /\ UNCHANGED <<roomVars, accountVars, here, want, flag, other, down, timer, credVars>>

(* The ticket is redeemed for claims that are current at that moment. *)
Validate(s) ==
    /\ pc[s] = "shaking"
    /\ \/ /\ cred' = [cred EXCEPT ![s] = NewCred(IF who[s] = None THEN 0 ELSE version[who[s]])]
          /\ Goto(s, "validated") /\ UNCHANGED mail
       \/ /\ who[s] # None /\ Goto(s, "closed")
          /\ mail' = [mail EXCEPT ![s] = NoMail] /\ UNCHANGED cred
    /\ UNCHANGED <<roomVars, accountVars, socketVars, down, timer, check, query>>

(* The upgrade is committed unless the drain began. *)
Accept(s) ==
    /\ pc[s] = "validated"
    /\ IF draining
       THEN Goto(s, "closed") /\ mail' = [mail EXCEPT ![s] = NoMail]
       ELSE Goto(s, "open") /\ UNCHANGED mail
    /\ UNCHANGED <<roomVars, accountVars, socketVars, down, timer, cred, check, query>>

----------------------------------------------------------------------------
(* Joining and leaving: handle_client_message and add_participant. *)

JoinStart(s) ==
    /\ Ready(s)
    /\ \E r \in Rooms : want' = [want EXCEPT ![s] = r]
    /\ Goto(s, IF here[s] = None THEN "lookup" ELSE "moving")
    /\ UNCHANGED <<roomVars, accountVars, who, pid, here, flag, other, down, timer, credVars>>

(* Mutant of JoinMove: the old room is forgotten, not left. *)
JoinMoveWithoutLeaving(s) ==
    /\ pc[s] = "moving"
    /\ here' = [here EXCEPT ![s] = None]
    /\ Goto(s, "lookup")
    /\ UNCHANGED <<roomVars, accountVars, who, pid, want, flag, other, down, timer, credVars>>

(* The old room first. *)
JoinMove(s) ==
    /\ pc[s] = "moving"
    /\ seat' = Vacated(s, here[s], pid[s])
    /\ here' = [here EXCEPT ![s] = None]
    /\ Goto(s, "lookup")
    /\ UNCHANGED <<draining, closed, accountVars, who, pid, want, flag, other, down, timer,
                   credVars>>

(* A participant of the same id whose writer is gone is to be replaced.    *)
JoinLookup(s) ==
    /\ pc[s] = "lookup"
    /\ LET held == seat[want[s]][pid[s]]
           stale == held # None /\ ~held.lobby /\ down[held.owner]
       IN \/ /\ stale /\ other' = [other EXCEPT ![s] = held.owner]
             /\ Goto(s, "replace") /\ UNCHANGED want
          \/ ~stale /\ Goto(s, "commit") /\ UNCHANGED <<other, want>>
          \/ Goto(s, "open") /\ want' = [want EXCEPT ![s] = None] /\ UNCHANGED other
    /\ UNCHANGED <<roomVars, accountVars, who, pid, here, flag, down, timer, credVars>>

JoinReplace(s) ==
    /\ pc[s] = "replace"
    /\ seat' = Vacated(other[s], want[s], pid[s])
    /\ other' = [other EXCEPT ![s] = None]
    /\ Goto(s, "commit")
    /\ UNCHANGED <<draining, closed, accountVars, who, pid, here, want, flag, down, timer,
                   credVars>>

(* The membership commit, into the room or its lobby, or a refusal (the id *)
(* has a seat, drain, policy).                                             *)
JoinCommit(s) ==
    /\ pc[s] = "commit"
    /\ \/ /\ ~draining /\ seat[want[s]][pid[s]] = None
          /\ \E lobby \in BOOLEAN :
               /\ seat' = [seat EXCEPT ![want[s]][pid[s]] =
                              [owner |-> s, lobby |-> lobby, connected |-> TRUE]]
               /\ Goto(s, IF lobby THEN "lobbied" ELSE "joined")
          /\ UNCHANGED want
       \/ Goto(s, "open") /\ want' = [want EXCEPT ![s] = None] /\ UNCHANGED seat
    /\ UNCHANGED <<draining, closed, accountVars, who, pid, here, flag, other, down, timer,
                   credVars>>

(* Back in the socket's task, outside every room lock. *)
JoinSettle(s) ==
    /\ pc[s] \in {"joined", "lobbied"}
    /\ here' = [here EXCEPT ![s] = want[s]]
    /\ want' = [want EXCEPT ![s] = None]
    /\ flag' = [flag EXCEPT ![s] = (pc[s] = "lobbied")]
    /\ Goto(s, "open")
    /\ UNCHANGED <<roomVars, accountVars, who, pid, other, down, timer, credVars>>

LeaveStart(s) ==
    /\ Ready(s) /\ here[s] # None
    /\ Goto(s, "leaving")
    /\ UNCHANGED <<roomVars, accountVars, socketVars, down, timer, credVars>>

LeaveEnd(s) ==
    /\ pc[s] = "leaving"
    /\ seat' = Vacated(s, here[s], pid[s])
    /\ here' = [here EXCEPT ![s] = None]
    /\ flag' = [flag EXCEPT ![s] = FALSE]
    /\ Goto(s, "open")
    /\ UNCHANGED <<draining, closed, accountVars, who, pid, want, other, down, timer, credVars>>

----------------------------------------------------------------------------
(* Resuming: handle_reconnect and rebind_participant_sender. *)

(* The token names a retained session of the same account: it is taken out *)
(* of the map and its timer is cancelled.                                  *)
Reconnect(s, e) ==
    /\ Ready(s) /\ here[s] = None /\ ~flag[s]
    /\ e \in Retained /\ who[e] = who[s]
    /\ timer' = [timer EXCEPT ![e] = "off"]
    /\ other' = [other EXCEPT ![s] = e]
    /\ Goto(s, "resuming")
    /\ UNCHANGED <<roomVars, accountVars, who, pid, here, want, flag, down, credVars>>

(* The seat is rebound if it is still the one the session left, else (or   *)
(* when the room is going away) what the session left is removed.          *)
Resume(s) ==
    /\ pc[s] = "resuming"
    /\ LET e == other[s]
           r == here[e]
           p == pid[e]
       IN \/ /\ ~draining /\ Owns(e, r, p) /\ ~seat[r][p].lobby
             /\ who[s] = IF p \in Accounts THEN p ELSE None
             /\ seat' = [seat EXCEPT ![r][p] =
                            [owner |-> s, lobby |-> FALSE, connected |-> TRUE]]
             /\ here' = [here EXCEPT ![s] = r]
             /\ pid' = [pid EXCEPT ![s] = p]
             /\ other' = [other EXCEPT ![s] = None]
             /\ Goto(s, "open")
          \/ Goto(s, "dropping") /\ UNCHANGED <<seat, here, pid, other>>
    /\ UNCHANGED <<draining, closed, accountVars, who, want, flag, down, timer, credVars>>

ResumeFails(s) ==
    /\ pc[s] = "dropping"
    /\ seat' = Vacated(other[s], here[other[s]], pid[other[s]])
    /\ other' = [other EXCEPT ![s] = None]
    /\ Goto(s, "open")
    /\ UNCHANGED <<draining, closed, accountVars, who, pid, here, want, flag, down, timer,
                   credVars>>

----------------------------------------------------------------------------
(* Credentials while the socket is open: CredentialSession.                *)

(* CredentialSession::revoked_by for the notices that were delivered.      *)
Notice(s) ==
    /\ Listening(s) /\ mail[s].notices # {} /\ ~mail[s].lagged
    /\ mail' = [mail EXCEPT ![s] = NoMail]
    /\ IF Revoking(s)
       THEN cred' = [cred EXCEPT ![s] = Invalidated(@)] /\ Goto(s, "closing")
       ELSE UNCHANGED <<cred, pc>>
    /\ UNCHANGED <<roomVars, accountVars, socketVars, down, timer, check, query>>

(* The same for notices that were lost: the check in flight predates them. *)
NoticesLost(s) ==
    /\ Listening(s) /\ mail[s].lagged
    /\ mail' = [mail EXCEPT ![s].lagged = FALSE]
    /\ cred' = [cred EXCEPT ![s].must = TRUE]
    /\ check' = [check EXCEPT ![s] = "none"]
    /\ UNCHANGED <<roomVars, accountVars, pc, socketVars, down, timer, query>>

(* begin_validation, when the periodic check is due. *)
CheckBegin(s) ==
    /\ s \in Watched /\ Listening(s) /\ mail[s] = NoMail /\ check[s] = "none"
    /\ IF Lapsed(s)
       THEN cred' = [cred EXCEPT ![s] = Invalidated(@)] /\ Goto(s, "closing") /\ UNCHANGED check
       ELSE check' = [check EXCEPT ![s] = "asked"] /\ UNCHANGED <<cred, pc>>
    /\ UNCHANGED <<roomVars, accountVars, socketVars, down, timer, mail, query>>

(* settle *)
CheckEnd(s) ==
    /\ pc[s] = "open" /\ check[s] \in Answers
    /\ check' = [check EXCEPT ![s] = "none"]
    /\ mail' = [mail EXCEPT ![s] = NoMail]
    /\ LET c == Settled(s, check[s]) IN
       IF draining
       THEN Goto(s, "closing") /\ UNCHANGED cred
       ELSE IF c.life = "over"
            THEN cred' = [cred EXCEPT ![s] = Invalidated(c)] /\ Goto(s, "closing")
            ELSE cred' = [cred EXCEPT ![s] = c] /\ UNCHANGED pc
    /\ UNCHANGED <<roomVars, accountVars, socketVars, down, timer, query>>

(* RenewAuthentication: fresh claims of the same account and version are   *)
(* checked while the loop waits.                                           *)
RenewBegin(s) ==
    /\ s \in Watched /\ Ready(s)
    /\ query' = [query EXCEPT ![s] = "asked"]
    /\ Goto(s, "renewing")
    /\ UNCHANGED <<roomVars, accountVars, socketVars, down, timer, cred, mail, check>>

(* validate_renewal and apply_renewal.  A closed writer or a drain ends    *)
(* the wait without a verdict.                                             *)
RenewEnd(s) ==
    /\ pc[s] = "renewing"
    /\ query' = [query EXCEPT ![s] = "none"]
    /\ \/ /\ draining \/ down[s]
          /\ Goto(s, "closing") /\ UNCHANGED <<cred, mail>>
       \/ /\ query[s] \in Answers
          /\ mail' = [mail EXCEPT ![s] = NoMail]
          /\ LET c == Settled(s, query[s]) IN
             \/ /\ c.life = "over"
                /\ cred' = [cred EXCEPT ![s] = Invalidated(c)] /\ Goto(s, "closing")
             \/ /\ c.life # "over" /\ ~draining /\ ~down[s]
                /\ cred' = [cred EXCEPT ![s] = c] /\ Goto(s, "open")
    /\ UNCHANGED <<roomVars, accountVars, socketVars, down, timer, check>>

----------------------------------------------------------------------------
(* Closing: the end of handle_connection, and retain_for_reconnect.        *)

(* The loop ends: the peer closed, went idle or misbehaved, the writer is  *)
(* gone, the server drains, or the credentials lapsed.                     *)
Disconnect(s) ==
    /\ pc[s] = "open"
    /\ cred' = [cred EXCEPT ![s].invalidated = @ \/ Lapsed(s)]
    /\ Goto(s, "closing")
    /\ UNCHANGED <<roomVars, accountVars, socketVars, down, timer, mail, check, query>>

(* revalidate_on_disconnect, unless there is nothing to validate.          *)
RecheckBegin(s) ==
    /\ pc[s] = "closing"
    /\ IF draining \/ cred[s].invalidated \/ who[s] = None
       THEN Goto(s, "parting") /\ UNCHANGED <<cred, query>>
       ELSE IF Lapsed(s)
            THEN /\ cred' = [cred EXCEPT ![s] = Invalidated(@)]
                 /\ Goto(s, "parting") /\ UNCHANGED query
            ELSE /\ query' = [query EXCEPT ![s] = "asked"]
                 /\ Goto(s, "rechecking") /\ UNCHANGED cred
    /\ check' = [check EXCEPT ![s] = "none"]
    /\ UNCHANGED <<roomVars, accountVars, socketVars, down, timer, mail>>

RecheckEnd(s) ==
    /\ pc[s] = "rechecking" /\ query[s] \in Answers
    /\ query' = [query EXCEPT ![s] = "none"]
    /\ mail' = [mail EXCEPT ![s] = NoMail]
    /\ LET c == Settled(s, query[s]) IN
       cred' = [cred EXCEPT ![s] = IF draining THEN @
                                   ELSE IF c.life = "over" THEN Invalidated(c) ELSE c]
    /\ Goto(s, "parting")
    /\ UNCHANGED <<roomVars, accountVars, socketVars, down, timer, check>>

(* Mutant of Part: the lobby guard is not consulted. *)
PartIgnoringLobby(s) ==
    /\ pc[s] = "parting"
    /\ Goto(s, IF here[s] = None \/ draining THEN "marking"
               ELSE IF cred[s].invalidated THEN "removing" ELSE "retaining")
    /\ UNCHANGED <<roomVars, accountVars, socketVars, down, timer, credVars>>

(* The membership is left to the drain, removed at once, or retained.      *)
Part(s) ==
    /\ pc[s] = "parting"
    /\ Goto(s, IF here[s] = None \/ draining THEN "marking"
               ELSE IF flag[s] \/ cred[s].invalidated THEN "removing" ELSE "retaining")
    /\ UNCHANGED <<roomVars, accountVars, socketVars, down, timer, credVars>>

(* Mutant of Retain: the closed map still accepts. *)
RetainAfterClose(s) ==
    /\ pc[s] = "retaining"
    /\ IF Cardinality(Retained) >= MaxRetained
       THEN Goto(s, "removing") /\ UNCHANGED timer
       ELSE timer' = [timer EXCEPT ![s] = "armed"] /\ Goto(s, "marking")
    /\ UNCHANGED <<roomVars, accountVars, socketVars, down, credVars>>

(* GracePeriodMap::insert_activated; a session the map refuses is removed. *)
Retain(s) ==
    /\ pc[s] = "retaining"
    /\ \/ /\ closed \/ Cardinality(Retained) >= MaxRetained
          /\ Goto(s, "removing") /\ UNCHANGED timer
       \/ /\ ~closed /\ Cardinality(Retained) < MaxRetained
          /\ timer' = [timer EXCEPT ![s] = "armed"]
          /\ Goto(s, "marking")
    /\ UNCHANGED <<roomVars, accountVars, socketVars, down, credVars>>

RemoveOwn(s) ==
    /\ pc[s] = "removing"
    /\ seat' = Vacated(s, here[s], pid[s])
    /\ Goto(s, "marking")
    /\ UNCHANGED <<draining, closed, accountVars, socketVars, down, timer, credVars>>

(* The writer ends, then mark_participant_disconnected, which gives up on  *)
(* a busy room.                                                            *)
WriterEnds(s) ==
    /\ pc[s] = "marking" /\ ~down[s]
    /\ down' = [down EXCEPT ![s] = TRUE]
    /\ UNCHANGED <<roomVars, accountVars, pc, socketVars, timer, credVars>>

(* Mutant of Mark: any channel's late mark counts. *)
MarkByIdentity(s) ==
    /\ pc[s] = "marking" /\ down[s]
    /\ seat' = IF \/ here[s] = None \/ draining \/ seat[here[s]][pid[s]] = None
                  \/ seat[here[s]][pid[s]].lobby
               THEN seat ELSE [seat EXCEPT ![here[s]][pid[s]].connected = FALSE]
    /\ Goto(s, "closed")
    /\ UNCHANGED <<draining, closed, accountVars, socketVars, down, timer, credVars>>

Mark(s) ==
    /\ pc[s] = "marking" /\ down[s]
    /\ \/ /\ here[s] # None /\ ~draining /\ Owns(s, here[s], pid[s])
          /\ ~seat[here[s]][pid[s]].lobby
          /\ seat' = [seat EXCEPT ![here[s]][pid[s]].connected = FALSE]
       \/ UNCHANGED seat
    /\ Goto(s, "closed")
    /\ UNCHANGED <<draining, closed, accountVars, socketVars, down, timer, credVars>>

----------------------------------------------------------------------------
(* The timer of a retained session.                                        *)

TimerCheckBegin(s) ==
    /\ s \in Watched /\ timer[s] = "armed"
    /\ IF Lapsed(s)
       THEN timer' = [timer EXCEPT ![s] = "removing"] /\ UNCHANGED query
       ELSE /\ timer' = [timer EXCEPT ![s] = "checking"]
            /\ query' = [query EXCEPT ![s] = "asked"]
    /\ UNCHANGED <<roomVars, accountVars, pc, socketVars, down, cred, mail, check>>

TimerCheckEnd(s) ==
    /\ timer[s] = "checking" /\ query[s] \in Answers
    /\ query' = [query EXCEPT ![s] = "none"]
    /\ mail' = [mail EXCEPT ![s] = NoMail]
    /\ LET c == Settled(s, query[s]) IN
       IF draining
       THEN timer' = [timer EXCEPT ![s] = "stopped"] /\ UNCHANGED cred
       ELSE /\ cred' = [cred EXCEPT ![s] = c]
            /\ timer' = [timer EXCEPT ![s] = IF c.life = "over" THEN "removing" ELSE "armed"]
    /\ UNCHANGED <<roomVars, accountVars, pc, socketVars, down, check>>

TimerNotice(s) ==
    /\ timer[s] = "armed" /\ mail[s] # NoMail
    /\ mail' = [mail EXCEPT ![s] = NoMail]
    /\ cred' = [cred EXCEPT ![s].must = @ \/ mail[s].lagged]
    /\ timer' = [timer EXCEPT ![s] = IF Revoking(s) THEN "removing" ELSE @]
    /\ UNCHANGED <<roomVars, accountVars, pc, socketVars, down, check, query>>

(* The grace period, the credentials or the allowance ran out: the entry   *)
(* is this timer's, since everyone who takes it ends the timer.            *)
TimerExpires(s) ==
    /\ timer[s] = "armed"
    /\ timer' = [timer EXCEPT ![s] = "removing"]
    /\ UNCHANGED <<roomVars, accountVars, pc, socketVars, down, credVars>>

TimerStops(s) ==
    /\ timer[s] = "armed" /\ draining
    /\ timer' = [timer EXCEPT ![s] = "stopped"]
    /\ UNCHANGED <<roomVars, accountVars, pc, socketVars, down, credVars>>

TimerRemoves(s) ==
    /\ timer[s] = "removing"
    /\ seat' = Vacated(s, here[s], pid[s])
    /\ timer' = [timer EXCEPT ![s] = "off"]
    /\ UNCHANGED <<draining, closed, accountVars, pc, socketVars, down, credVars>>

----------------------------------------------------------------------------
(* The world around the sockets.                                           *)

(* The writer of an open socket fails. *)
WriterFails(s) ==
    /\ pc[s] \notin {"new", "shaking", "validated", "marking", "closed"} /\ ~down[s]
    /\ down' = [down EXCEPT ![s] = TRUE]
    /\ UNCHANGED <<roomVars, accountVars, pc, socketVars, timer, credVars>>

(* Mutant of Subscribed: the receiver is made once the upgrade succeeded. *)
SubscribedOnceOpen(s) ==
    pc[s] \notin {"new", "shaking", "validated", "closed", "marking", "removing"}
    \/ s \in Retained

(* A session is subscribed while its task or its timer is alive. *)
Subscribed(s) == pc[s] \notin {"new", "closed", "marking", "removing"} \/ s \in Retained

(* The account's row answers a check: validate_current_claims. *)
Answer(s) == IF version[who[s]] = cred[s].version THEN "current" ELSE "revoked"
Query(s) ==
    /\ \/ /\ check[s] = "asked"
          /\ \E answer \in {Answer(s), "unavailable"} : check' = [check EXCEPT ![s] = answer]
          /\ UNCHANGED query
       \/ /\ query[s] = "asked"
          /\ pc[s] \in {"renewing", "rechecking"} \/ timer[s] = "checking"
          /\ \E answer \in {Answer(s), "unavailable"} : query' = [query EXCEPT ![s] = answer]
          /\ UNCHANGED check
    /\ UNCHANGED <<roomVars, accountVars, pc, socketVars, down, timer, cred, mail>>

(* The accepted token expires, or the allowance for an unreachable database *)
(* ends.                                                                    *)
Lapse(s) ==
    /\ s \in Watched /\ Subscribed(s) /\ ~Lapsed(s)
    /\ cred' = [cred EXCEPT ![s].life = "over"]
    /\ UNCHANGED <<roomVars, accountVars, pc, socketVars, down, timer, mail, check, query>>

(* The receiver falls behind the channel's capacity. *)
FallBehind(s) ==
    /\ s \in Watched /\ Subscribed(s) /\ mail[s].notices # {}
    /\ mail' = [mail EXCEPT ![s] = [notices |-> {}, lagged |-> TRUE]]
    /\ UNCHANGED <<roomVars, accountVars, pc, socketVars, down, timer, cred, check, query>>

(* A credential change commits, one of an account at a time.               *)
(* revoke_account_sessions then broadcasts the new version and takes the   *)
(* retained sessions; a request dropped after its COMMIT does neither.     *)
(* (Nor does a sign-out, which ends the issuing session and which a check  *)
(* finds in the same way.)                                                 *)
ChangeCredentials(a) ==
    /\ revoker[a] = "idle" /\ version[a] < MaxVersion
    /\ version' = [version EXCEPT ![a] = @ + 1]
    /\ revoker' \in {[revoker EXCEPT ![a] = "notify"], revoker}
    /\ UNCHANGED <<roomVars, sent, purge, pc, socketVars, down, timer, credVars>>

Notify(a) ==
    /\ revoker[a] = "notify"
    /\ revoker' = [revoker EXCEPT ![a] = "take"]
    /\ sent' = [sent EXCEPT ![a] = version[a]]
    /\ mail' = [s \in Sockets |->
                  IF who[s] = a /\ Subscribed(s)
                  THEN [mail[s] EXCEPT !.notices = @ \cup {version[a]}] ELSE mail[s]]
    /\ UNCHANGED <<roomVars, version, purge, pc, socketVars, down, timer, cred, check, query>>

(* Mutant of TakeRevoked: the timers are stopped, the members stay. *)
TakeRevokedEntriesOnly(a) ==
    /\ revoker[a] = "take"
    /\ revoker' = [revoker EXCEPT ![a] = "idle"]
    /\ timer' = [s \in Sockets |->
                   IF s \in Retained /\ who[s] = a /\ cred[s].version < sent[a]
                   THEN "off" ELSE timer[s]]
    /\ UNCHANGED <<roomVars, version, sent, purge, pc, socketVars, down, credVars>>

(* take_revoked *)
TakeRevoked(a) ==
    /\ revoker[a] = "take"
    /\ revoker' = [revoker EXCEPT ![a] = "idle"]
    /\ LET taken == {s \in Retained : who[s] = a /\ cred[s].version < sent[a]} IN
       /\ purge' = purge \cup taken
       /\ timer' = [s \in Sockets |-> IF s \in taken THEN "off" ELSE timer[s]]
    /\ UNCHANGED <<roomVars, version, sent, pc, socketVars, down, credVars>>

Purge(s) ==
    /\ s \in purge
    /\ purge' = purge \ {s}
    /\ seat' = Vacated(s, here[s], pid[s])
    /\ UNCHANGED <<draining, closed, version, sent, revoker, pc, socketVars, down, timer,
                   credVars>>

(* admit_from_lobby *)
Admit(r, p) ==
    /\ seat[r][p] # None /\ seat[r][p].lobby
    /\ ~draining /\ ~down[seat[r][p].owner]
    /\ seat' = [seat EXCEPT ![r][p].lobby = FALSE]
    /\ flag' = [flag EXCEPT ![seat[r][p].owner] = FALSE]
    /\ UNCHANGED <<draining, closed, accountVars, pc, who, pid, here, want, other, down, timer,
                   credVars>>

(* Kick, ban, denial, or the end of the whole room. *)
Eject(r, p) ==
    /\ seat[r][p] # None
    /\ seat' = [seat EXCEPT ![r][p] = None]
    /\ UNCHANGED <<draining, closed, accountVars, pc, socketVars, down, timer, credVars>>

(* begin_draining raises the flag and then closes the grace map; the rooms *)
(* are cleared later, by a stage of their own.                             *)
DrainBegin ==
    /\ Drain /\ ~draining
    /\ draining' = TRUE
    /\ UNCHANGED <<closed, seat, accountVars, pc, socketVars, down, timer, credVars>>

DrainClose ==
    /\ draining /\ ~closed
    /\ closed' = TRUE
    /\ timer' = [s \in Sockets |-> IF s \in Retained THEN "off" ELSE timer[s]]
    /\ UNCHANGED <<draining, seat, accountVars, pc, socketVars, down, credVars>>

DrainRoom(r) ==
    /\ closed /\ \E p \in People : seat[r][p] # None
    /\ seat' = [seat EXCEPT ![r] = [p \in People |-> None]]
    /\ UNCHANGED <<draining, closed, accountVars, pc, socketVars, down, timer, credVars>>

----------------------------------------------------------------------------
Socket(s) ==
    \/ Subscribe(s) \/ Validate(s) \/ Accept(s)
    \/ JoinStart(s) \/ JoinMove(s) \/ JoinLookup(s) \/ JoinReplace(s) \/ JoinCommit(s)
    \/ JoinSettle(s) \/ LeaveStart(s) \/ LeaveEnd(s)
    \/ (\E e \in Sockets : Reconnect(s, e)) \/ Resume(s) \/ ResumeFails(s)
    \/ Notice(s) \/ NoticesLost(s) \/ CheckBegin(s) \/ CheckEnd(s)
    \/ RenewBegin(s) \/ RenewEnd(s)
    \/ Disconnect(s) \/ RecheckBegin(s) \/ RecheckEnd(s) \/ Part(s) \/ Retain(s)
    \/ RemoveOwn(s) \/ WriterEnds(s) \/ Mark(s)
Timer(s) ==
    \/ TimerCheckBegin(s) \/ TimerCheckEnd(s) \/ TimerNotice(s) \/ TimerExpires(s)
    \/ TimerStops(s) \/ TimerRemoves(s)
Around(s) == WriterFails(s) \/ Query(s) \/ Lapse(s) \/ FallBehind(s) \/ Purge(s)
Revoke(a) == ChangeCredentials(a) \/ Notify(a) \/ TakeRevoked(a)

(* Every connection is over and nothing is left to do. *)
Over ==
    /\ \A s \in Sockets : \/ pc[s] = "closed" /\ timer[s] = "off"
                          \/ pc[s] = "new" /\ draining
    /\ UNCHANGED vars

Next ==
    \/ \E s \in Sockets : Socket(s) \/ Timer(s) \/ Around(s)
    \/ \E a \in Accounts : Revoke(a)
    \/ \E r \in Rooms, p \in People : Admit(r, p) \/ Eject(r, p)
    \/ DrainBegin \/ DrainClose \/ \E r \in Rooms : DrainRoom(r)
    \/ Over

Spec == Init /\ [][Next]_vars

(* Every task that can run does; a query is answered within its deadline;  *)
(* a deadline that is running passes.  The notice and check arms come      *)
(* before the frame arm of a biased select, and a periodic check is due    *)
(* every five seconds, so traffic cannot keep them from running; nor can   *)
(* a retained session's checks keep its fixed deadline from passing.       *)
Fairness ==
    \A s \in Sockets :
        /\ WF_vars(pc[s] # "open" /\ pc[s] # "new" /\ Socket(s))
        /\ WF_vars((draining \/ down[s] \/ Lapsed(s)) /\ Disconnect(s))
        /\ SF_vars(Notice(s)) /\ SF_vars(NoticesLost(s))
        /\ SF_vars(CheckBegin(s)) /\ SF_vars(CheckEnd(s))
        /\ WF_vars(Query(s))
        /\ WF_vars(cred[s].life = "allowance" /\ Lapse(s))
        /\ WF_vars(TimerCheckEnd(s)) /\ SF_vars(TimerExpires(s)) /\ WF_vars(TimerRemoves(s))
        /\ WF_vars(Purge(s))

FairSpec == Spec /\ Fairness

----------------------------------------------------------------------------
(* Properties. *)

TypeOK ==
    /\ draining \in BOOLEAN /\ closed \in BOOLEAN
    /\ seat \in [Rooms -> [People -> Seats \cup {None}]]
    /\ version \in [Accounts -> Nat] /\ sent \in [Accounts -> Nat]
    /\ revoker \in [Accounts -> {"idle", "notify", "take"}]
    /\ purge \subseteq Sockets
    /\ pc \in [Sockets -> Labels]
    /\ who \in [Sockets -> Accounts \cup {None}]
    /\ pid \in [Sockets -> People]
    /\ here \in [Sockets -> Rooms \cup {None}] /\ want \in [Sockets -> Rooms \cup {None}]
    /\ flag \in [Sockets -> BOOLEAN] /\ down \in [Sockets -> BOOLEAN]
    /\ other \in [Sockets -> Sockets \cup {None}]
    /\ timer \in [Sockets -> TimerStates]
    /\ cred \in [Sockets -> Creds]
    /\ mail \in [Sockets -> Mails]
    /\ check \in [Sockets -> Answers \cup {"none", "asked"}]
    /\ query \in [Sockets -> Answers \cup {"none", "asked"}]

(* The labels at which a socket's task will still look after here[s]. *)
Attending ==
    {"open", "moving", "leaving", "renewing", "closing", "rechecking", "parting",
     "retaining", "removing"}

(* Somebody will still end, or hand on, what s holds in room r as p: its   *)
(* own task, its timer, a revocation's cleanup or the reconnect that took  *)
(* its retained session.                                                   *)
Custody(s, r, p) ==
    \/ pc[s] \in {"joined", "lobbied"} /\ want[s] = r /\ pid[s] = p
    \/ /\ here[s] = r /\ pid[s] = p
       /\ \/ pc[s] \in Attending
          \/ timer[s] \in {"armed", "checking", "removing"}
          \/ s \in purge
          \/ \E t \in Sockets : pc[t] \in {"resuming", "dropping"} /\ other[t] = s

(* No membership is forgotten: whatever order disconnects, reconnects,     *)
(* replacements, expiries and revocations happen in, each seat has a task  *)
(* that will end it (connection_grace.rs:90-92, 170-173).                  *)
EverySeatHasCustody ==
    ~draining => \A r \in Rooms, p \in People :
        seat[r][p] # None => Custody(seat[r][p].owner, r, p)

(* A resumed member stays shown as present: the late mark of the socket it *)
(* replaced does not land on it (mark_disconnected, room/mod.rs:697-710).  *)
ResumedIsConnected ==
    \A r \in Rooms, p \in People :
        seat[r][p] # None /\ ~seat[r][p].connected => pc[seat[r][p].owner] = "closed"

(* A socket that is connected and at rest loses its membership only to a   *)
(* moderator or the end of its room: never to the timer, the cleanup or    *)
(* the rejoin of another session of the same person                        *)
(* (remove_participant_for_sender, membership.rs:924-926).                 *)
OnlyModeratorsEvict ==
    [][\A s \in Sockets, r \in Rooms :
         /\ pc[s] = "open" /\ pc'[s] = "open" /\ ~down[s] /\ ~draining
         /\ Owns(s, r, pid[s]) /\ seat'[r][pid[s]] = None
         => Eject(r, pid[s])]_vars

(* A member that waits in a lobby is never retained for a reconnect, even  *)
(* when it is admitted, leaves or moves room while its socket closes       *)
(* (connection.rs:1174-1175).                                              *)
LobbyGetsNoGrace ==
    \A s \in Retained, r \in Rooms, p \in People : Owns(s, r, p) => ~seat[r][p].lobby

(* Once the drain has closed the grace map no timer of it runs again, even *)
(* for a socket that was closing at that moment (connection_grace.rs:55).  *)
DrainEndsTimers == closed => Retained = {}

(* A session that goes on, or may be resumed.                              *)
Live(s) ==
    \/ pc[s] \in Attending \ {"removing"}
    \/ pc[s] \in {"validated", "lookup", "replace", "commit", "joined", "lobbied", "resuming",
                 "dropping"}
    \/ timer[s] \in {"armed", "checking"}

(* It has not missed the revocation: it will read the notice, knows that   *)
(* it lost notices, must prove its credentials by a check made since, or   *)
(* is over.                                                                *)
Informed(s) ==
    \/ Revoking(s) \/ mail[s].lagged
    \/ cred[s].must /\ check[s] # "current" /\ query[s] # "current"
    \/ Lapsed(s) \/ cred[s].invalidated

(* No revocation is lost: neither a check answered before the change, nor  *)
(* a receiver that fell behind, nor the hand-over of the receiver to the   *)
(* timer lets a session go on with claims older than the announced version *)
(* (connection_credentials.rs:268-270, 399-400; signaling/mod.rs:998-999). *)
NoRevocationLost ==
    \A s \in Sockets :
        ~draining /\ who[s] # None /\ Live(s) /\ cred[s].version < sent[who[s]] => Informed(s)

(* What the comment at lobby.rs:187-188 promises of admission: an admitted *)
(* member's own task no longer treats it as waiting in the lobby.          *)
AdmittedIsUnblocked ==
    \A s \in Sockets, r \in Rooms :
        pc[s] = "open" /\ here[s] = r /\ Owns(s, r, pid[s]) /\ ~seat[r][pid[s]].lobby
            => ~flag[s]

(* A socket that is gone does not keep its membership: it is resumed,      *)
(* replaced or removed (the 30 s of connection_grace.rs).                  *)
MembershipEnds ==
    \A s \in Sockets :
        pc[s] = "closed" ~> (draining \/ \A r \in Rooms, p \in People : ~Owns(s, r, p))

(* A change of credentials ends every membership held with the old ones,   *)
(* even when its announcement is lost with the request that made it        *)
(* (the periodic check of connection.rs:611-616 and its bounded allowance).*)
RevocationTakesEffect ==
    \A s \in Sockets, a \in Accounts :
        (who[s] = a /\ pc[s] # "shaking" /\ cred[s].version < version[a])
            ~> [](draining \/ \A r \in Rooms, p \in People : ~Owns(s, r, p))
=============================================================================
