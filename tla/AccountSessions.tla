--------------------------- MODULE AccountSessions ---------------------------
(***************************************************************************)
(* The refresh sessions of one account, as the transactions of concurrent  *)
(* HTTP requests keep them in PostgreSQL (READ COMMITTED).                  *)
(*                                                                         *)
(* A request is a process.  Its transaction's writes become visible at its *)
(* commit; until then it holds the account's row lock (the FOR NO KEY      *)
(* UPDATE on users, variable lock) and the locks of the session rows it    *)
(* has read FOR UPDATE or written.  Acquiring a lock and the statement     *)
(* that follows are one action; two statements whose clock readings may    *)
(* differ are two.  Any step may fail: the transaction rolls back.         *)
(*                                                                         *)
(* A refresh token is named by its family, which is the session it was     *)
(* first issued with, and by the request that minted it.                   *)
(***************************************************************************)
EXTENDS Integers, FiniteSets

CONSTANTS
    Seeds,          \* sessions that exist at the start
    SignIns,        \* POST /api/auth/login and /passkey/login/finish
    Refreshes,      \* POST /api/auth/refresh
    Logouts,        \* POST /api/auth/logout
    Revokers,       \* DELETE /api/auth/sessions/{id} and /others
    Changers,       \* POST /api/account/password
    MaxSessions,    \* MAX_ACTIVE_SESSIONS_PER_USER
    Grace,          \* CONCURRENT_REFRESH_GRACE_SECONDS
    Slide,          \* the seven days of a session
    Absolute,       \* SESSION_ABSOLUTE_LIFETIME_DAYS
    MaxTime,        \* bound on the clock
    None

Sids == Seeds \cup SignIns            \* a session is named by its sign-in
Minters == Sids \cup Refreshes
Requests == SignIns \cup Refreshes \cup Logouts \cup Revokers \cup Changers
Tokens == [family : Sids, by : Minters]

ASSUME KindAssumption ==
    /\ Seeds \cap Requests = {}
    /\ SignIns \cap (Refreshes \cup Logouts \cup Revokers \cup Changers) = {}
    /\ Refreshes \cap (Logouts \cup Revokers \cup Changers) = {}
    /\ Logouts \cap (Revokers \cup Changers) = {} /\ Revokers \cap Changers = {}
    /\ IsFiniteSet(Sids)
    /\ None \notin Requests \cup Seeds /\ None \notin Tokens
ASSUME TimeAssumption ==
    /\ Grace \in Nat /\ Slide \in Nat \ {0} /\ Absolute \in Nat /\ MaxTime \in Nat
    /\ Slide <= Absolute
ASSUME CapAssumption ==
    /\ MaxSessions \in Nat \ {0} /\ Cardinality(Seeds) <= MaxSessions

VARIABLES
    now,            \* clock_timestamp()
    version,        \* users.auth_version
    password,       \* users.password_hash, named by the request that set it
    lock,           \* holder of the users row lock
    table, row,     \* the ids in sessions, and their rows
    stamp,          \* the version in the access tokens of each session
    minted,         \* refresh tokens that have left the server
    pc, outcome,    \* each request's next step, and how it ended
    shown,          \* the refresh token it presented
    seen,           \* the password and version it read or was authorized at
    began,          \* when a sign-in arrived
    draft, doomed,  \* the row and the deletions its transaction has written
    sweep, picked   \* the expired-session sweep and the rows its subquery chose

store == <<version, password, table, row, stamp, minted>>
locals == <<shown, seen, began, draft, doomed>>
sweeper == <<sweep, picked>>
vars == <<now, store, lock, pc, outcome, locals, sweeper>>

Rows ==
    [cur : Minters, prev : Minters \cup {None}, born : Int, rotated : Int, expires : Int]

(* refresh_token_rotated_at is NULL, and prev too, until the first rotation.*)
NewRow(s, b, t) == [cur |-> s, prev |-> None, born |-> b, rotated |-> b, expires |-> t + Slide]

Labels == {"idle", "verified", "keyed", "waiting", "judged", "writing", "done"}
Outcomes == {"none", "granted", "refused"}

NothingSeen == [password |-> None, version |-> 0, sid |-> None]

Init ==
    /\ now = 0
    /\ version = 0 /\ password = None /\ lock = None
    /\ table = Seeds
    /\ row = [s \in Sids |-> NewRow(s, 0, 0)]
    /\ stamp = [s \in Sids |-> 0]
    /\ minted = {[family |-> s, by |-> s] : s \in Seeds}
    /\ pc = [r \in Requests |-> "idle"]
    /\ outcome = [r \in Requests |-> "none"]
    /\ shown = [r \in Requests |-> None]
    /\ seen = [r \in Requests |-> NothingSeen]
    /\ began = [r \in Requests |-> 0]
    /\ draft = [r \in Requests |-> None]
    /\ doomed = [r \in Requests |-> {}]
    /\ sweep = "idle" /\ picked = {}

----------------------------------------------------------------------------
(* Idioms shared by the handlers. *)

Live(s) == s \in table /\ row[s].expires > now

(* The request is over; whatever its transaction held is released. *)
End(r, how) ==
    /\ pc' = [pc EXCEPT ![r] = "done"]
    /\ outcome' = [outcome EXCEPT ![r] = how]
    /\ lock' = IF lock = r THEN None ELSE lock
    /\ seen' = [seen EXCEPT ![r] = NothingSeen]
    /\ began' = [began EXCEPT ![r] = 0]
    /\ draft' = [draft EXCEPT ![r] = None]
    /\ doomed' = [doomed EXCEPT ![r] = {}]

(* The request ends having read only. *)
Refuse(r) == End(r, "refused") /\ UNCHANGED <<now, store, shown, sweeper>>

(* It goes on, holding the account's row. *)
Proceed(r, label) ==
    /\ pc' = [pc EXCEPT ![r] = label]
    /\ lock' = r
    /\ UNCHANGED <<now, store, outcome, shown, seen, began, sweeper>>

(* A session row that an open transaction has locked: deleting it waits.   *)
RowLocked(s) ==
    \E r \in Requests :
        \/ s \in doomed[r]
        \/ r \in Refreshes /\ pc[r] \in {"judged", "writing"} /\ shown[r].family = s
        \/ r \in Revokers /\ pc[r] = "writing" /\ seen[r].sid = s

(* A rollback, a lost connection, a timeout, or the end of the process:    *)
(* what was not committed never was.                                       *)
Fail(r) ==
    /\ pc[r] \notin {"idle", "done"}
    /\ Refuse(r)

----------------------------------------------------------------------------
(* Sign-in. *)

(* login reads the account without a lock and awaits the verification.     *)
LoginVerify(r) ==
    /\ r \in SignIns /\ pc[r] = "idle"
    /\ pc' = [pc EXCEPT ![r] = "verified"]
    /\ seen' = [seen EXCEPT ![r] = [password |-> password, version |-> version, sid |-> None]]
    /\ began' = [began EXCEPT ![r] = now]
    /\ UNCHANGED <<now, store, lock, outcome, shown, draft, doomed, sweeper>>

(* passkey_login_finish takes its challenge and reads nothing before the   *)
(* lock.                                                                   *)
KeyLoginStart(r) ==
    /\ r \in SignIns /\ pc[r] = "idle"
    /\ pc' = [pc EXCEPT ![r] = "keyed"]
    /\ began' = [began EXCEPT ![r] = now]
    /\ UNCHANGED <<now, store, lock, outcome, shown, seen, draft, doomed, sweeper>>

(* create_session_with keeps the newest MaxSessions - 1 other sessions     *)
(* that had not expired when the transaction began, at time b.             *)
Survivors(b) ==
    LET unexpired == {s \in table : row[s].expires > b}
    IN  {K \in SUBSET unexpired :
           /\ \/ Cardinality(K) = MaxSessions - 1
              \/ Cardinality(K) < MaxSessions - 1 /\ K = unexpired
           /\ \A s \in K, t \in unexpired \ K : row[s].born >= row[t].born}

(* Mutant of Unchanged: the account is not read again under the lock. *)
Unverified(r) == TRUE

(* The comparison of login; passkey sign-in has nothing to compare. *)
Unchanged(r) ==
    pc[r] = "verified" => seen[r].password = password /\ seen[r].version = version

(* Lock the account, insert the session, delete what exceeds the cap.      *)
LoginInsert(r) ==
    /\ r \in SignIns /\ pc[r] \in {"verified", "keyed"} /\ lock = None
    /\ IF Unchanged(r)
       THEN \E b \in began[r]..now : \E K \in Survivors(b) :
              /\ pc' = [pc EXCEPT ![r] = "writing"]
              /\ lock' = r
              /\ draft' = [draft EXCEPT ![r] = NewRow(r, b, now)]
              /\ doomed' = [doomed EXCEPT ![r] = table \ K]
              /\ seen' = IF pc[r] = "verified" THEN seen ELSE [seen EXCEPT ![r].version = version]
              /\ UNCHANGED <<now, store, outcome, shown, began, sweeper>>
       ELSE Refuse(r)

LoginCommit(r) ==
    /\ r \in SignIns /\ pc[r] = "writing"
    /\ table' = (table \ doomed[r]) \cup {r}
    /\ row' = [row EXCEPT ![r] = draft[r]]
    /\ stamp' = [stamp EXCEPT ![r] = seen[r].version]
    /\ minted' = minted \cup {[family |-> r, by |-> r]}
    /\ End(r, "granted")
    /\ UNCHANGED <<now, version, password, shown, sweeper>>

----------------------------------------------------------------------------
(* Refresh. *)

(* The account is looked up before anything is locked. *)
RefreshLookup(r) ==
    /\ r \in Refreshes /\ pc[r] = "idle"
    /\ \E t \in minted :
         /\ shown' = [shown EXCEPT ![r] = t]
         /\ pc' = [pc EXCEPT ![r] = IF Live(t.family) THEN "waiting" ELSE "done"]
         /\ outcome' = [outcome EXCEPT ![r] = IF Live(t.family) THEN "none" ELSE "refused"]
    /\ UNCHANGED <<now, store, lock, seen, began, draft, doomed, sweeper>>

(* The presented token is the immediate predecessor, rotated just now.     *)
InGrace(r) ==
    LET s == shown[r].family
    IN  row[s].prev = shown[r].by /\ row[s].rotated > now - Grace

(* Mutant of Current: any token of the family rotates it. *)
CurrentFamily(r) == TRUE

Current(r) == row[shown[r].family].cur = shown[r].by

(* rotate_refresh_token_with, from the lock to the choice between rotating,*)
(* refusing a concurrent request and revoking the family.                  *)
RefreshJudge(r) ==
    /\ r \in Refreshes /\ pc[r] = "waiting" /\ lock = None
    /\ LET s == shown[r].family
       IN  \/ /\ Live(s) /\ Current(r)
              /\ Proceed(r, "judged")
              /\ UNCHANGED <<draft, doomed>>
           \/ /\ Live(s) /\ ~Current(r) /\ InGrace(r)
              /\ Refuse(r)
           \/ /\ Live(s) /\ ~Current(r) /\ ~InGrace(r)
              /\ doomed' = [doomed EXCEPT ![r] = {s}]
              /\ Proceed(r, "writing")
              /\ UNCHANGED draft
           \/ ~Live(s) /\ Refuse(r)

(* The UPDATE checks the absolute age and not the expiry again. *)
RefreshRotate(r) ==
    /\ r \in Refreshes /\ pc[r] = "judged"
    /\ LET old == row[shown[r].family]
       IN  IF old.born + Absolute > now
           THEN /\ draft' = [draft EXCEPT ![r] =
                     [cur |-> r, prev |-> shown[r].by, born |-> old.born, rotated |-> now,
                      expires |-> IF now + Slide < old.born + Absolute
                                  THEN now + Slide ELSE old.born + Absolute]]
                /\ Proceed(r, "writing")
                /\ UNCHANGED doomed
           ELSE Refuse(r)

(* The bearer carries the version read in the same transaction; a sweep is *)
(* spawned unless one is running.                                          *)
RefreshCommit(r) ==
    /\ r \in Refreshes /\ pc[r] = "writing" /\ draft[r] # None
    /\ LET s == shown[r].family
       IN  /\ row' = [row EXCEPT ![s] = draft[r]]
           /\ stamp' = [stamp EXCEPT ![s] = version]
           /\ minted' = minted \cup {[family |-> s, by |-> r]}
    /\ End(r, "granted")
    /\ sweep' = IF sweep = "idle" THEN "due" ELSE sweep
    /\ UNCHANGED <<now, version, password, table, shown, picked>>

(* ReuseDetected is committed before the request is refused. *)
ReuseCommit(r) ==
    /\ r \in Refreshes /\ pc[r] = "writing" /\ draft[r] = None
    /\ table' = table \ doomed[r]
    /\ End(r, "refused")
    /\ UNCHANGED <<now, version, password, row, stamp, minted, shown, sweeper>>

(* cleanup_expired: the subquery's snapshot chooses the rows; the DELETE   *)
(* waits for those that are locked and does not ask again whether they are *)
(* expired.                                                                *)
SweepPick ==
    /\ sweep = "due" /\ sweep' = "deleting"
    /\ picked' = {s \in table : row[s].expires < now}
    /\ UNCHANGED <<now, store, lock, pc, outcome, locals>>

SweepDelete ==
    /\ sweep = "deleting" /\ \A s \in picked : ~RowLocked(s)
    /\ table' = table \ picked
    /\ sweep' = "idle" /\ picked' = {}
    /\ UNCHANGED <<now, version, password, row, stamp, minted, lock, pc, outcome, locals>>

SweepFail ==
    /\ sweep # "idle" /\ sweep' = "idle" /\ picked' = {}
    /\ UNCHANGED <<now, store, lock, pc, outcome, locals>>

----------------------------------------------------------------------------
(* Logout and revocation. *)

(* Mutant of LogoutTargets: only the token that was current is matched.    *)
LogoutExact(t) == {s \in table : t.family = s /\ row[s].cur = t.by}

(* The current token or any predecessor names its family. *)
LogoutTargets(t) == {s \in table : t.family = s}

(* delete_session_by_token, one statement outside the account's lock: it   *)
(* waits for a row that is locked, then judges the row it finds.           *)
Logout(r) ==
    /\ r \in Logouts /\ pc[r] = "idle"
    /\ \E t \in minted :
         /\ ~RowLocked(t.family)
         /\ table' = table \ LogoutTargets(t)
         /\ shown' = [shown EXCEPT ![r] = t]
    /\ pc' = [pc EXCEPT ![r] = "done"]
    /\ outcome' = [outcome EXCEPT ![r] = "granted"]
    /\ UNCHANGED <<now, version, password, row, stamp, minted, lock, seen, began, draft,
                   doomed, sweeper>>

(* authenticated_claims, with a bearer of session s. *)
Authorize(r, s) ==
    /\ pc[r] = "idle" /\ Live(s) /\ stamp[s] = version
    /\ pc' = [pc EXCEPT ![r] = "verified"]
    /\ seen' = [seen EXCEPT ![r] = [password |-> password, version |-> version, sid |-> s]]
    /\ UNCHANGED <<now, store, lock, outcome, shown, began, draft, doomed, sweeper>>

RevokeVerify(r) == r \in Revokers /\ \E s \in Sids : Authorize(r, s)

(* Mutant of StillCurrent: the version alone is checked under the lock. *)
SameVersion(r) == seen[r].version = version

(* lock_current_session *)
StillCurrent(r) == seen[r].version = version /\ Live(seen[r].sid)

(* One session, or every other one. *)
RevokeWrite(r) ==
    /\ r \in Revokers /\ pc[r] = "verified" /\ lock = None
    /\ \/ /\ StillCurrent(r)
          /\ \E S \in {table \ {seen[r].sid}} \cup {{s} : s \in table} :
               doomed' = [doomed EXCEPT ![r] = S]
          /\ Proceed(r, "writing")
          /\ UNCHANGED draft
       \/ ~StillCurrent(r) /\ Refuse(r)

RevokeCommit(r) ==
    /\ r \in Revokers /\ pc[r] = "writing"
    /\ table' = table \ doomed[r]
    /\ End(r, "granted")
    /\ UNCHANGED <<now, version, password, row, stamp, minted, shown, sweeper>>

----------------------------------------------------------------------------
(* Change of password. *)

ChangeVerify(r) == r \in Changers /\ \E s \in Sids : Authorize(r, s)

(* The conditional UPDATE takes the lock; then every session goes.  Its    *)
(* DELETE waits for rows that a logout or a sweep is deleting, which are   *)
(* single steps here.                                                      *)
ChangeWrite(r) ==
    /\ r \in Changers /\ pc[r] = "verified" /\ lock = None
    /\ IF seen[r].password = password /\ seen[r].version = version
       THEN /\ doomed' = [doomed EXCEPT ![r] = table]
            /\ Proceed(r, "writing")
            /\ UNCHANGED draft
       ELSE Refuse(r)

ChangeCommit(r) ==
    /\ r \in Changers /\ pc[r] = "writing"
    /\ version' = version + 1 /\ password' = r
    /\ table' = table \ doomed[r]
    /\ End(r, "granted")
    /\ UNCHANGED <<now, row, stamp, minted, shown, sweeper>>

----------------------------------------------------------------------------

Tick ==
    /\ now < MaxTime /\ now' = now + 1
    /\ UNCHANGED <<store, lock, pc, outcome, locals, sweeper>>

Step(r) ==
    \/ LoginVerify(r) \/ KeyLoginStart(r) \/ LoginInsert(r) \/ LoginCommit(r)
    \/ RefreshLookup(r) \/ RefreshJudge(r) \/ RefreshRotate(r) \/ RefreshCommit(r)
    \/ ReuseCommit(r)
    \/ Logout(r)
    \/ RevokeVerify(r) \/ RevokeWrite(r) \/ RevokeCommit(r)
    \/ ChangeVerify(r) \/ ChangeWrite(r) \/ ChangeCommit(r)
    \/ Fail(r)

Next == Tick \/ SweepPick \/ SweepDelete \/ SweepFail \/ \E r \in Requests : Step(r)

Spec == Init /\ [][Next]_vars

----------------------------------------------------------------------------
(* Properties. *)

(* The requests' locals and the rows keep their types.                     *)
TypeOK ==
    /\ now \in Nat /\ version \in Nat /\ password \in Changers \cup {None}
    /\ lock \in Requests \cup {None}
    /\ table \subseteq Sids /\ row \in [Sids -> Rows] /\ stamp \in [Sids -> Nat]
    /\ minted \subseteq Tokens
    /\ pc \in [Requests -> Labels] /\ outcome \in [Requests -> Outcomes]
    /\ shown \in [Requests -> Tokens \cup {None}]
    /\ seen \in [Requests -> [password : Changers \cup {None}, version : Nat,
                              sid : Sids \cup {None}]]
    /\ began \in [Requests -> Nat]
    /\ draft \in [Requests -> Rows \cup {None}] /\ doomed \in [Requests -> SUBSET Sids]
    /\ sweep \in {"idle", "due", "deleting"} /\ picked \subseteq Sids

(* A refresh token buys one successor, however often and however close     *)
(* together it is presented: of the requests that present it at most one   *)
(* is answered with a new token (session.rs:237-239, 262-285).             *)
OneSuccessor ==
    \A r, q \in Refreshes :
        outcome[r] = "granted" /\ outcome[q] = "granted" /\ shown[r] = shown[q] => r = q

(* Once a logout has answered, no token of that family has a session,      *)
(* though a rotation of it may have been under way (session.rs:329-351).   *)
LogoutIsFinal ==
    \A r \in Logouts : outcome[r] = "granted" => shown[r].family \notin table

(* The account's sessions seen from outside: what SessionAuthority says.   *)
Issued(s) == [family |-> s, by |-> s] \in minted
StatusOf(s) ==
    IF s \in table THEN IF row[s].expires > now THEN "live" ELSE "lapsed"
    ELSE IF Issued(s) THEN "ended" ELSE "new"

Authority == INSTANCE SessionAuthority WITH status <- [s \in Sids |-> StatusOf(s)]

(* Every interleaving of the transactions is a history SessionAuthority    *)
(* allows: a session that has ended does not return, no sign-in is at an   *)
(* old version, and a change of credentials leaves no session.             *)
ImplementsAuthority == Authority!AuthoritySpec

(* A session that was revoked or logged out does not manage the others:    *)
(* whoever deletes sessions has one of its own when the deletion commits   *)
(* (sessions.rs:45-46).                                                    *)
OnlyTheLiveRevoke ==
    [][\A r \in Revokers : outcome[r] # "granted" /\ outcome'[r] = "granted"
         => seen[r].sid \in table /\ seen[r].version = version]_vars
=============================================================================
