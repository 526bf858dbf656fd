-------------------------- MODULE AccountCredentials --------------------------
(***************************************************************************)
(* The sign-in methods of one account: its password, its passkeys and its  *)
(* recovery key, the ceremonies by which they are managed, and the         *)
(* sessions that come and go meanwhile.                                    *)
(*                                                                         *)
(* Sessions and the authentication version behave as SessionAuthority      *)
(* says.  Each request proves something without a lock (its bearer, a      *)
(* password, the possession of a ceremony), awaits, and then locks the     *)
(* account's row and writes in one transaction; what that transaction      *)
(* reads and writes is one action, since nothing else writes these rows    *)
(* without the lock.  The challenge store is memory of the process: it is  *)
(* written before the commit and does not roll back.                       *)
(*                                                                         *)
(* A passkey, a password, a recovery key and a ceremony are each named by  *)
(* the request that made them.                                             *)
(***************************************************************************)
EXTENDS SessionAuthority, FiniteSets

CONSTANTS
    Requests,       \* HTTP requests to account management and passkey sign-in
    Seeds,          \* sessions signed in at the start
    Keys,           \* passkeys enrolled at the start
    First,          \* the password and the recovery key of the start
    MaxKeys,        \* MAX_PASSKEYS
    MaxChallenges,  \* MAX_CHALLENGES_PER_PRINCIPAL
    MaxVersion,     \* bound on credential changes
    None

ASSUME CredentialAssumption ==
    /\ Seeds \subseteq Sids
    /\ MaxKeys \in Nat /\ MaxChallenges \in Nat /\ MaxVersion \in Nat
    /\ IsFiniteSet(Keys) /\ Cardinality(Keys) <= MaxKeys
    /\ Keys \cap Requests = {} /\ First \notin Requests
    /\ None \notin Keys \cup Requests \cup {First}

VARIABLES
    password,       \* users.password_hash, or None
    recovery,       \* users.recovery_key_hash, or None
    keys,           \* webauthn_credentials
    ceremonies,     \* ChallengeStore.accounts
    offered,        \* ceremonies whose id was sent to the client
    saved,          \* recovery keys that were sent to the client
    opener,         \* the passkey each session was signed in with, or None
    holder,         \* the open transaction that holds the account's row
    pc, job,        \* each request's next step, and what it has proved
    won             \* what it achieved

credentialVars == <<password, recovery, keys>>
ceremonyVars == <<ceremonies, offered>>
requestVars == <<pc, job, won>>
vars == <<authority, credentialVars, ceremonyVars, saved, opener, holder, requestVars>>

AllKeys == Keys \cup Requests
Secrets == Requests \cup {First}
Actions == [op : {"add", "recovery"}, target : {None}]
               \cup [op : {"replace", "remove"}, target : AllKeys]
Ceremonies ==
    [id : Requests, kind : {"assert", "register"}, version : Nat, action : Actions,
     backup : Requests \cup {None}]
Jobs ==
    [version : Nat, secret : Secrets \cup AllKeys \cup {None}, action : Actions,
     backup : Requests \cup {None}, ceremony : Requests \cup {None}]

AddKey == [op |-> "add", target |-> None]
Job(v, secret, action) ==
    [version |-> v, secret |-> secret, action |-> action, backup |-> None, ceremony |-> None]
NoJob == Job(0, None, AddKey)

Init ==
    /\ status = [s \in Sids |-> IF s \in Seeds THEN "live" ELSE "new"]
    /\ stamp = [s \in Sids |-> 0] /\ version = 0
    /\ password \in {None, First} /\ recovery \in {None, First}
    /\ keys = Keys /\ (password = None => keys # {})
    /\ ceremonies = {} /\ offered = {}
    /\ saved = {recovery} \ {None}
    /\ opener \in [Sids -> Keys \cup {None}] /\ \A s \in Sids \ Seeds : opener[s] = None
    /\ holder = None
    /\ pc = [r \in Requests |-> "idle"]
    /\ job = [r \in Requests |-> NoJob]
    /\ won = [r \in Requests |-> "nothing"]

----------------------------------------------------------------------------
(* Idioms. *)

(* authenticated_claims: a bearer of some session is accepted, at version v.*)
Bearer(v) == \E s \in Sids : stamp[s] = v /\ Valid(s, v)

Await(r, label, j) ==
    /\ pc' = [pc EXCEPT ![r] = label]
    /\ job' = [job EXCEPT ![r] = j]
    /\ UNCHANGED won

(* What it used up is remembered. *)
Finish(r, what) ==
    /\ pc' = [pc EXCEPT ![r] = "done"]
    /\ won' = [won EXCEPT ![r] = what]
    /\ job' = [job EXCEPT ![r] = [NoJob EXCEPT
                 !.ceremony = job[r].ceremony,
                 !.secret = IF what = "redeemed" THEN job[r].secret ELSE None]]

Refuse(r) ==
    /\ Finish(r, "nothing")
    /\ UNCHANGED <<authority, credentialVars, ceremonyVars, saved, opener, holder>>

(* The account's row is free. *)
Locks(r, label) == pc[r] = label /\ holder = None

(* Mutant of Owner: the version is not read again. *)
OwnerOnce(r) == TRUE

(* locked_account: the version the request was authorized at is current. *)
Owner(r) == job[r].version = version

(* auth_version + 1, DELETE FROM sessions. *)
Revoke == version < MaxVersion /\ Bump

----------------------------------------------------------------------------
(* What a request proves before it locks anything. *)

(* The operations the settings page offers. *)
Choices == {a \in Actions : a.target \in keys \cup {None}}

(* start with the current password: verified_password_hash. *)
ProvePassword(r) ==
    /\ pc[r] = "idle" /\ password # None /\ Bearer(version)
    /\ \E a \in Choices : Await(r, "proved", Job(version, password, a))
    /\ UNCHANGED <<authority, credentialVars, ceremonyVars, saved, opener, holder>>

(* store_account refuses rather than evict. *)
Room == Cardinality(ceremonies) < MaxChallenges
Store(c) == Room /\ ceremonies' = ceremonies \cup {c}

(* start without a password: a challenge bound to the account, its version *)
(* and the operation.                                                      *)
StartCeremony(r) ==
    /\ pc[r] = "idle" /\ Bearer(version)
    /\ \E a \in Choices :
         Store([id |-> r, kind |-> "assert", version |-> version, action |-> a,
                backup |-> None])
    /\ offered' = offered \cup {r}
    /\ Finish(r, "nothing")
    /\ UNCHANGED <<authority, credentialVars, saved, opener, holder>>

(* take_account removes what it returns, even for the wrong endpoint. *)
Remaining(c) == ceremonies \ {c}

Take(c, v) == c \in ceremonies /\ c.id \in offered /\ c.version = v

(* authorize: the assertion of a key that is enrolled when it is made. *)
AuthorizeTake(r) ==
    /\ pc[r] = "idle" /\ Bearer(version)
    /\ \E c \in ceremonies :
         /\ Take(c, version) /\ ceremonies' = Remaining(c)
         /\ IF c.kind = "assert"
            THEN \E k \in keys :
                   Await(r, "asserted", [Job(version, k, c.action) EXCEPT !.ceremony = c.id])
            ELSE Finish(r, "nothing")
    /\ UNCHANGED <<authority, credentialVars, offered, saved, opener, holder>>

(* enroll: the new credential answers its registration challenge. *)
EnrollTake(r) ==
    /\ pc[r] = "idle" /\ Bearer(version)
    /\ \E c \in ceremonies :
         /\ Take(c, version) /\ ceremonies' = Remaining(c)
         /\ IF c.kind = "register"
            THEN Await(r, "enrolling", [Job(version, None, c.action) EXCEPT
                                          !.backup = c.backup, !.ceremony = c.id])
            ELSE Finish(r, "nothing")
    /\ UNCHANGED <<authority, credentialVars, offered, saved, opener, holder>>

(* change_password and create_recovery_key: bearer and current password.   *)
ProveChange(r) ==
    /\ pc[r] = "idle" /\ password # None /\ Bearer(version)
    /\ \E label \in {"changing", "keeping"} : Await(r, label, Job(version, password, AddKey))
    /\ UNCHANGED <<authority, credentialVars, ceremonyVars, saved, opener, holder>>

(* redeem_recovery: no bearer; the key is current when it is looked up.    *)
ProveRecovery(r) ==
    /\ pc[r] = "idle"
    /\ recovery \in saved /\ Await(r, "redeeming", Job(version, recovery, AddKey))
    /\ UNCHANGED <<authority, credentialVars, ceremonyVars, saved, opener, holder>>

(* passkey_login_finish takes its anonymous challenge. *)
AssertSignIn(r) ==
    /\ pc[r] = "idle"
    /\ \E k \in keys : Await(r, "signing", Job(version, k, AddKey))
    /\ UNCHANGED <<authority, credentialVars, ceremonyVars, saved, opener, holder>>

----------------------------------------------------------------------------
(* apply_action, under the lock and after the proof was checked again.     *)

(* Mutant of Removable: the last method counts the key being removed. *)
RemovableLast(k) == k \in keys

Removable(k) == k \in keys /\ (Cardinality(keys) > 1 \/ password # None)

Spare == Cardinality(keys) < MaxKeys

(* prepare_registration up to the commit: the challenge is stored, and a   *)
(* replacement's new recovery key is written.                              *)
Prepare(r) ==
    LET a == job[r].action
    IN  /\ IF a.op = "replace" THEN a.target \in keys ELSE Spare
        /\ Store([id |-> r, kind |-> "register", version |-> job[r].version, action |-> a,
                  backup |-> IF a.op = "replace" THEN r ELSE None])
        /\ pc' = [pc EXCEPT ![r] = "storing"]
        /\ holder' = r
        /\ UNCHANGED <<authority, credentialVars, offered, saved, opener, job, won>>

ReplaceRecovery(r) ==
    /\ recovery' = r /\ saved' = saved \cup {r}
    /\ Finish(r, "wrote")
    /\ UNCHANGED <<authority, password, keys, ceremonyVars, opener, holder>>

RemoveKey(r) ==
    /\ Removable(job[r].action.target)
    /\ keys' = keys \ {job[r].action.target} /\ Revoke
    /\ Finish(r, "wrote")
    /\ UNCHANGED <<password, recovery, ceremonyVars, saved, opener, holder>>

Apply(r) ==
    \/ job[r].action.op \in {"add", "replace"} /\ Prepare(r)
    \/ job[r].action.op = "recovery" /\ ReplaceRecovery(r)
    \/ job[r].action.op = "remove" /\ RemoveKey(r)

ApplyProved(r) ==
    /\ Locks(r, "proved") /\ Owner(r) /\ password = job[r].secret
    /\ Apply(r)

(* Mutant of Usable: the credential is not looked up under the lock. *)
UsableEver(k) == TRUE

(* verify_discoverable_assertion: the credential row, FOR UPDATE. *)
Usable(k) == k \in keys

ApplyAsserted(r) ==
    /\ Locks(r, "asserted") /\ Owner(r) /\ Usable(job[r].secret)
    /\ Apply(r)

(* commit_registration.  The commit succeeds, fails and gives the          *)
(* challenge back, or is reported as failed though it succeeded; or the    *)
(* request is dropped, before or after the commit, and nobody learns.      *)
Ours(r) == {c \in ceremonies : c.id = r}
Backup(r) == IF job[r].action.op = "replace" THEN r ELSE recovery

RegistrationCommit(r) ==
    /\ pc[r] = "storing" /\ holder' = None
    /\ recovery' = Backup(r)
    /\ saved' = saved \cup ({Backup(r)} \cap {r})
    /\ offered' = offered \cup {r}
    /\ Finish(r, "nothing")
    /\ UNCHANGED <<authority, password, keys, ceremonies, opener>>

RegistrationFails(r) ==
    /\ pc[r] = "storing" /\ holder' = None
    /\ recovery' \in {recovery, Backup(r)}
    /\ ceremonies' = ceremonies \ Ours(r)
    /\ Finish(r, "nothing")
    /\ UNCHANGED <<authority, password, keys, offered, saved, opener>>

RegistrationDropped(r) ==
    /\ pc[r] = "storing" /\ holder' = None
    /\ recovery' \in {recovery, Backup(r)}
    /\ Finish(r, "nothing")
    /\ UNCHANGED <<authority, password, keys, ceremonyVars, saved, opener>>

----------------------------------------------------------------------------
(* The other transactions. *)

(* Mutant of StillSpare: the limit was checked when the ceremony began. *)
StillSpareAssumed == TRUE

StillSpare == Spare

EnrollAdded(r) ==
    /\ Locks(r, "enrolling") /\ job[r].action.op = "add" /\ Owner(r) /\ StillSpare
    /\ keys' = keys \cup {r}
    /\ Finish(r, "wrote")
    /\ UNCHANGED <<authority, password, recovery, ceremonyVars, saved, opener, holder>>

(* Mutant of BackupCurrent: a later recovery key is not noticed. *)
BackupAny(r) == TRUE

BackupCurrent(r) == recovery = job[r].backup

(* replace_credential *)
EnrollReplaced(r) ==
    /\ Locks(r, "enrolling") /\ job[r].action.op = "replace" /\ Owner(r)
    /\ BackupCurrent(r) /\ job[r].action.target \in keys
    /\ keys' = (keys \ {job[r].action.target}) \cup {r} /\ Revoke
    /\ Finish(r, "replaced")
    /\ UNCHANGED <<password, recovery, ceremonyVars, saved, opener, holder>>

(* The conditional UPDATE of change_password. *)
Change(r) ==
    /\ Locks(r, "changing") /\ Owner(r) /\ password = job[r].secret
    /\ password' = r /\ Revoke
    /\ Finish(r, "wrote")
    /\ UNCHANGED <<recovery, keys, ceremonyVars, saved, opener, holder>>

(* The conditional UPDATE of create_recovery_key. *)
Keep(r) ==
    /\ Locks(r, "keeping") /\ Owner(r) /\ password = job[r].secret
    /\ ReplaceRecovery(r)

(* Mutant of Consumed: the digest is not cleared. *)
ConsumedNot == recovery

Consumed == None

(* consume_recovery *)
Redeem(r) ==
    /\ Locks(r, "redeeming") /\ recovery = job[r].secret
    /\ password' = r /\ recovery' = Consumed /\ Revoke
    /\ Finish(r, "redeemed")
    /\ UNCHANGED <<keys, ceremonyVars, saved, opener, holder>>

KeySignIn(r) ==
    /\ Locks(r, "signing") /\ Usable(job[r].secret)
    /\ \E s \in Sids : SignIn(s, {}) /\ opener' = [opener EXCEPT ![s] = job[r].secret]
    /\ Finish(r, "signed_in")
    /\ UNCHANGED <<credentialVars, ceremonyVars, saved, holder>>

(* The condition of the transaction fails, a query does, or the request is *)
(* dropped: nothing is written.                                            *)
Fail(r) == pc[r] \notin {"idle", "storing", "done"} /\ Refuse(r)

----------------------------------------------------------------------------
(* The environment: sessions signed in by password, sessions ended, and    *)
(* ceremonies past their time.                                             *)

PasswordSignIn ==
    /\ password # None
    /\ \E s \in Sids : SignIn(s, {}) /\ opener' = [opener EXCEPT ![s] = None]
    /\ UNCHANGED <<credentialVars, ceremonyVars, saved, holder, requestVars>>

SessionEnds ==
    /\ \E s \in Sids : End({s})
    /\ UNCHANGED <<credentialVars, ceremonyVars, saved, opener, holder, requestVars>>

CeremonyExpires ==
    /\ \E c \in ceremonies : ceremonies' = ceremonies \ {c}
    /\ UNCHANGED <<authority, credentialVars, offered, saved, opener, holder, requestVars>>

Step(r) ==
    \/ ProvePassword(r) \/ StartCeremony(r) \/ AuthorizeTake(r) \/ EnrollTake(r)
    \/ ProveChange(r) \/ ProveRecovery(r) \/ AssertSignIn(r)
    \/ ApplyProved(r) \/ ApplyAsserted(r)
    \/ RegistrationCommit(r) \/ RegistrationFails(r) \/ RegistrationDropped(r)
    \/ EnrollAdded(r) \/ EnrollReplaced(r) \/ Change(r) \/ Keep(r) \/ Redeem(r)
    \/ KeySignIn(r) \/ Fail(r)

Next ==
    \/ PasswordSignIn \/ SessionEnds \/ CeremonyExpires
    \/ \E r \in Requests : Step(r)

Spec == Init /\ [][Next]_vars

----------------------------------------------------------------------------
(* Properties. *)

(* What a ceremony or a request has proved is well formed wherever it is   *)
(* used.                                                                   *)
TypeOK ==
    /\ status \in [Sids -> Statuses] /\ stamp \in [Sids -> Nat] /\ version \in Nat
    /\ password \in Secrets \cup {None} /\ recovery \in Secrets \cup {None}
    /\ keys \subseteq AllKeys
    /\ ceremonies \subseteq Ceremonies /\ offered \subseteq Requests /\ saved \subseteq Secrets
    /\ opener \in [Sids -> AllKeys \cup {None}] /\ holder \in Requests \cup {None}
    /\ pc \in [Requests -> {"idle", "proved", "asserted", "enrolling", "changing", "keeping",
                            "redeeming", "signing", "storing", "done"}]
    /\ job \in [Requests -> Jobs]
    /\ won \in [Requests -> {"nothing", "wrote", "replaced", "redeemed", "signed_in"}]

(* However removals, replacements and enrollments interleave, the owner    *)
(* can still sign in: a recovery key does not count (passkeys.rs:518-523). *)
SignInMethodRemains == password # None \/ keys # {}

(* Ceremonies prepared below the limit do not exceed it when they finish   *)
(* together (passkeys.rs:590-595).                                         *)
KeyLimit == Cardinality(keys) <= MaxKeys

(* A recovery key is redeemed once, even by requests that overlap          *)
(* (account.rs:858-860), and so is a ceremony with the proof of ownership  *)
(* it stands for (webauthn.rs:254-255).                                    *)
SingleUse ==
    \A r, q \in Requests :
        \/ /\ won[r] = "redeemed" /\ won[q] = "redeemed"
           /\ job[r].secret = job[q].secret
        \/ job[r].ceremony # None /\ job[r].ceremony = job[q].ceremony
        => r = q

(* A passkey is replaced only while the recovery key that was shown for    *)
(* this replacement is the one that works: the owner is not left with a    *)
(* saved key that was superseded (passkeys.rs:455-467).                    *)
ReplacementHasBackup ==
    [][\A r \in Requests : won[r] # "replaced" /\ won'[r] = "replaced"
         => recovery' = job[r].backup /\ recovery' \in saved]_vars

(* No proof given before a change of credentials changes them again: the    *)
(* password, the passkeys and the recovery key are written by a request     *)
(* that was authorized at the version of the moment (passkeys.rs:548-549),  *)
(* also where the commit follows the check by a step of its own or is       *)
(* reported as failed, or by the redemption of the recovery key.            *)
NoStaleAuthority ==
    [][credentialVars' # credentialVars
         => \E r \in Requests :
              pc'[r] # pc[r] /\ (job[r].version = version \/ won'[r] = "redeemed")]_vars

(* No session outlives the passkey that opened it: those that were open     *)
(* when it was removed or replaced end with it, and a sign-in that had      *)
(* asserted it before opens none afterwards (routes.rs:727-729,             *)
(* passkeys.rs:525-539).                                                    *)
SessionsDieWithTheirKey ==
    \A s \in Present : opener[s] # None => opener[s] \in keys
=============================================================================
