--------------------------- MODULE SessionAuthority ---------------------------
(***************************************************************************)
(* What the account database promises about the sessions of one account,   *)
(* seen from outside its transactions.  A bearer names the session it was  *)
(* issued to and the authentication version of the account at that moment; *)
(* it is accepted while the session is live and the version current.       *)
(*                                                                         *)
(* AccountSessions shows that the transactions keep this promise;          *)
(* AccountCredentials and AccountCapabilities are built on it.             *)
(***************************************************************************)
EXTENDS Naturals

CONSTANT Sids       \* session ids, none of them used twice

VARIABLES
    status,         \* of each session
    stamp,          \* the authentication version its bearers carry
    version         \* users.auth_version

authority == <<status, stamp, version>>

(* A row that is there and past its expiry is lapsed: a rotation that was  *)
(* under way may still renew it, until it is deleted.                      *)
Statuses == {"new", "live", "lapsed", "ended"}
Present == {s \in Sids : status[s] \in {"live", "lapsed"}}

AuthorityInit ==
    /\ status \in [Sids -> {"new", "live"}]
    /\ stamp = [s \in Sids |-> 0]
    /\ version = 0

(* A sign-in commits, at the current version, and evicts older sessions.   *)
SignIn(s, evicted) ==
    /\ status[s] = "new" /\ evicted \subseteq Present
    /\ \E st \in {"live", "lapsed"} :
         status' = [t \in Sids |-> IF t = s THEN st
                                   ELSE IF t \in evicted THEN "ended" ELSE status[t]]
    /\ stamp' = [stamp EXCEPT ![s] = version]
    /\ UNCHANGED version

(* Time passes. *)
Lapse(S) ==
    /\ S \subseteq Present
    /\ status' = [t \in Sids |-> IF t \in S THEN "lapsed" ELSE status[t]]
    /\ UNCHANGED <<stamp, version>>

(* A refresh commits, with a bearer of the same version. *)
Renew(s) ==
    /\ s \in Present
    /\ \E st \in {"live", "lapsed"} : status' = [status EXCEPT ![s] = st]
    /\ UNCHANGED <<stamp, version>>

(* Logout, revocation, reuse of a refresh token, the sweep of expired rows.*)
End(S) ==
    /\ S \subseteq Present
    /\ status' = [t \in Sids |-> IF t \in S THEN "ended" ELSE status[t]]
    /\ UNCHANGED <<stamp, version>>

(* A credential changes: every session ends with the version it used.      *)
Bump ==
    /\ version' = version + 1
    /\ status' = [t \in Sids |-> IF t \in Present THEN "ended" ELSE status[t]]
    /\ UNCHANGED stamp

AuthorityNext ==
    \/ \E s \in Sids, S \in SUBSET Sids : SignIn(s, S)
    \/ \E s \in Sids : Renew(s)
    \/ \E S \in SUBSET Sids : Lapse(S) \/ End(S)
    \/ Bump

AuthoritySpec == AuthorityInit /\ [][AuthorityNext]_authority

(* validate_current_claims, for the bearers of session s. *)
Valid(s, v) == status[s] = "live" /\ v = version
=============================================================================
