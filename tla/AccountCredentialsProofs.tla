----------------------- MODULE AccountCredentialsProofs -----------------------
(* Theorems about AccountCredentials, for any requests, any passkeys at the   *)
(* start and any limits.                                                     *)
EXTENDS AccountCredentials, FiniteSetTheorems, TLAPS

(* The passkeys can be counted, and removals and enrollments leave a way in.  *)
Keyed == IsFiniteSet(keys) /\ KeyLimit /\ SignInMethodRemains

(* A request that is under way has achieved nothing yet. *)
Pending == \A r \in Requests : pc[r] # "done" => won[r] = "nothing"

(* A recovery key made by a request was written by its last step, so it will *)
(* not be written again.                                                     *)
Written == recovery \in Requests => pc[recovery] = "done"

(* What a stored ceremony stands for: its request will store no other, and a  *)
(* registration is the one its request prepared.                             *)
Stored ==
    /\ \A c, d \in ceremonies : c.id = d.id => c = d
    /\ \A c \in ceremonies :
         /\ pc[c.id] \in {"storing", "done"}
         /\ c.kind = "register" =>
              c.backup = IF c.action.op = "replace" THEN c.id ELSE None
         /\ pc[c.id] = "storing" => c.action = job[c.id].action

(* A ceremony is offered once its request is done; a replacement only with   *)
(* its recovery key.                                                         *)
Offered ==
    /\ \A r \in offered : pc[r] = "done"
    /\ \A c \in ceremonies :
         c.kind = "register" /\ c.action.op = "replace" /\ c.id \in offered => c.id \in saved

(* A ceremony that was taken is gone, and its request is over. *)
Taken ==
    \A r \in Requests : job[r].ceremony # None =>
        /\ pc[job[r].ceremony] = "done"
        /\ \A c \in ceremonies : c.id # job[r].ceremony

(* Whoever enrolls a replacement was shown the recovery key it relies on. *)
Backed ==
    \A r \in Requests :
        pc[r] = "enrolling" /\ job[r].action.op = "replace" => job[r].backup \in saved

(* A recovery key that was redeemed is not the account's, nor will it be. *)
Redeemed ==
    \A r \in Requests :
        /\ pc[r] = "redeeming" \/ won[r] = "redeemed" => job[r].secret \in Secrets
        /\ won[r] = "redeemed" =>
             /\ job[r].secret # recovery
             /\ job[r].secret \in Requests => pc[job[r].secret] = "done"

Inv ==
    /\ TypeOK /\ Keyed /\ Pending /\ Written /\ Stored /\ Offered /\ Taken /\ Backed
    /\ Redeemed /\ SingleUse

----------------------------------------------------------------------------
(* Every step keeps Inv. *)

(* A request ends without effect. *)
LEMMA FailInv ==
    ASSUME Inv, NEW r \in Requests, Refuse(r), pc[r] # "storing", pc[r] # "done"
    PROVE  Inv'
<1>. USE CredentialAssumption DEF Inv, Refuse, Finish
<1>1. TypeOK'
  BY DEF TypeOK, Secrets, AllKeys, Actions, Ceremonies, Jobs, Job, NoJob, AddKey, Statuses,
     authority, credentialVars, ceremonyVars
<1>2. Keyed'
  BY DEF Keyed, KeyLimit, SignInMethodRemains, credentialVars
<1>3. Pending'
  BY DEF TypeOK, Pending
<1>4. Written'
  BY DEF TypeOK, Written, credentialVars
<1>5. Stored'
  BY DEF TypeOK, Stored, Ceremonies, ceremonyVars
<1>6. Offered'
  BY DEF TypeOK, Offered, Stored, Ceremonies, ceremonyVars
<1>7. Taken'
  BY DEF TypeOK, Taken, Stored, Offered, Ceremonies, Jobs, Job, NoJob, ceremonyVars
<1>8. Backed'
  BY DEF TypeOK, Backed, Stored, Offered, Ceremonies, Job, NoJob
<1>9. Redeemed'
  BY DEF TypeOK, Redeemed, Written, Pending, Secrets, Jobs, Job, NoJob, credentialVars
<1>10. SingleUse'
  BY DEF TypeOK, SingleUse, Taken, Redeemed, Pending, Ceremonies, Jobs, Job, NoJob
<1>. QED
  BY <1>1, <1>2, <1>3, <1>4, <1>5, <1>6, <1>7, <1>8, <1>9, <1>10

(* A password is proved. *)
LEMMA ProvePasswordInv ==
    ASSUME Inv, NEW r \in Requests, ProvePassword(r)
    PROVE  Inv'
<1>. USE CredentialAssumption DEF Inv, ProvePassword, Await, Choices
<1>1. TypeOK'
  BY DEF TypeOK, Secrets, AllKeys, Actions, Ceremonies, Jobs, Job, NoJob, AddKey, Statuses,
     authority, credentialVars, ceremonyVars
<1>2. Keyed'
  BY DEF Keyed, KeyLimit, SignInMethodRemains, credentialVars
<1>3. Pending'
  BY DEF TypeOK, Pending
<1>4. Written'
  BY DEF TypeOK, Written, credentialVars
<1>5. Stored'
  BY DEF TypeOK, Stored, Ceremonies, ceremonyVars
<1>6. Offered'
  BY DEF TypeOK, Offered, Stored, Ceremonies, ceremonyVars
<1>7. Taken'
  BY DEF TypeOK, Taken, Stored, Offered, Ceremonies, Jobs, Job, NoJob, ceremonyVars
<1>8. Backed'
  BY DEF TypeOK, Backed, Stored, Offered, Ceremonies, Job, NoJob
<1>9. Redeemed'
  BY DEF TypeOK, Redeemed, Written, Pending, Secrets, Jobs, Job, NoJob, credentialVars
<1>10. SingleUse'
  BY DEF TypeOK, SingleUse, Taken, Redeemed, Pending, Ceremonies, Jobs, Job, NoJob
<1>. QED
  BY <1>1, <1>2, <1>3, <1>4, <1>5, <1>6, <1>7, <1>8, <1>9, <1>10

(* A challenge is stored for the assertion of a passkey. *)
LEMMA StartCeremonyInv ==
    ASSUME Inv, NEW r \in Requests, StartCeremony(r)
    PROVE  Inv'
<1>. USE CredentialAssumption DEF Inv, StartCeremony, Store, Choices, Finish
<1>1. TypeOK'
  <2>1. ceremonies' \subseteq Ceremonies
    BY DEF TypeOK, Ceremonies
  <2>. QED
    BY <2>1 DEF TypeOK, Secrets, AllKeys, Actions, Ceremonies, Jobs, Job, NoJob, AddKey,
       Statuses, authority, credentialVars, ceremonyVars, requestVars
<1>2. Keyed'
  BY DEF Keyed, KeyLimit, SignInMethodRemains, credentialVars
<1>3. Pending'
  BY DEF TypeOK, Pending
<1>4. Written'
  BY DEF TypeOK, Written, credentialVars
<1>5. Stored'
  BY DEF TypeOK, Stored, Ceremonies, ceremonyVars
<1>6. Offered'
  BY DEF TypeOK, Offered, Stored, Ceremonies, ceremonyVars
<1>7. Taken'
  BY DEF TypeOK, Taken, Stored, Offered, Ceremonies, Jobs, Job, NoJob, ceremonyVars
<1>8. Backed'
  BY DEF TypeOK, Backed, Stored, Offered, Ceremonies, Job, NoJob
<1>9. Redeemed'
  BY DEF TypeOK, Redeemed, Written, Pending, Secrets, Jobs, Job, NoJob, credentialVars
<1>10. SingleUse'
  BY DEF TypeOK, SingleUse, Taken, Redeemed, Pending, Ceremonies, Jobs, Job, NoJob
<1>. QED
  BY <1>1, <1>2, <1>3, <1>4, <1>5, <1>6, <1>7, <1>8, <1>9, <1>10

(* An assertion takes its ceremony. *)
LEMMA AuthorizeTakeInv ==
    ASSUME Inv, NEW r \in Requests, AuthorizeTake(r)
    PROVE  Inv'
<1>. USE CredentialAssumption DEF Inv
<1>a. PICK c \in ceremonies :
        /\ pc[r] = "idle" /\ c.id \in offered /\ ceremonies' = ceremonies \ {c}
        /\ \/ \E k \in keys :
                Await(r, "asserted", [Job(version, k, c.action) EXCEPT !.ceremony = c.id])
           \/ Finish(r, "nothing")
        /\ UNCHANGED <<authority, credentialVars, offered, saved, opener, holder>>
  BY DEF AuthorizeTake, Take, Remaining
<1>b. c \in Ceremonies /\ job[r] \in Jobs /\ won[r] = "nothing"
  BY <1>a DEF TypeOK, Pending
<1>c. /\ pc' = [pc EXCEPT ![r] = pc'[r]] /\ pc'[r] \in {"asserted", "done"}
      /\ job' = [job EXCEPT ![r] = job'[r]]
      /\ won' = [won EXCEPT ![r] = "nothing"]
  BY <1>a, <1>b DEF TypeOK, Await, Finish
<1>d. /\ job'[r] \in Jobs
      /\ job'[r].ceremony \in {c.id, job[r].ceremony}
  <2>1. CASE Finish(r, "nothing")
    <3>1. /\ job'[r] = [version |-> 0, secret |-> None, action |-> AddKey, backup |-> None,
                       ceremony |-> job[r].ceremony]
          /\ pc'[r] = "done"
      BY <2>1 DEF Finish, TypeOK, NoJob, Job
    <3>2. AddKey \in Actions
      BY DEF AddKey, Actions
    <3>. QED
      BY <1>b, <3>1, <3>2 DEF Jobs
  <2>2. CASE \E k \in keys :
                   Await(r, "asserted", [Job(version, k, c.action) EXCEPT !.ceremony = c.id])
    <3>1. \E k \in keys :
            job'[r] = [version |-> version, secret |-> k, action |-> c.action, backup |-> None,
                       ceremony |-> c.id]
      BY <2>2 DEF Await, TypeOK, Job
    <3>. QED
      BY <1>b, <2>2, <3>1 DEF Jobs, Ceremonies, AllKeys, Secrets, TypeOK
  <2>. QED
    BY <1>a, <2>1, <2>2
<1>1. TypeOK'
  <2>1. job' \in [Requests -> Jobs] /\ ceremonies' \subseteq Ceremonies
    BY <1>a, <1>c, <1>d DEF TypeOK
  <2>2. /\ pc' \in [Requests -> {"idle", "proved", "asserted", "enrolling", "changing", "keeping",
                            "redeeming", "signing", "storing", "done"}]
        /\ won' \in [Requests -> {"nothing", "wrote", "replaced", "redeemed", "signed_in"}]
    BY <1>c DEF TypeOK
  <2>. QED
    BY <1>a, <2>1, <2>2 DEF TypeOK, authority, credentialVars
<1>2. Keyed'
  BY <1>a, <1>b, <1>c, <1>d DEF Keyed, KeyLimit, SignInMethodRemains, credentialVars
<1>3. Pending'
  BY <1>a, <1>b, <1>c, <1>d DEF TypeOK, Pending
<1>4. Written'
  BY <1>a, <1>b, <1>c, <1>d DEF TypeOK, Written, credentialVars
<1>5. Stored'
  BY <1>a, <1>b, <1>c, <1>d DEF TypeOK, Stored, Ceremonies, ceremonyVars
<1>6. Offered'
  BY <1>a, <1>b, <1>c, <1>d DEF TypeOK, Offered, Stored, Ceremonies, ceremonyVars
<1>7. Taken'
  BY <1>a, <1>b, <1>c, <1>d DEF TypeOK, Taken, Stored, Offered, Ceremonies, Jobs, Job,
     NoJob, ceremonyVars
<1>8. Backed'
  BY <1>a, <1>b, <1>c, <1>d DEF TypeOK, Backed, Stored, Offered, Ceremonies, Job, NoJob
<1>9. Redeemed'
  BY <1>a, <1>b, <1>c, <1>d DEF TypeOK, Redeemed, Written, Pending, Secrets, Jobs, Job,
     NoJob, credentialVars
<1>10. SingleUse'
  BY <1>a, <1>b, <1>c, <1>d DEF TypeOK, SingleUse, Taken, Redeemed, Pending, Ceremonies,
     Jobs, Job, NoJob
<1>. QED
  BY <1>1, <1>2, <1>3, <1>4, <1>5, <1>6, <1>7, <1>8, <1>9, <1>10

(* A registration takes its ceremony. *)
LEMMA EnrollTakeInv ==
    ASSUME Inv, NEW r \in Requests, EnrollTake(r)
    PROVE  Inv'
<1>. USE CredentialAssumption DEF Inv
<1>a. PICK c \in ceremonies :
        /\ pc[r] = "idle" /\ c.id \in offered /\ ceremonies' = ceremonies \ {c}
        /\ \/ /\ c.kind = "register"
              /\ Await(r, "enrolling", [Job(version, None, c.action) EXCEPT
                          !.backup = c.backup, !.ceremony = c.id])
           \/ Finish(r, "nothing")
        /\ UNCHANGED <<authority, credentialVars, offered, saved, opener, holder>>
  BY DEF EnrollTake, Take, Remaining
<1>b. c \in Ceremonies /\ job[r] \in Jobs /\ won[r] = "nothing"
  BY <1>a DEF TypeOK, Pending
<1>c. /\ pc' = [pc EXCEPT ![r] = pc'[r]] /\ pc'[r] \in {"enrolling", "done"}
      /\ job' = [job EXCEPT ![r] = job'[r]]
      /\ won' = [won EXCEPT ![r] = "nothing"]
  BY <1>a, <1>b DEF TypeOK, Await, Finish
<1>d. /\ job'[r] \in Jobs
      /\ job'[r].ceremony \in {c.id, job[r].ceremony}
      /\ pc'[r] = "enrolling" => /\ c.kind = "register"
                                  /\ job'[r].action = c.action /\ job'[r].backup = c.backup
  <2>1. CASE Finish(r, "nothing")
    <3>1. /\ job'[r] = [version |-> 0, secret |-> None, action |-> AddKey, backup |-> None,
                       ceremony |-> job[r].ceremony]
          /\ pc'[r] = "done"
      BY <2>1 DEF Finish, TypeOK, NoJob, Job
    <3>2. AddKey \in Actions
      BY DEF AddKey, Actions
    <3>. QED
      BY <1>b, <3>1, <3>2 DEF Jobs
  <2>2. CASE /\ c.kind = "register"
                 /\ Await(r, "enrolling", [Job(version, None, c.action) EXCEPT
                             !.backup = c.backup, !.ceremony = c.id])
    <3>1. job'[r] = [version |-> version, secret |-> None, action |-> c.action,
                       backup |-> c.backup, ceremony |-> c.id]
      BY <2>2 DEF Await, TypeOK, Job
    <3>. QED
      BY <1>b, <2>2, <3>1 DEF Jobs, Ceremonies, AllKeys, Secrets, TypeOK
  <2>. QED
    BY <1>a, <2>1, <2>2
<1>1. TypeOK'
  <2>1. job' \in [Requests -> Jobs] /\ ceremonies' \subseteq Ceremonies
    BY <1>a, <1>c, <1>d DEF TypeOK
  <2>2. /\ pc' \in [Requests -> {"idle", "proved", "asserted", "enrolling", "changing", "keeping",
                            "redeeming", "signing", "storing", "done"}]
        /\ won' \in [Requests -> {"nothing", "wrote", "replaced", "redeemed", "signed_in"}]
    BY <1>c DEF TypeOK
  <2>. QED
    BY <1>a, <2>1, <2>2 DEF TypeOK, authority, credentialVars
<1>2. Keyed'
  BY <1>a, <1>b, <1>c, <1>d DEF Keyed, KeyLimit, SignInMethodRemains, credentialVars
<1>3. Pending'
  BY <1>a, <1>b, <1>c, <1>d DEF TypeOK, Pending
<1>4. Written'
  BY <1>a, <1>b, <1>c, <1>d DEF TypeOK, Written, credentialVars
<1>5. Stored'
  BY <1>a, <1>b, <1>c, <1>d DEF TypeOK, Stored, Ceremonies, ceremonyVars
<1>6. Offered'
  BY <1>a, <1>b, <1>c, <1>d DEF TypeOK, Offered, Stored, Ceremonies, ceremonyVars
<1>7. Taken'
  BY <1>a, <1>b, <1>c, <1>d DEF TypeOK, Taken, Stored, Offered, Ceremonies, Jobs, Job,
     NoJob, ceremonyVars
<1>8. Backed'
  BY <1>a, <1>b, <1>c, <1>d DEF TypeOK, Backed, Stored, Offered, Ceremonies, Job, NoJob
<1>9. Redeemed'
  BY <1>a, <1>b, <1>c, <1>d DEF TypeOK, Redeemed, Written, Pending, Secrets, Jobs, Job,
     NoJob, credentialVars
<1>10. SingleUse'
  BY <1>a, <1>b, <1>c, <1>d DEF TypeOK, SingleUse, Taken, Redeemed, Pending, Ceremonies,
     Jobs, Job, NoJob
<1>. QED
  BY <1>1, <1>2, <1>3, <1>4, <1>5, <1>6, <1>7, <1>8, <1>9, <1>10

(* A change of password or of the recovery key is proved. *)
LEMMA ProveChangeInv ==
    ASSUME Inv, NEW r \in Requests, ProveChange(r)
    PROVE  Inv'
<1>. USE CredentialAssumption DEF Inv, ProveChange, Await
<1>1. TypeOK'
  BY DEF TypeOK, Secrets, AllKeys, Actions, Ceremonies, Jobs, Job, NoJob, AddKey, Statuses,
     authority, credentialVars, ceremonyVars
<1>2. Keyed'
  BY DEF Keyed, KeyLimit, SignInMethodRemains, credentialVars
<1>3. Pending'
  BY DEF TypeOK, Pending
<1>4. Written'
  BY DEF TypeOK, Written, credentialVars
<1>5. Stored'
  BY DEF TypeOK, Stored, Ceremonies, ceremonyVars
<1>6. Offered'
  BY DEF TypeOK, Offered, Stored, Ceremonies, ceremonyVars
<1>7. Taken'
  BY DEF TypeOK, Taken, Stored, Offered, Ceremonies, Jobs, Job, NoJob, ceremonyVars
<1>8. Backed'
  BY DEF TypeOK, Backed, Stored, Offered, Ceremonies, Job, NoJob
<1>9. Redeemed'
  BY DEF TypeOK, Redeemed, Written, Pending, Secrets, Jobs, Job, NoJob, credentialVars
<1>10. SingleUse'
  BY DEF TypeOK, SingleUse, Taken, Redeemed, Pending, Ceremonies, Jobs, Job, NoJob
<1>. QED
  BY <1>1, <1>2, <1>3, <1>4, <1>5, <1>6, <1>7, <1>8, <1>9, <1>10

(* A recovery key is looked up. *)
LEMMA ProveRecoveryInv ==
    ASSUME Inv, NEW r \in Requests, ProveRecovery(r)
    PROVE  Inv'
<1>. USE CredentialAssumption DEF Inv, ProveRecovery, Await
<1>1. TypeOK'
  BY DEF TypeOK, Secrets, AllKeys, Actions, Ceremonies, Jobs, Job, NoJob, AddKey, Statuses,
     authority, credentialVars, ceremonyVars
<1>2. Keyed'
  BY DEF Keyed, KeyLimit, SignInMethodRemains, credentialVars
<1>3. Pending'
  BY DEF TypeOK, Pending
<1>4. Written'
  BY DEF TypeOK, Written, credentialVars
<1>5. Stored'
  BY DEF TypeOK, Stored, Ceremonies, ceremonyVars
<1>6. Offered'
  BY DEF TypeOK, Offered, Stored, Ceremonies, ceremonyVars
<1>7. Taken'
  BY DEF TypeOK, Taken, Stored, Offered, Ceremonies, Jobs, Job, NoJob, ceremonyVars
<1>8. Backed'
  BY DEF TypeOK, Backed, Stored, Offered, Ceremonies, Job, NoJob
<1>9. Redeemed'
  BY DEF TypeOK, Redeemed, Written, Pending, Secrets, Jobs, Job, NoJob, credentialVars
<1>10. SingleUse'
  BY DEF TypeOK, SingleUse, Taken, Redeemed, Pending, Ceremonies, Jobs, Job, NoJob
<1>. QED
  BY <1>1, <1>2, <1>3, <1>4, <1>5, <1>6, <1>7, <1>8, <1>9, <1>10

(* A passkey signs in. *)
LEMMA AssertSignInInv ==
    ASSUME Inv, NEW r \in Requests, AssertSignIn(r)
    PROVE  Inv'
<1>. USE CredentialAssumption DEF Inv, AssertSignIn, Await
<1>1. TypeOK'
  BY DEF TypeOK, Secrets, AllKeys, Actions, Ceremonies, Jobs, Job, NoJob, AddKey, Statuses,
     authority, credentialVars, ceremonyVars
<1>2. Keyed'
  BY DEF Keyed, KeyLimit, SignInMethodRemains, credentialVars
<1>3. Pending'
  BY DEF TypeOK, Pending
<1>4. Written'
  BY DEF TypeOK, Written, credentialVars
<1>5. Stored'
  BY DEF TypeOK, Stored, Ceremonies, ceremonyVars
<1>6. Offered'
  BY DEF TypeOK, Offered, Stored, Ceremonies, ceremonyVars
<1>7. Taken'
  BY DEF TypeOK, Taken, Stored, Offered, Ceremonies, Jobs, Job, NoJob, ceremonyVars
<1>8. Backed'
  BY DEF TypeOK, Backed, Stored, Offered, Ceremonies, Job, NoJob
<1>9. Redeemed'
  BY DEF TypeOK, Redeemed, Written, Pending, Secrets, Jobs, Job, NoJob, credentialVars
<1>10. SingleUse'
  BY DEF TypeOK, SingleUse, Taken, Redeemed, Pending, Ceremonies, Jobs, Job, NoJob
<1>. QED
  BY <1>1, <1>2, <1>3, <1>4, <1>5, <1>6, <1>7, <1>8, <1>9, <1>10

(* A registration is prepared. *)
LEMMA PrepareInv ==
    ASSUME Inv, NEW r \in Requests, pc[r] \in {"proved", "asserted"}, Prepare(r)
    PROVE  Inv'
<1>. USE CredentialAssumption DEF Inv, Prepare, Store
<1>1. TypeOK'
  BY DEF TypeOK, Secrets, AllKeys, Actions, Ceremonies, Jobs, Job, NoJob, AddKey, Statuses,
     authority, credentialVars, ceremonyVars
<1>2. Keyed'
  BY DEF Keyed, KeyLimit, SignInMethodRemains, credentialVars
<1>3. Pending'
  BY DEF TypeOK, Pending
<1>4. Written'
  BY DEF TypeOK, Written, credentialVars
<1>5. Stored'
  BY DEF TypeOK, Stored, Ceremonies, ceremonyVars
<1>6. Offered'
  BY DEF TypeOK, Offered, Stored, Ceremonies, ceremonyVars
<1>7. Taken'
  BY DEF TypeOK, Taken, Stored, Offered, Ceremonies, Jobs, Job, NoJob, ceremonyVars
<1>8. Backed'
  BY DEF TypeOK, Backed, Stored, Offered, Ceremonies, Job, NoJob
<1>9. Redeemed'
  BY DEF TypeOK, Redeemed, Written, Pending, Secrets, Jobs, Job, NoJob, credentialVars
<1>10. SingleUse'
  BY DEF TypeOK, SingleUse, Taken, Redeemed, Pending, Ceremonies, Jobs, Job, NoJob
<1>. QED
  BY <1>1, <1>2, <1>3, <1>4, <1>5, <1>6, <1>7, <1>8, <1>9, <1>10

(* A new recovery key is written and sent. *)
LEMMA ReplaceRecoveryInv ==
    ASSUME Inv, NEW r \in Requests, pc[r] \in {"proved", "asserted", "keeping"}, ReplaceRecovery(r)
    PROVE  Inv'
<1>. USE CredentialAssumption DEF Inv, ReplaceRecovery, Finish
<1>1. TypeOK'
  BY DEF TypeOK, Secrets, AllKeys, Actions, Ceremonies, Jobs, Job, NoJob, AddKey, Statuses,
     authority, credentialVars, ceremonyVars
<1>2. Keyed'
  BY DEF Keyed, KeyLimit, SignInMethodRemains, credentialVars
<1>3. Pending'
  BY DEF TypeOK, Pending
<1>4. Written'
  BY DEF TypeOK, Written, credentialVars
<1>5. Stored'
  BY DEF TypeOK, Stored, Ceremonies, ceremonyVars
<1>6. Offered'
  BY DEF TypeOK, Offered, Stored, Ceremonies, ceremonyVars
<1>7. Taken'
  BY DEF TypeOK, Taken, Stored, Offered, Ceremonies, Jobs, Job, NoJob, ceremonyVars
<1>8. Backed'
  BY DEF TypeOK, Backed, Stored, Offered, Ceremonies, Job, NoJob
<1>9. Redeemed'
  BY DEF TypeOK, Redeemed, Written, Pending, Secrets, Jobs, Job, NoJob, credentialVars
<1>10. SingleUse'
  BY DEF TypeOK, SingleUse, Taken, Redeemed, Pending, Ceremonies, Jobs, Job, NoJob
<1>. QED
  BY <1>1, <1>2, <1>3, <1>4, <1>5, <1>6, <1>7, <1>8, <1>9, <1>10

(* A passkey is removed. *)
LEMMA RemoveKeyInv ==
    ASSUME Inv, NEW r \in Requests, pc[r] \in {"proved", "asserted"}, RemoveKey(r)
    PROVE  Inv'
<1>. USE CredentialAssumption DEF Inv, RemoveKey, Revoke, Bump, Present, Finish
<1>1. TypeOK'
  <2>1. /\ status' \in [Sids -> Statuses] /\ stamp' \in [Sids -> Nat] /\ version' \in Nat
    BY DEF TypeOK, Statuses, authority
  <2>2. /\ pc' \in [Requests -> {"idle", "proved", "asserted", "enrolling", "changing", "keeping",
                            "redeeming", "signing", "storing", "done"}]
        /\ won' \in [Requests -> {"nothing", "wrote", "replaced", "redeemed", "signed_in"}]
    BY DEF TypeOK
  <2>3. job' \in [Requests -> Jobs]
    BY DEF TypeOK, Jobs, NoJob, Job, AddKey, Actions, Secrets, AllKeys
  <2>4. /\ password' \in Secrets \cup {None} /\ recovery' \in Secrets \cup {None}
        /\ keys' \subseteq AllKeys
    BY DEF TypeOK, Secrets, AllKeys, credentialVars
  <2>. QED
    BY <2>1, <2>2, <2>3, <2>4 DEF TypeOK, ceremonyVars
<1>2. Keyed'
  <2>1. keys' = keys \ {job[r].action.target} /\ job[r].action.target \in keys
    BY DEF Removable
  <2>2. /\ IsFiniteSet(keys')
        /\ Cardinality(keys') = Cardinality(keys) - 1
    BY <2>1, FS_RemoveElement DEF Keyed
  <2>3. Cardinality(keys) \in Nat
    BY FS_CardinalityType DEF Keyed
  <2>4. KeyLimit'
    BY <2>2, <2>3 DEF Keyed, KeyLimit
  <2>5. SignInMethodRemains'
    <3>1. CASE password # None
      BY <3>1 DEF SignInMethodRemains
    <3>2. CASE Cardinality(keys) > 1
      <4>1. Cardinality(keys') # 0
        BY <2>2, <2>3, <3>2
      <4>. QED
        BY <4>1, FS_EmptySet DEF SignInMethodRemains
    <3>. QED
      BY <3>1, <3>2 DEF Removable
  <2>. QED
    BY <2>2, <2>4, <2>5 DEF Keyed
<1>3. Pending'
  BY DEF TypeOK, Pending
<1>4. Written'
  BY DEF TypeOK, Written, credentialVars
<1>5. Stored'
  BY DEF TypeOK, Stored, Ceremonies, ceremonyVars
<1>6. Offered'
  BY DEF TypeOK, Offered, Stored, Ceremonies, ceremonyVars
<1>7. Taken'
  BY DEF TypeOK, Taken, Stored, Offered, Ceremonies, Jobs, Job, NoJob, ceremonyVars
<1>8. Backed'
  BY DEF TypeOK, Backed, Stored, Offered, Ceremonies, Job, NoJob
<1>9. Redeemed'
  BY DEF TypeOK, Redeemed, Written, Pending, Secrets, Jobs, Job, NoJob, credentialVars
<1>10. SingleUse'
  BY DEF TypeOK, SingleUse, Taken, Redeemed, Pending, Ceremonies, Jobs, Job, NoJob
<1>. QED
  BY <1>1, <1>2, <1>3, <1>4, <1>5, <1>6, <1>7, <1>8, <1>9, <1>10

(* What was proved is applied. *)
LEMMA ApplyInv ==
    ASSUME Inv, NEW r \in Requests, pc[r] \in {"proved", "asserted"}, Apply(r)
    PROVE  Inv'
  BY PrepareInv, ReplaceRecoveryInv, RemoveKeyInv DEF Apply

(* A prepared registration commits and is sent. *)
LEMMA RegistrationCommitInv ==
    ASSUME Inv, NEW r \in Requests, RegistrationCommit(r)
    PROVE  Inv'
<1>. USE CredentialAssumption DEF Inv, RegistrationCommit, Backup, Finish
<1>1. TypeOK'
  BY DEF TypeOK, Secrets, AllKeys, Actions, Ceremonies, Jobs, Job, NoJob, AddKey, Statuses,
     authority, credentialVars, ceremonyVars
<1>2. Keyed'
  BY DEF Keyed, KeyLimit, SignInMethodRemains, credentialVars
<1>3. Pending'
  BY DEF TypeOK, Pending
<1>4. Written'
  BY DEF TypeOK, Written, credentialVars
<1>5. Stored'
  BY DEF TypeOK, Stored, Ceremonies, ceremonyVars
<1>6. Offered'
  <2>1. offered' = offered \cup {r} /\ saved \subseteq saved' /\ ceremonies' = ceremonies
    BY DEF ceremonyVars
  <2>2. \A q \in offered' : pc'[q] = "done"
    BY <2>1 DEF TypeOK, Offered
  <2>3. job[r].action.op = "replace" => r \in saved'
    OBVIOUS
  <2>4. ASSUME NEW c \in ceremonies, c.kind = "register", c.action.op = "replace", c.id = r
        PROVE  r \in saved'
    BY <2>3, <2>4 DEF Stored
  <2>. QED
    BY <2>1, <2>2, <2>4 DEF Offered
<1>7. Taken'
  BY DEF TypeOK, Taken, Stored, Offered, Ceremonies, Jobs, Job, NoJob, ceremonyVars
<1>8. Backed'
  BY DEF TypeOK, Backed, Stored, Offered, Ceremonies, Job, NoJob
<1>9. Redeemed'
  BY DEF TypeOK, Redeemed, Written, Pending, Secrets, Jobs, Job, NoJob, credentialVars
<1>10. SingleUse'
  BY DEF TypeOK, SingleUse, Taken, Redeemed, Pending, Ceremonies, Jobs, Job, NoJob
<1>. QED
  BY <1>1, <1>2, <1>3, <1>4, <1>5, <1>6, <1>7, <1>8, <1>9, <1>10

(* It is reported as failed. *)
LEMMA RegistrationFailsInv ==
    ASSUME Inv, NEW r \in Requests, RegistrationFails(r)
    PROVE  Inv'
<1>. USE CredentialAssumption DEF Inv, RegistrationFails, Backup, Ours, Finish
<1>1. TypeOK'
  BY DEF TypeOK, Secrets, AllKeys, Actions, Ceremonies, Jobs, Job, NoJob, AddKey, Statuses,
     authority, credentialVars, ceremonyVars
<1>2. Keyed'
  BY DEF Keyed, KeyLimit, SignInMethodRemains, credentialVars
<1>3. Pending'
  BY DEF TypeOK, Pending
<1>4. Written'
  BY DEF TypeOK, Written, credentialVars
<1>5. Stored'
  BY DEF TypeOK, Stored, Ceremonies, ceremonyVars
<1>6. Offered'
  BY DEF TypeOK, Offered, Stored, Ceremonies, ceremonyVars
<1>7. Taken'
  BY DEF TypeOK, Taken, Stored, Offered, Ceremonies, Jobs, Job, NoJob, ceremonyVars
<1>8. Backed'
  BY DEF TypeOK, Backed, Stored, Offered, Ceremonies, Job, NoJob
<1>9. Redeemed'
  BY DEF TypeOK, Redeemed, Written, Pending, Secrets, Jobs, Job, NoJob, credentialVars
<1>10. SingleUse'
  BY DEF TypeOK, SingleUse, Taken, Redeemed, Pending, Ceremonies, Jobs, Job, NoJob
<1>. QED
  BY <1>1, <1>2, <1>3, <1>4, <1>5, <1>6, <1>7, <1>8, <1>9, <1>10

(* It is abandoned. *)
LEMMA RegistrationDroppedInv ==
    ASSUME Inv, NEW r \in Requests, RegistrationDropped(r)
    PROVE  Inv'
<1>. USE CredentialAssumption DEF Inv, RegistrationDropped, Backup, Finish
<1>1. TypeOK'
  BY DEF TypeOK, Secrets, AllKeys, Actions, Ceremonies, Jobs, Job, NoJob, AddKey, Statuses,
     authority, credentialVars, ceremonyVars
<1>2. Keyed'
  BY DEF Keyed, KeyLimit, SignInMethodRemains, credentialVars
<1>3. Pending'
  BY DEF TypeOK, Pending
<1>4. Written'
  BY DEF TypeOK, Written, credentialVars
<1>5. Stored'
  BY DEF TypeOK, Stored, Ceremonies, ceremonyVars
<1>6. Offered'
  BY DEF TypeOK, Offered, Stored, Ceremonies, ceremonyVars
<1>7. Taken'
  BY DEF TypeOK, Taken, Stored, Offered, Ceremonies, Jobs, Job, NoJob, ceremonyVars
<1>8. Backed'
  BY DEF TypeOK, Backed, Stored, Offered, Ceremonies, Job, NoJob
<1>9. Redeemed'
  BY DEF TypeOK, Redeemed, Written, Pending, Secrets, Jobs, Job, NoJob, credentialVars
<1>10. SingleUse'
  BY DEF TypeOK, SingleUse, Taken, Redeemed, Pending, Ceremonies, Jobs, Job, NoJob
<1>. QED
  BY <1>1, <1>2, <1>3, <1>4, <1>5, <1>6, <1>7, <1>8, <1>9, <1>10

(* A passkey is added below the limit. *)
LEMMA EnrollAddedInv ==
    ASSUME Inv, NEW r \in Requests, EnrollAdded(r)
    PROVE  Inv'
<1>. USE CredentialAssumption DEF Inv, EnrollAdded, Locks, Finish
<1>1. TypeOK'
  BY DEF TypeOK, Secrets, AllKeys, Actions, Ceremonies, Jobs, Job, NoJob, AddKey, Statuses,
     authority, credentialVars, ceremonyVars
<1>2. Keyed'
  <2>1. keys' = keys \cup {r} /\ Cardinality(keys) < MaxKeys
    BY DEF StillSpare, Spare
  <2>2. /\ IsFiniteSet(keys')
        /\ Cardinality(keys') = Cardinality(keys) \/ Cardinality(keys') = Cardinality(keys) + 1
    BY <2>1, FS_AddElement DEF Keyed
  <2>3. Cardinality(keys) \in Nat
    BY FS_CardinalityType DEF Keyed
  <2>4. KeyLimit'
    BY <2>1, <2>2, <2>3 DEF KeyLimit
  <2>. QED
    BY <2>1, <2>2, <2>4 DEF Keyed, SignInMethodRemains
<1>3. Pending'
  BY DEF TypeOK, Pending
<1>4. Written'
  BY DEF TypeOK, Written, credentialVars
<1>5. Stored'
  BY DEF TypeOK, Stored, Ceremonies, ceremonyVars
<1>6. Offered'
  BY DEF TypeOK, Offered, Stored, Ceremonies, ceremonyVars
<1>7. Taken'
  BY DEF TypeOK, Taken, Stored, Offered, Ceremonies, Jobs, Job, NoJob, ceremonyVars
<1>8. Backed'
  BY DEF TypeOK, Backed, Stored, Offered, Ceremonies, Job, NoJob
<1>9. Redeemed'
  BY DEF TypeOK, Redeemed, Written, Pending, Secrets, Jobs, Job, NoJob, credentialVars
<1>10. SingleUse'
  BY DEF TypeOK, SingleUse, Taken, Redeemed, Pending, Ceremonies, Jobs, Job, NoJob
<1>. QED
  BY <1>1, <1>2, <1>3, <1>4, <1>5, <1>6, <1>7, <1>8, <1>9, <1>10

(* A passkey is replaced. *)
LEMMA EnrollReplacedInv ==
    ASSUME Inv, NEW r \in Requests, EnrollReplaced(r)
    PROVE  Inv'
<1>. USE CredentialAssumption DEF Inv, EnrollReplaced, Locks, Revoke, Bump, Present, Finish
<1>1. TypeOK'
  <2>1. /\ status' \in [Sids -> Statuses] /\ stamp' \in [Sids -> Nat] /\ version' \in Nat
    BY DEF TypeOK, Statuses, authority
  <2>2. /\ pc' \in [Requests -> {"idle", "proved", "asserted", "enrolling", "changing", "keeping",
                            "redeeming", "signing", "storing", "done"}]
        /\ won' \in [Requests -> {"nothing", "wrote", "replaced", "redeemed", "signed_in"}]
    BY DEF TypeOK
  <2>3. job' \in [Requests -> Jobs]
    BY DEF TypeOK, Jobs, NoJob, Job, AddKey, Actions, Secrets, AllKeys
  <2>4. /\ password' \in Secrets \cup {None} /\ recovery' \in Secrets \cup {None}
        /\ keys' \subseteq AllKeys
    BY DEF TypeOK, Secrets, AllKeys, credentialVars
  <2>. QED
    BY <2>1, <2>2, <2>3, <2>4 DEF TypeOK, ceremonyVars
<1>2. Keyed'
  <2>. DEFINE k == job[r].action.target
              rest == keys \ {k}
  <2>1. k \in keys /\ keys' = rest \cup {r}
    OBVIOUS
  <2>2. IsFiniteSet(rest) /\ Cardinality(rest) = Cardinality(keys) - 1
    BY <2>1, FS_RemoveElement DEF Keyed
  <2>3. /\ IsFiniteSet(rest \cup {r})
        /\ \/ Cardinality(rest \cup {r}) = Cardinality(rest)
           \/ Cardinality(rest \cup {r}) = Cardinality(rest) + 1
    BY <2>2, FS_AddElement
  <2>4. Cardinality(keys) \in Nat /\ Cardinality(rest) \in Nat
    BY <2>2, FS_CardinalityType DEF Keyed
  <2>5. KeyLimit'
    BY <2>1, <2>2, <2>3, <2>4 DEF KeyLimit, Keyed
  <2>. QED
    BY <2>1, <2>3, <2>5 DEF Keyed, SignInMethodRemains
<1>3. Pending'
  BY DEF TypeOK, Pending
<1>4. Written'
  BY DEF TypeOK, Written, credentialVars
<1>5. Stored'
  BY DEF TypeOK, Stored, Ceremonies, ceremonyVars
<1>6. Offered'
  BY DEF TypeOK, Offered, Stored, Ceremonies, ceremonyVars
<1>7. Taken'
  BY DEF TypeOK, Taken, Stored, Offered, Ceremonies, Jobs, Job, NoJob, ceremonyVars
<1>8. Backed'
  BY DEF TypeOK, Backed, Stored, Offered, Ceremonies, Job, NoJob
<1>9. Redeemed'
  BY DEF TypeOK, Redeemed, Written, Pending, Secrets, Jobs, Job, NoJob, credentialVars
<1>10. SingleUse'
  BY DEF TypeOK, SingleUse, Taken, Redeemed, Pending, Ceremonies, Jobs, Job, NoJob
<1>. QED
  BY <1>1, <1>2, <1>3, <1>4, <1>5, <1>6, <1>7, <1>8, <1>9, <1>10

(* The password changes. *)
LEMMA ChangeInv ==
    ASSUME Inv, NEW r \in Requests, Change(r)
    PROVE  Inv'
<1>. USE CredentialAssumption DEF Inv, Change, Locks, Revoke, Bump, Present, Finish
<1>1. TypeOK'
  <2>1. /\ status' \in [Sids -> Statuses] /\ stamp' \in [Sids -> Nat] /\ version' \in Nat
    BY DEF TypeOK, Statuses, authority
  <2>2. /\ pc' \in [Requests -> {"idle", "proved", "asserted", "enrolling", "changing", "keeping",
                            "redeeming", "signing", "storing", "done"}]
        /\ won' \in [Requests -> {"nothing", "wrote", "replaced", "redeemed", "signed_in"}]
    BY DEF TypeOK
  <2>3. job' \in [Requests -> Jobs]
    BY DEF TypeOK, Jobs, NoJob, Job, AddKey, Actions, Secrets, AllKeys
  <2>4. /\ password' \in Secrets \cup {None} /\ recovery' \in Secrets \cup {None}
        /\ keys' \subseteq AllKeys
    BY DEF TypeOK, Secrets, AllKeys, credentialVars
  <2>. QED
    BY <2>1, <2>2, <2>3, <2>4 DEF TypeOK, ceremonyVars
<1>2. Keyed'
  BY DEF Keyed, KeyLimit, SignInMethodRemains, credentialVars
<1>3. Pending'
  BY DEF TypeOK, Pending
<1>4. Written'
  BY DEF TypeOK, Written, credentialVars
<1>5. Stored'
  BY DEF TypeOK, Stored, Ceremonies, ceremonyVars
<1>6. Offered'
  BY DEF TypeOK, Offered, Stored, Ceremonies, ceremonyVars
<1>7. Taken'
  BY DEF TypeOK, Taken, Stored, Offered, Ceremonies, Jobs, Job, NoJob, ceremonyVars
<1>8. Backed'
  BY DEF TypeOK, Backed, Stored, Offered, Ceremonies, Job, NoJob
<1>9. Redeemed'
  BY DEF TypeOK, Redeemed, Written, Pending, Secrets, Jobs, Job, NoJob, credentialVars
<1>10. SingleUse'
  BY DEF TypeOK, SingleUse, Taken, Redeemed, Pending, Ceremonies, Jobs, Job, NoJob
<1>. QED
  BY <1>1, <1>2, <1>3, <1>4, <1>5, <1>6, <1>7, <1>8, <1>9, <1>10

(* A recovery key is redeemed. *)
LEMMA RedeemInv ==
    ASSUME Inv, NEW r \in Requests, Redeem(r)
    PROVE  Inv'
<1>. USE CredentialAssumption DEF Inv, Redeem, Locks, Consumed, Revoke, Bump, Present, Finish
<1>1. TypeOK'
  <2>1. /\ status' \in [Sids -> Statuses] /\ stamp' \in [Sids -> Nat] /\ version' \in Nat
    BY DEF TypeOK, Statuses, authority
  <2>2. /\ pc' \in [Requests -> {"idle", "proved", "asserted", "enrolling", "changing", "keeping",
                            "redeeming", "signing", "storing", "done"}]
        /\ won' \in [Requests -> {"nothing", "wrote", "replaced", "redeemed", "signed_in"}]
    BY DEF TypeOK
  <2>3. job' \in [Requests -> Jobs]
    BY DEF TypeOK, Jobs, NoJob, Job, AddKey, Actions, Secrets, AllKeys
  <2>4. /\ password' \in Secrets \cup {None} /\ recovery' \in Secrets \cup {None}
        /\ keys' \subseteq AllKeys
    BY DEF TypeOK, Secrets, AllKeys, credentialVars
  <2>. QED
    BY <2>1, <2>2, <2>3, <2>4 DEF TypeOK, ceremonyVars
<1>2. Keyed'
  BY DEF Keyed, KeyLimit, SignInMethodRemains, credentialVars
<1>3. Pending'
  BY DEF TypeOK, Pending
<1>4. Written'
  BY DEF TypeOK, Written, credentialVars
<1>5. Stored'
  BY DEF TypeOK, Stored, Ceremonies, ceremonyVars
<1>6. Offered'
  BY DEF TypeOK, Offered, Stored, Ceremonies, ceremonyVars
<1>7. Taken'
  BY DEF TypeOK, Taken, Stored, Offered, Ceremonies, Jobs, Job, NoJob, ceremonyVars
<1>8. Backed'
  BY DEF TypeOK, Backed, Stored, Offered, Ceremonies, Job, NoJob
<1>9. Redeemed'
  BY DEF TypeOK, Redeemed, Written, Pending, Secrets, Jobs, Job, NoJob, credentialVars
<1>10. SingleUse'
  BY DEF TypeOK, SingleUse, Taken, Redeemed, Pending, Ceremonies, Jobs, Job, NoJob
<1>. QED
  BY <1>1, <1>2, <1>3, <1>4, <1>5, <1>6, <1>7, <1>8, <1>9, <1>10

(* A passkey's sign-in commits. *)
LEMMA KeySignInInv ==
    ASSUME Inv, NEW r \in Requests, KeySignIn(r)
    PROVE  Inv'
<1>. USE CredentialAssumption DEF Inv, KeySignIn, Locks, SignIn, Finish
<1>1. TypeOK'
  <2>1. /\ status' \in [Sids -> Statuses] /\ stamp' \in [Sids -> Nat] /\ version' \in Nat
    BY DEF TypeOK, Statuses, authority
  <2>2. /\ pc' \in [Requests -> {"idle", "proved", "asserted", "enrolling", "changing", "keeping",
                            "redeeming", "signing", "storing", "done"}]
        /\ won' \in [Requests -> {"nothing", "wrote", "replaced", "redeemed", "signed_in"}]
    BY DEF TypeOK
  <2>3. job' \in [Requests -> Jobs]
    BY DEF TypeOK, Jobs, NoJob, Job, AddKey, Actions, Secrets, AllKeys
  <2>4. /\ password' \in Secrets \cup {None} /\ recovery' \in Secrets \cup {None}
        /\ keys' \subseteq AllKeys
    BY DEF TypeOK, Secrets, AllKeys, credentialVars
  <2>5. opener' \in [Sids -> AllKeys \cup {None}]
    <3>1. job[r].secret \in AllKeys
      BY DEF TypeOK, Usable
    <3>. QED
      BY <3>1 DEF TypeOK
  <2>. QED
    BY <2>1, <2>2, <2>3, <2>4, <2>5 DEF TypeOK, ceremonyVars
<1>2. Keyed'
  BY DEF Keyed, KeyLimit, SignInMethodRemains, credentialVars
<1>3. Pending'
  BY DEF TypeOK, Pending
<1>4. Written'
  BY DEF TypeOK, Written, credentialVars
<1>5. Stored'
  BY DEF TypeOK, Stored, Ceremonies, ceremonyVars
<1>6. Offered'
  BY DEF TypeOK, Offered, Stored, Ceremonies, ceremonyVars
<1>7. Taken'
  BY DEF TypeOK, Taken, Stored, Offered, Ceremonies, Jobs, Job, NoJob, ceremonyVars
<1>8. Backed'
  BY DEF TypeOK, Backed, Stored, Offered, Ceremonies, Job, NoJob
<1>9. Redeemed'
  BY DEF TypeOK, Redeemed, Written, Pending, Secrets, Jobs, Job, NoJob, credentialVars
<1>10. SingleUse'
  BY DEF TypeOK, SingleUse, Taken, Redeemed, Pending, Ceremonies, Jobs, Job, NoJob
<1>. QED
  BY <1>1, <1>2, <1>3, <1>4, <1>5, <1>6, <1>7, <1>8, <1>9, <1>10

(* Sessions come and go. *)
LEMMA SessionInv ==
    ASSUME Inv, PasswordSignIn \/ SessionEnds
    PROVE  Inv'
<1>. USE CredentialAssumption DEF Inv, PasswordSignIn, SessionEnds, SignIn, End
<1>1. TypeOK'
  BY DEF TypeOK, Secrets, AllKeys, Actions, Ceremonies, Jobs, Job, NoJob, AddKey, Statuses,
     authority, credentialVars, ceremonyVars, requestVars
<1>2. Keyed'
  BY DEF Keyed, KeyLimit, SignInMethodRemains, credentialVars, requestVars
<1>3. Pending'
  BY DEF TypeOK, Pending, requestVars
<1>4. Written'
  BY DEF TypeOK, Written, credentialVars, requestVars
<1>5. Stored'
  BY DEF TypeOK, Stored, Ceremonies, ceremonyVars, requestVars
<1>6. Offered'
  BY DEF TypeOK, Offered, Stored, Ceremonies, ceremonyVars, requestVars
<1>7. Taken'
  BY DEF TypeOK, Taken, Stored, Offered, Ceremonies, Jobs, Job, NoJob, ceremonyVars,
     requestVars
<1>8. Backed'
  BY DEF TypeOK, Backed, Stored, Offered, Ceremonies, Job, NoJob, requestVars
<1>9. Redeemed'
  BY DEF TypeOK, Redeemed, Written, Pending, Secrets, Jobs, Job, NoJob, credentialVars,
     requestVars
<1>10. SingleUse'
  BY DEF TypeOK, SingleUse, Taken, Redeemed, Pending, Ceremonies, Jobs, Job, NoJob,
     requestVars
<1>. QED
  BY <1>1, <1>2, <1>3, <1>4, <1>5, <1>6, <1>7, <1>8, <1>9, <1>10

(* A ceremony expires. *)
LEMMA CeremonyExpiresInv ==
    ASSUME Inv, CeremonyExpires
    PROVE  Inv'
<1>. USE CredentialAssumption DEF Inv, CeremonyExpires
<1>1. TypeOK'
  BY DEF TypeOK, Secrets, AllKeys, Actions, Ceremonies, Jobs, Job, NoJob, AddKey, Statuses,
     authority, credentialVars, ceremonyVars, requestVars
<1>2. Keyed'
  BY DEF Keyed, KeyLimit, SignInMethodRemains, credentialVars, requestVars
<1>3. Pending'
  BY DEF TypeOK, Pending, requestVars
<1>4. Written'
  BY DEF TypeOK, Written, credentialVars, requestVars
<1>5. Stored'
  BY DEF TypeOK, Stored, Ceremonies, ceremonyVars, requestVars
<1>6. Offered'
  BY DEF TypeOK, Offered, Stored, Ceremonies, ceremonyVars, requestVars
<1>7. Taken'
  BY DEF TypeOK, Taken, Stored, Offered, Ceremonies, Jobs, Job, NoJob, ceremonyVars,
     requestVars
<1>8. Backed'
  BY DEF TypeOK, Backed, Stored, Offered, Ceremonies, Job, NoJob, requestVars
<1>9. Redeemed'
  BY DEF TypeOK, Redeemed, Written, Pending, Secrets, Jobs, Job, NoJob, credentialVars,
     requestVars
<1>10. SingleUse'
  BY DEF TypeOK, SingleUse, Taken, Redeemed, Pending, Ceremonies, Jobs, Job, NoJob,
     requestVars
<1>. QED
  BY <1>1, <1>2, <1>3, <1>4, <1>5, <1>6, <1>7, <1>8, <1>9, <1>10

----------------------------------------------------------------------------
(* The invariant. *)

(* Inv holds at the start. *)
LEMMA InitInv == Init => Inv
<1>. SUFFICES ASSUME Init
              PROVE  Inv
  OBVIOUS
<1>. USE CredentialAssumption DEF Init
<1>1. TypeOK
  BY DEF TypeOK, Secrets, AllKeys, Actions, Jobs, Job, NoJob, AddKey, Statuses
<1>2. Keyed
  BY DEF Keyed, KeyLimit, SignInMethodRemains
<1>3. Pending /\ Written /\ Stored /\ Offered /\ Taken /\ Backed /\ Redeemed /\ SingleUse
  BY DEF Pending, Written, Stored, Offered, Taken, Backed, Redeemed, SingleUse, NoJob, Job,
     AddKey
<1>. QED
  BY <1>1, <1>2, <1>3 DEF Inv

(* Every step of a request keeps Inv. *)
LEMMA StepInv ==
    ASSUME Inv, NEW r \in Requests, Step(r)
    PROVE  Inv'
<1>1. CASE ApplyProved(r) \/ ApplyAsserted(r)
  BY <1>1, ApplyInv DEF ApplyProved, ApplyAsserted, Locks
<1>2. CASE Keep(r)
  BY <1>2, ReplaceRecoveryInv DEF Keep, Locks
<1>3. CASE Fail(r)
  BY <1>3, FailInv DEF Fail
<1>. QED
  BY <1>1, <1>2, <1>3, ProvePasswordInv, StartCeremonyInv, AuthorizeTakeInv, EnrollTakeInv,
     ProveChangeInv, ProveRecoveryInv, AssertSignInInv, RegistrationCommitInv,
     RegistrationFailsInv, RegistrationDroppedInv, EnrollAddedInv, EnrollReplacedInv, ChangeInv,
     RedeemInv, KeySignInInv DEF Step

(* So does every step of the system, and a step of none of it. *)
LEMMA NextInv ==
    ASSUME Inv, [Next]_vars
    PROVE  Inv'
<1>1. CASE Next
  BY <1>1, StepInv, SessionInv, CeremonyExpiresInv DEF Next
<1>2. CASE UNCHANGED vars
  BY <1>2 DEF vars, authority, credentialVars, ceremonyVars, requestVars, Inv, TypeOK,
     Keyed,
     KeyLimit, SignInMethodRemains, Pending, Written, Stored, Offered, Taken, Backed, Redeemed,
     SingleUse
<1>. QED
  BY <1>1, <1>2

(* The inductive invariant holds of every reachable state: a ceremony, a     *)
(* recovery key and the limit mean at the commit what they meant before it.  *)
THEOREM InvHolds == Spec => []Inv
<1>1. Init => Inv
  BY InitInv
<1>2. Inv /\ [Next]_vars => Inv'
  BY NextInv
<1>. QED
  BY <1>1, <1>2, PTL DEF Spec

(* What a ceremony or a request has proved is well formed wherever it is     *)
(* used.                                                                     *)
THEOREM TypeCorrect == Spec => []TypeOK
<1>1. Inv => TypeOK
  BY DEF Inv
<1>. QED
  BY <1>1, InvHolds, PTL

(* The owner can always sign in, however removals, replacements and          *)
(* enrollments interleave (passkeys.rs:518-523).                             *)
THEOREM AWayInRemains == Spec => []SignInMethodRemains
<1>1. Inv => SignInMethodRemains
  BY DEF Inv, Keyed
<1>. QED
  BY <1>1, InvHolds, PTL

(* Registrations prepared below the limit do not exceed it together          *)
(* (passkeys.rs:590-595).                                                    *)
THEOREM KeyLimitHolds == Spec => []KeyLimit
<1>1. Inv => KeyLimit
  BY DEF Inv, Keyed
<1>. QED
  BY <1>1, InvHolds, PTL

(* A recovery key is redeemed once (account.rs:858-860) and a ceremony taken *)
(* once (webauthn.rs:254-255), by however many requests that overlap.        *)
THEOREM ProofsAreUsedOnce == Spec => []SingleUse
<1>1. Inv => SingleUse
  BY DEF Inv
<1>. QED
  BY <1>1, InvHolds, PTL

----------------------------------------------------------------------------
(* Action properties. *)

(* A step of the system that a request notices is its own. *)
LEMMA OwnStep ==
    ASSUME Inv, [Next]_vars, NEW r \in Requests,
           pc'[r] # pc[r] \/ won'[r] # won[r]
    PROVE  Step(r)
<1>. USE DEF Inv, TypeOK
<1>1. PICK q \in Requests : Step(q)
  BY DEF Next, PasswordSignIn, SessionEnds, CeremonyExpires, vars, requestVars
<1>2. /\ pc' = [pc EXCEPT ![q] = pc'[q]]
      /\ won' = [won EXCEPT ![q] = won'[q]]
  BY <1>1 DEF Step, ProvePassword, StartCeremony, AuthorizeTake, EnrollTake, ProveChange,
     ProveRecovery, AssertSignIn, ApplyProved, ApplyAsserted, Apply, Prepare, ReplaceRecovery,
     RemoveKey, RegistrationCommit, RegistrationFails, RegistrationDropped, EnrollAdded,
     EnrollReplaced, Change, Keep, Redeem, KeySignIn, Fail, Refuse, Await, Finish
<1>. QED
  BY <1>1, <1>2

(* The steps by which a request achieves something. *)
LEMMA Achieving ==
    ASSUME Inv, NEW r \in Requests, Step(r), won'[r] # "nothing"
    PROVE  \/ ApplyProved(r) \/ ApplyAsserted(r) \/ EnrollAdded(r) \/ EnrollReplaced(r)
           \/ Change(r) \/ Keep(r) \/ Redeem(r) \/ KeySignIn(r)
  BY DEF Inv, TypeOK, Pending, Step, ProvePassword, StartCeremony, AuthorizeTake,
     EnrollTake,
     ProveChange, ProveRecovery, AssertSignIn, RegistrationCommit, RegistrationFails,
     RegistrationDropped, Fail, Refuse, Await, Finish

(* What each of them achieves. *)
LEMMA Achieved ==
    ASSUME Inv, NEW r \in Requests
    PROVE  /\ ApplyProved(r) \/ ApplyAsserted(r) => won'[r] \in {"nothing", "wrote"}
           /\ EnrollAdded(r) \/ Change(r) \/ Keep(r) => won'[r] = "wrote"
           /\ EnrollReplaced(r) => won'[r] = "replaced"
           /\ Redeem(r) => won'[r] = "redeemed"
           /\ KeySignIn(r) => won'[r] = "signed_in"
<1>. USE DEF Inv, TypeOK, Finish
<1>1. ApplyProved(r) \/ ApplyAsserted(r) => won'[r] \in {"nothing", "wrote"}
  BY DEF ApplyProved, ApplyAsserted, Locks, Apply, Prepare, ReplaceRecovery, RemoveKey,
     Pending
<1>2. EnrollAdded(r) \/ Change(r) \/ Keep(r) => won'[r] = "wrote"
  BY DEF EnrollAdded, Change, Keep, ReplaceRecovery
<1>3. EnrollReplaced(r) => won'[r] = "replaced"
  BY DEF EnrollReplaced
<1>4. Redeem(r) => won'[r] = "redeemed"
  BY DEF Redeem
<1>5. KeySignIn(r) => won'[r] = "signed_in"
  BY DEF KeySignIn
<1>. QED
  BY <1>1, <1>2, <1>3, <1>4, <1>5

(* A passkey is replaced only while the recovery key shown for this          *)
(* replacement is the account's (passkeys.rs:455-467).                       *)
THEOREM ReplacementsAreBacked == Spec => ReplacementHasBackup
<1>1. Inv /\ [Next]_vars
        => [\A r \in Requests : won[r] # "replaced" /\ won'[r] = "replaced"
              => recovery' = job[r].backup /\ recovery' \in saved]_vars
  <2>. SUFFICES ASSUME Inv, [Next]_vars, NEW r \in Requests,
                       won[r] # "replaced", won'[r] = "replaced"
                PROVE  recovery' = job[r].backup /\ recovery' \in saved
    OBVIOUS
  <2>1. EnrollReplaced(r)
    BY OwnStep, Achieving, Achieved
  <2>. QED
    BY <2>1 DEF EnrollReplaced, Locks, BackupCurrent, Inv, Backed
<1>. QED
  BY <1>1, InvHolds, PTL DEF Spec, ReplacementHasBackup

(* A registration that is being stored holds the account's row, at the        *)
(* version it was authorized at: that is why its commit needs no check.      *)
Held ==
    \A r \in Requests : pc[r] = "storing" => holder = r /\ job[r].version = version

(* Whoever changes the version finds the row free, so nobody is storing.     *)
LEMMA HeldStep ==
    ASSUME Inv, Held, NEW r \in Requests, Step(r)
    PROVE  Held'
<1>. USE CredentialAssumption DEF Inv, TypeOK, Held, authority
<1>1. CASE ProvePassword(r) \/ ProveChange(r) \/ ProveRecovery(r) \/ AssertSignIn(r)
  BY <1>1 DEF ProvePassword, ProveChange, ProveRecovery, AssertSignIn, Await
<1>2. CASE StartCeremony(r)
  BY <1>2 DEF StartCeremony, Finish
<1>3. CASE AuthorizeTake(r) \/ EnrollTake(r)
  <2>1. pc' = [pc EXCEPT ![r] = pc'[r]] /\ pc'[r] # "storing"
    BY <1>3 DEF AuthorizeTake, EnrollTake, Await, Finish
  <2>2. job' = [job EXCEPT ![r] = job'[r]] /\ UNCHANGED <<version, holder>>
    BY <1>3 DEF AuthorizeTake, EnrollTake, Await, Finish
  <2>. QED
    BY <2>1, <2>2
<1>4. CASE Locks(r, pc[r]) /\ Prepare(r) /\ Owner(r)
  BY <1>4 DEF Locks, Prepare, Owner
<1>5. CASE /\ Locks(r, pc[r]) /\ \A q \in Requests \ {r} : pc'[q] = pc[q]
           /\ pc'[r] = "done"
  BY <1>5 DEF Locks
<1>6. CASE RegistrationCommit(r) \/ RegistrationFails(r) \/ RegistrationDropped(r)
  BY <1>6 DEF RegistrationCommit, RegistrationFails, RegistrationDropped, Finish
<1>7. CASE Fail(r)
  BY <1>7 DEF Fail, Refuse, Finish
<1>8. ASSUME ApplyProved(r) \/ ApplyAsserted(r)
      PROVE  Held'
  <2>1. CASE Prepare(r)
    BY <1>4, <1>8, <2>1 DEF ApplyProved, ApplyAsserted, Locks
  <2>2. CASE ReplaceRecovery(r) \/ RemoveKey(r)
    <3>1. pc' = [pc EXCEPT ![r] = "done"]
      BY <2>2 DEF ReplaceRecovery, RemoveKey, Finish
    <3>. QED
      BY <1>5, <1>8, <3>1 DEF ApplyProved, ApplyAsserted, Locks
  <2>. QED
    BY <1>8, <2>1, <2>2 DEF ApplyProved, ApplyAsserted, Apply
<1>9. ASSUME \/ EnrollAdded(r) \/ EnrollReplaced(r) \/ Change(r) \/ Keep(r) \/ Redeem(r)
             \/ KeySignIn(r)
      PROVE  Held'
  <2>1. pc' = [pc EXCEPT ![r] = "done"] /\ Locks(r, pc[r])
    BY <1>9 DEF EnrollAdded, EnrollReplaced, Change, Keep, ReplaceRecovery, Redeem, KeySignIn,
       Finish, Locks
  <2>. QED
    BY <1>5, <2>1
<1>. QED
  BY <1>1, <1>2, <1>3, <1>6, <1>7, <1>8, <1>9 DEF Step

(* Held holds of every reachable state. *)
LEMMA HeldHolds == Spec => []Held
<1>1. Init => Held
  BY DEF Init, Held
<1>2. Inv /\ Held /\ [Next]_vars => Held'
  <2>. SUFFICES ASSUME Inv, Held, [Next]_vars
                PROVE  Held'
    OBVIOUS
  <2>1. CASE \E r \in Requests : Step(r)
    BY <2>1, HeldStep
  <2>2. CASE PasswordSignIn \/ SessionEnds \/ CeremonyExpires
    BY <2>2 DEF PasswordSignIn, SessionEnds, CeremonyExpires, SignIn, End, authority,
       requestVars, Held
  <2>3. CASE UNCHANGED vars
    BY <2>3 DEF vars, authority, requestVars, Held
  <2>. QED
    BY <2>1, <2>2, <2>3 DEF Next
<1>. QED
  BY <1>1, <1>2, InvHolds, PTL DEF Spec

(* Credentials are changed by a request authorized at the version of the     *)
(* moment (passkeys.rs:548-549), at its commit too, or by a recovery key.    *)
THEOREM AuthorityIsCurrent == Spec => NoStaleAuthority
<1>1. Inv /\ Held /\ [Next]_vars
        => [credentialVars' # credentialVars
              => \E r \in Requests :
                   pc'[r] # pc[r] /\ (job[r].version = version \/ won'[r] = "redeemed")]_vars
  <2>. SUFFICES ASSUME Inv, Held, [Next]_vars, credentialVars' # credentialVars
                PROVE  \E r \in Requests :
                         pc'[r] # pc[r] /\ (job[r].version = version \/ won'[r] = "redeemed")
    OBVIOUS
  <2>1. PICK r \in Requests : Step(r)
    BY DEF Next, PasswordSignIn, SessionEnds, CeremonyExpires, vars
  <2>2. \/ ApplyProved(r) \/ ApplyAsserted(r) \/ EnrollAdded(r) \/ EnrollReplaced(r)
        \/ Change(r) \/ Keep(r) \/ Redeem(r)
        \/ RegistrationCommit(r) \/ RegistrationFails(r) \/ RegistrationDropped(r)
    BY <2>1 DEF Step, ProvePassword, StartCeremony, AuthorizeTake, EnrollTake, ProveChange,
       ProveRecovery, AssertSignIn, KeySignIn, Fail, Refuse
  <2>3. job[r].version = version \/ won'[r] = "redeemed"
    <3>1. CASE Redeem(r)
      BY <3>1, Achieved
    <3>2. CASE RegistrationCommit(r) \/ RegistrationFails(r) \/ RegistrationDropped(r)
      BY <3>2 DEF RegistrationCommit, RegistrationFails, RegistrationDropped, Held
    <3>. QED
      BY <2>2, <3>1, <3>2 DEF ApplyProved, ApplyAsserted, EnrollAdded, EnrollReplaced, Change,
         Keep, Owner
  <2>4. pc'[r] # pc[r]
    BY <2>2 DEF ApplyProved, ApplyAsserted, Locks, Apply, Prepare, ReplaceRecovery, RemoveKey,
       EnrollAdded, EnrollReplaced, Change, Keep, Redeem, RegistrationCommit,
       RegistrationFails, RegistrationDropped, Finish, Inv, TypeOK
  <2>. QED
    BY <2>3, <2>4
<1>. QED
  BY <1>1, InvHolds, HeldHolds, PTL DEF Spec, NoStaleAuthority

(* No session outlives the passkey that opened it, whether it was open when  *)
(* the key was removed or under way (routes.rs:727-729,                      *)
(* passkeys.rs:525-539).                                                     *)
THEOREM KeysTakeTheirSessions == Spec => []SessionsDieWithTheirKey
<1>1. Init => SessionsDieWithTheirKey
  BY CredentialAssumption DEF Init, SessionsDieWithTheirKey, Present
<1>2. Inv /\ SessionsDieWithTheirKey /\ [Next]_vars => SessionsDieWithTheirKey'
  <2>. SUFFICES ASSUME Inv, SessionsDieWithTheirKey, [Next]_vars
                PROVE  SessionsDieWithTheirKey'
    OBVIOUS
  <2>. USE DEF Inv, TypeOK, SessionsDieWithTheirKey, Present
  <2>1. CASE authority' = authority /\ opener' = opener /\ keys \subseteq keys'
    BY <2>1 DEF authority
  <2>2. CASE Bump /\ opener' = opener
    BY <2>2 DEF Bump, Statuses
  <2>3. CASE PasswordSignIn
    BY <2>3 DEF PasswordSignIn, SignIn, credentialVars
  <2>4. CASE SessionEnds
    BY <2>4 DEF SessionEnds, End, credentialVars
  <2>5. ASSUME NEW r \in Requests, KeySignIn(r)
        PROVE  SessionsDieWithTheirKey'
    BY <2>5 DEF KeySignIn, Usable, SignIn, credentialVars
  <2>6. CASE CeremonyExpires \/ UNCHANGED vars
    BY <2>1, <2>6 DEF CeremonyExpires, vars, credentialVars
  <2>7. ASSUME NEW r \in Requests, Step(r), ~KeySignIn(r)
        PROVE  \/ authority' = authority /\ opener' = opener /\ keys \subseteq keys'
               \/ Bump /\ opener' = opener
    BY <2>7 DEF Step, ProvePassword, StartCeremony, AuthorizeTake, EnrollTake, ProveChange,
       ProveRecovery, AssertSignIn, ApplyProved, ApplyAsserted, Apply, Prepare,
       ReplaceRecovery, RemoveKey, RegistrationCommit, RegistrationFails, RegistrationDropped,
       EnrollAdded, EnrollReplaced, Change, Keep, Redeem, Fail, Refuse, Revoke,
       credentialVars
  <2>. QED
    BY <2>1, <2>2, <2>3, <2>4, <2>5, <2>6, <2>7 DEF Next
<1>. QED
  BY <1>1, <1>2, InvHolds, PTL DEF Spec
==============================================================================
