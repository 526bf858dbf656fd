------------------------ MODULE AccountSessionsProofs ------------------------
(* Theorems about AccountSessions, for any sets of requests and any          *)
(* durations.                                                               *)
EXTENDS AccountSessions, TLAPS

(* A request that has not ended has no outcome; only an open transaction    *)
(* has written anything, and it holds the account's row.                    *)
Running ==
    \A r \in Requests :
        /\ outcome[r] # "none" => pc[r] = "done"
        /\ draft[r] # None \/ doomed[r] # {} => pc[r] = "writing"
        /\ pc[r] \in {"judged", "writing"} => lock = r
        /\ r \in SignIns /\ pc[r] = "writing" => draft[r] \in Rows

(* Who presented a token presented one that had left the server. *)
Presented ==
    \A r \in Refreshes \cup Logouts : pc[r] # "idle" => shown[r] \in minted

(* A token exists because its sign-in, or the rotation that minted it, was  *)
(* granted.                                                                 *)
Minting ==
    \A t \in minted :
        /\ t.family \in SignIns => outcome[t.family] = "granted"
        /\ t.by \in Refreshes => outcome[t.by] = "granted"

(* The rows that are there were issued, and at the current version. *)
Registered == \A s \in table : Issued(s) /\ stamp[s] = version

(* A token that was rotated is not current again. *)
Spent ==
    \A r \in Refreshes :
        outcome[r] = "granted" => row[shown[r].family].cur # shown[r].by

(* What a transaction found under the lock is still so. *)
Rotating(r) ==
    /\ shown[r].family \in table
    /\ row[shown[r].family].cur = shown[r].by
Held ==
    /\ \A r \in Requests : doomed[r] \subseteq table
    /\ \A r \in Refreshes : pc[r] = "judged" \/ draft[r] # None => Rotating(r)
    /\ \A r \in Refreshes : draft[r] # None => draft[r].cur = r
    /\ \A r \in SignIns : pc[r] = "writing" => seen[r].version = version
    /\ \A r \in Revokers : pc[r] = "writing"
         => seen[r].version = version /\ seen[r].sid \in table
    /\ \A r \in Changers : pc[r] = "writing" => doomed[r] = table

Consistent == Running /\ Presented /\ Minting /\ Registered /\ Spent /\ Held
Inv == TypeOK /\ Consistent /\ OneSuccessor /\ LogoutIsFinal

----------------------------------------------------------------------------
(* Every step keeps Inv. *)

(* A request fails and its transaction rolls back. *)
LEMMA FailInv ==
    ASSUME Inv, NEW r \in Requests, Fail(r)
    PROVE  Inv'
<1>. USE KindAssumption DEF Inv, Consistent, Fail, Refuse, End
<1>1. TypeOK'
  BY DEF TypeOK, Requests, Sids, Minters, Labels, Outcomes, store, sweeper, Rows,
     NothingSeen
<1>2. Running'
  BY DEF TypeOK, Running, Requests
<1>3. Presented'
  BY DEF TypeOK, Presented, Requests, store
<1>4. Minting'
  BY DEF TypeOK, Minting, Running, Requests, Tokens, store
<1>5. Registered'
  BY DEF TypeOK, Registered, Issued, store
<1>6. Spent'
  BY DEF TypeOK, Spent, Presented, Minting, Running, Requests, Tokens, store
<1>7. Held'
  BY DEF TypeOK, Held, Rotating, Running, Presented, Requests, Tokens, store
<1>8. OneSuccessor'
  BY DEF TypeOK, OneSuccessor, Spent, Held, Rotating, Running, Requests
<1>9. LogoutIsFinal'
  BY DEF TypeOK, LogoutIsFinal, Presented, Minting, Running, Requests, Tokens, store
<1>. QED
  BY <1>1, <1>2, <1>3, <1>4, <1>5, <1>6, <1>7, <1>8, <1>9

(* A sign-in reads the account. *)
LEMMA LoginVerifyInv ==
    ASSUME Inv, NEW r \in Requests, LoginVerify(r)
    PROVE  Inv'
<1>. USE KindAssumption DEF Inv, Consistent, LoginVerify
<1>1. TypeOK'
  BY DEF TypeOK, Requests, Sids, Minters, Labels, Outcomes, store, sweeper, Rows,
     NothingSeen
<1>2. Running'
  BY DEF TypeOK, Running, Requests
<1>3. Presented'
  BY DEF TypeOK, Presented, Requests, store
<1>4. Minting'
  BY DEF TypeOK, Minting, Running, Requests, Tokens, store
<1>5. Registered'
  BY DEF TypeOK, Registered, Issued, store
<1>6. Spent'
  BY DEF TypeOK, Spent, Presented, Minting, Running, Requests, Tokens, store
<1>7. Held'
  BY DEF TypeOK, Held, Rotating, Running, Presented, Requests, Tokens, store
<1>8. OneSuccessor'
  BY DEF TypeOK, OneSuccessor, Spent, Held, Rotating, Running, Requests
<1>9. LogoutIsFinal'
  BY DEF TypeOK, LogoutIsFinal, Presented, Minting, Running, Requests, Tokens, store
<1>. QED
  BY <1>1, <1>2, <1>3, <1>4, <1>5, <1>6, <1>7, <1>8, <1>9

(* A passkey sign-in begins. *)
LEMMA KeyLoginStartInv ==
    ASSUME Inv, NEW r \in Requests, KeyLoginStart(r)
    PROVE  Inv'
<1>. USE KindAssumption DEF Inv, Consistent, KeyLoginStart
<1>1. TypeOK'
  BY DEF TypeOK, Requests, Sids, Minters, Labels, Outcomes, store, sweeper, Rows,
     NothingSeen
<1>2. Running'
  BY DEF TypeOK, Running, Requests
<1>3. Presented'
  BY DEF TypeOK, Presented, Requests, store
<1>4. Minting'
  BY DEF TypeOK, Minting, Running, Requests, Tokens, store
<1>5. Registered'
  BY DEF TypeOK, Registered, Issued, store
<1>6. Spent'
  BY DEF TypeOK, Spent, Presented, Minting, Running, Requests, Tokens, store
<1>7. Held'
  BY DEF TypeOK, Held, Rotating, Running, Presented, Requests, Tokens, store
<1>8. OneSuccessor'
  BY DEF TypeOK, OneSuccessor, Spent, Held, Rotating, Running, Requests
<1>9. LogoutIsFinal'
  BY DEF TypeOK, LogoutIsFinal, Presented, Minting, Running, Requests, Tokens, store
<1>. QED
  BY <1>1, <1>2, <1>3, <1>4, <1>5, <1>6, <1>7, <1>8, <1>9

(* A sign-in writes its row and its deletions under the lock. *)
LEMMA LoginInsertInv ==
    ASSUME Inv, NEW r \in Requests, LoginInsert(r)
    PROVE  Inv'
<1>1. CASE Refuse(r)
  BY <1>1, FailInv, KindAssumption DEF LoginInsert, Fail
<1>2. CASE ~Refuse(r)
  <2>a. PICK b \in began[r]..now, D \in SUBSET table :
          /\ r \in SignIns /\ pc[r] \in {"verified", "keyed"} /\ lock = None
          /\ Unchanged(r)
          /\ pc' = [pc EXCEPT ![r] = "writing"]
          /\ lock' = r
          /\ draft' = [draft EXCEPT ![r] = NewRow(r, b, now)]
          /\ doomed' = [doomed EXCEPT ![r] = D]
          /\ seen' = IF pc[r] = "verified" THEN seen ELSE [seen EXCEPT ![r].version = version]
          /\ UNCHANGED <<now, store, outcome, shown, began, sweeper>>
    BY <1>2 DEF LoginInsert
  <2>b. NewRow(r, b, now) \in Rows
    BY <2>a, KindAssumption, TimeAssumption DEF Inv, TypeOK, NewRow, Rows, Minters, Sids
  <2>c. /\ seen'[r].version = version
        /\ seen' \in [Requests -> [password : Changers \cup {None}, version : Nat,
                                   sid : Sids \cup {None}]]
    BY <2>a DEF Inv, TypeOK, Unchanged
  <2>d. \A q \in Requests : q # r => seen'[q] = seen[q]
    BY <2>a DEF Inv, TypeOK
  <2>. HIDE DEF NewRow
  <2>. USE KindAssumption DEF Inv, Consistent
  <2>1. TypeOK'
    BY <2>a, <2>b, <2>c DEF TypeOK, Requests, Sids, Minters, Labels, Outcomes, vars, store,
       locals, sweeper
  <2>2. Running'
    BY <2>a, <2>b DEF TypeOK, Requests, Sids, Minters, Labels, Outcomes, vars, store,
       locals, sweeper, Running
  <2>3. Presented'
    BY <2>a DEF TypeOK, Presented, Requests, store
  <2>4. Minting'
    BY <2>a DEF TypeOK, Minting, Running, Requests, Tokens, store
  <2>5. Registered'
    BY <2>a DEF TypeOK, Requests, Sids, Minters, Labels, Outcomes, vars, store, locals,
       sweeper, Registered, Issued
  <2>6. Spent'
    BY <2>a DEF TypeOK, Spent, Presented, Minting, Running, Requests, Tokens, store
  <2>7. Held'
    BY <2>a, <2>b, <2>c, <2>d DEF TypeOK, Requests, Sids, Minters, Labels, Outcomes, vars,
       store, locals, sweeper, Held, Rotating, Running
  <2>8. OneSuccessor'
    BY <2>a DEF TypeOK, OneSuccessor, Spent, Held, Rotating, Running, Requests
  <2>9. LogoutIsFinal'
    BY <2>a DEF TypeOK, LogoutIsFinal, Presented, Minting, Running, Requests, Tokens, store
  <2>. QED
    BY <2>1, <2>2, <2>3, <2>4, <2>5, <2>6, <2>7, <2>8, <2>9
<1>. QED
  BY <1>1, <1>2

(* A sign-in commits. *)
LEMMA LoginCommitInv ==
    ASSUME Inv, NEW r \in Requests, LoginCommit(r)
    PROVE  Inv'
<1>. USE KindAssumption DEF Inv, Consistent, LoginCommit, End
<1>1. TypeOK'
  BY DEF TypeOK, Requests, Sids, Minters, Labels, Outcomes, store, sweeper, Rows,
     NothingSeen, Tokens, Held, Rotating, Running
<1>2. Running'
  BY DEF TypeOK, Running, Requests
<1>3. Presented'
  BY DEF TypeOK, Presented, Requests, store
<1>4. Minting'
  BY DEF TypeOK, Minting, Running, Requests, Tokens, store
<1>5. Registered'
  <2>1. stamp'[r] = version' /\ Issued(r)'
    BY DEF Held, Issued, TypeOK, Sids
  <2>2. \A s \in table : s # r => stamp'[s] = version' /\ Issued(s)'
    BY DEF Registered, Issued, TypeOK, Sids
  <2>. QED
    BY <2>1, <2>2 DEF Registered
<1>6. Spent'
  BY DEF TypeOK, Spent, Presented, Minting, Running, Requests, Tokens, store
<1>7. Held'
  BY DEF TypeOK, Held, Rotating, Running, Presented, Requests, Tokens, store
<1>8. OneSuccessor'
  BY DEF TypeOK, OneSuccessor, Spent, Held, Rotating, Running, Requests
<1>9. LogoutIsFinal'
  BY DEF TypeOK, LogoutIsFinal, Presented, Minting, Running, Requests, Tokens, store
<1>. QED
  BY <1>1, <1>2, <1>3, <1>4, <1>5, <1>6, <1>7, <1>8, <1>9

(* A refresh finds its account. *)
LEMMA RefreshLookupInv ==
    ASSUME Inv, NEW r \in Requests, RefreshLookup(r)
    PROVE  Inv'
<1>. USE KindAssumption DEF Inv, Consistent, RefreshLookup
<1>1. TypeOK'
  BY DEF TypeOK, Requests, Sids, Minters, Labels, Outcomes, store, sweeper, Rows,
     NothingSeen
<1>2. Running'
  BY DEF TypeOK, Running, Requests
<1>3. Presented'
  BY DEF TypeOK, Presented, Requests, store
<1>4. Minting'
  BY DEF TypeOK, Minting, Running, Requests, Tokens, store
<1>5. Registered'
  BY DEF TypeOK, Registered, Issued, store
<1>6. Spent'
  BY DEF TypeOK, Spent, Presented, Minting, Running, Requests, Tokens, store
<1>7. Held'
  BY DEF TypeOK, Held, Rotating, Running, Presented, Requests, Tokens, store
<1>8. OneSuccessor'
  BY DEF TypeOK, OneSuccessor, Spent, Held, Rotating, Running, Requests
<1>9. LogoutIsFinal'
  BY DEF TypeOK, LogoutIsFinal, Presented, Minting, Running, Requests, Tokens, store
<1>. QED
  BY <1>1, <1>2, <1>3, <1>4, <1>5, <1>6, <1>7, <1>8, <1>9

(* A refresh judges the token it was shown. *)
LEMMA RefreshJudgeInv ==
    ASSUME Inv, NEW r \in Requests, RefreshJudge(r)
    PROVE  Inv'
<1>1. CASE Refuse(r)
  BY <1>1, FailInv, KindAssumption DEF RefreshJudge, Fail
<1>2. CASE ~Refuse(r)
  <2>a. /\ r \in Refreshes /\ pc[r] = "waiting" /\ lock = None
        /\ Live(shown[r].family)
        /\ \/ Current(r) /\ Proceed(r, "judged") /\ UNCHANGED <<draft, doomed>>
           \/ /\ doomed' = [doomed EXCEPT ![r] = {shown[r].family}]
              /\ Proceed(r, "writing") /\ UNCHANGED draft
    BY <1>2 DEF RefreshJudge
  <2>. USE KindAssumption DEF Inv, Consistent, Live, Current, Proceed
  <2>1. TypeOK'
    BY <2>a DEF TypeOK, Requests, Sids, Minters, Labels, Outcomes, store, sweeper, Rows,
       NothingSeen
  <2>2. Running'
    BY <2>a DEF TypeOK, Running, Requests
  <2>3. Presented'
    BY <2>a DEF TypeOK, Presented, Requests, store
  <2>4. Minting'
    BY <2>a DEF TypeOK, Minting, Running, Requests, Tokens, store
  <2>5. Registered'
    BY <2>a DEF TypeOK, Registered, Issued, store
  <2>6. Spent'
    BY <2>a DEF TypeOK, Spent, Presented, Minting, Running, Requests, Tokens, store
  <2>7. Held'
    <3>1. \A q \in Requests : doomed'[q] \subseteq table'
      BY <2>a DEF store, Held, TypeOK
    <3>2. \A q \in Requests :
            q # r => pc'[q] = pc[q] /\ draft'[q] = draft[q] /\ doomed'[q] = doomed[q]
      BY <2>a DEF TypeOK
    <3>3. draft'[r] = None
      BY <2>a DEF Running, TypeOK, Requests
    <3>4. pc'[r] = "judged" => Rotating(r)'
      BY <2>a DEF Rotating, TypeOK, Requests, store
    <3>. QED
      BY <2>a, <3>1, <3>2, <3>3, <3>4 DEF Held, Rotating, store, Requests, TypeOK
  <2>8. OneSuccessor'
    BY <2>a DEF TypeOK, OneSuccessor, Spent, Held, Rotating, Running, Requests
  <2>9. LogoutIsFinal'
    BY <2>a DEF TypeOK, LogoutIsFinal, Presented, Minting, Running, Requests, Tokens, store
  <2>. QED
    BY <2>1, <2>2, <2>3, <2>4, <2>5, <2>6, <2>7, <2>8, <2>9
<1>. QED
  BY <1>1, <1>2

(* A refresh writes the successor. *)
LEMMA RefreshRotateInv ==
    ASSUME Inv, NEW r \in Requests, RefreshRotate(r)
    PROVE  Inv'
<1>1. CASE Refuse(r)
  BY <1>1, FailInv, KindAssumption DEF RefreshRotate, Fail
<1>2. CASE ~Refuse(r)
  <2>a. /\ r \in Refreshes /\ pc[r] = "judged"
        /\ \E x \in Int : draft' = [draft EXCEPT ![r] =
              [cur |-> r, prev |-> shown[r].by, born |-> row[shown[r].family].born,
               rotated |-> now, expires |-> x]]
        /\ Proceed(r, "writing") /\ UNCHANGED doomed
    BY <1>2, TimeAssumption, KindAssumption DEF RefreshRotate, Inv, Consistent, TypeOK,
       Held, Rotating, Rows
  <2>. USE KindAssumption DEF Inv, Consistent, Proceed
  <2>1. TypeOK'
    BY <2>a DEF TypeOK, Requests, Sids, Minters, Labels, Outcomes, store, sweeper, Rows,
       NothingSeen, Tokens, Held, Rotating, Running
  <2>2. Running'
    BY <2>a DEF TypeOK, Running, Requests
  <2>3. Presented'
    BY <2>a DEF TypeOK, Presented, Requests, store
  <2>4. Minting'
    BY <2>a DEF TypeOK, Minting, Running, Requests, Tokens, store
  <2>5. Registered'
    BY <2>a DEF TypeOK, Registered, Issued, store
  <2>6. Spent'
    BY <2>a DEF TypeOK, Spent, Presented, Minting, Running, Requests, Tokens, store
  <2>7. Held'
    BY <2>a DEF TypeOK, Held, Rotating, Running, Presented, Requests, Tokens, store
  <2>8. OneSuccessor'
    BY <2>a DEF TypeOK, OneSuccessor, Spent, Held, Rotating, Running, Requests
  <2>9. LogoutIsFinal'
    BY <2>a DEF TypeOK, LogoutIsFinal, Presented, Minting, Running, Requests, Tokens, store
  <2>. QED
    BY <2>1, <2>2, <2>3, <2>4, <2>5, <2>6, <2>7, <2>8, <2>9
<1>. QED
  BY <1>1, <1>2

(* A refresh commits. *)
LEMMA RefreshCommitInv ==
    ASSUME Inv, NEW r \in Requests, RefreshCommit(r)
    PROVE  Inv'
<1>. USE KindAssumption DEF Inv, Consistent, RefreshCommit, End
<1>1. TypeOK'
  BY DEF TypeOK, Requests, Sids, Minters, Labels, Outcomes, store, sweeper, Rows,
     NothingSeen, Tokens, Held, Rotating, Running
<1>2. Running'
  BY DEF TypeOK, Running, Requests
<1>3. Presented'
  BY DEF TypeOK, Presented, Requests, store
<1>4. Minting'
  BY DEF TypeOK, Held, Rotating, Minting, Running, Requests, Tokens, store, Presented, Sids
<1>5. Registered'
  BY DEF TypeOK, Registered, Issued, store
<1>6. Spent'
  BY DEF TypeOK, Held, Rotating, Spent, Presented, Minting, Running, Requests, Tokens, store
<1>7. Held'
  BY DEF TypeOK, Held, Rotating, Running, Presented, Requests, Tokens, store
<1>8. OneSuccessor'
  BY DEF TypeOK, OneSuccessor, Spent, Held, Rotating, Running, Requests
<1>9. LogoutIsFinal'
  BY DEF TypeOK, LogoutIsFinal, Presented, Minting, Running, Requests, Tokens, store
<1>. QED
  BY <1>1, <1>2, <1>3, <1>4, <1>5, <1>6, <1>7, <1>8, <1>9

(* The revocation of a reused family commits. *)
LEMMA ReuseCommitInv ==
    ASSUME Inv, NEW r \in Requests, ReuseCommit(r)
    PROVE  Inv'
<1>. USE KindAssumption DEF Inv, Consistent, ReuseCommit, End
<1>1. TypeOK'
  BY DEF TypeOK, Requests, Sids, Minters, Labels, Outcomes, store, sweeper, Rows,
     NothingSeen
<1>2. Running'
  BY DEF TypeOK, Running, Requests
<1>3. Presented'
  BY DEF TypeOK, Presented, Requests, store
<1>4. Minting'
  BY DEF TypeOK, Minting, Running, Requests, Tokens, store
<1>5. Registered'
  BY DEF TypeOK, Registered, Issued, store
<1>6. Spent'
  BY DEF TypeOK, Spent, Presented, Minting, Running, Requests, Tokens, store
<1>7. Held'
  BY DEF TypeOK, Held, Rotating, Running, Presented, Requests, Tokens, store
<1>8. OneSuccessor'
  BY DEF TypeOK, OneSuccessor, Spent, Held, Rotating, Running, Requests
<1>9. LogoutIsFinal'
  BY DEF TypeOK, LogoutIsFinal, Presented, Minting, Running, Requests, Tokens, store
<1>. QED
  BY <1>1, <1>2, <1>3, <1>4, <1>5, <1>6, <1>7, <1>8, <1>9

(* A logout deletes a row nobody has locked. *)
LEMMA LogoutInv ==
    ASSUME Inv, NEW r \in Requests, Logout(r)
    PROVE  Inv'
<1>. USE KindAssumption DEF Inv, Consistent, Logout, LogoutTargets, RowLocked
<1>1. TypeOK'
  BY DEF TypeOK, Requests, Sids, Minters, Labels, Outcomes, store, sweeper, Rows,
     NothingSeen
<1>2. Running'
  BY DEF TypeOK, Running, Requests
<1>3. Presented'
  BY DEF TypeOK, Presented, Requests, store
<1>4. Minting'
  BY DEF TypeOK, Minting, Running, Requests, Tokens, store
<1>5. Registered'
  BY DEF TypeOK, Registered, Issued, store
<1>6. Spent'
  BY DEF TypeOK, Spent, Presented, Minting, Running, Requests, Tokens, store
<1>7. Held'
  BY DEF TypeOK, Held, Rotating, Running, Presented, Requests, Tokens, store
<1>8. OneSuccessor'
  BY DEF TypeOK, OneSuccessor, Spent, Held, Rotating, Running, Requests
<1>9. LogoutIsFinal'
  BY DEF TypeOK, LogoutIsFinal, Presented, Minting, Running, Requests, Tokens, store
<1>. QED
  BY <1>1, <1>2, <1>3, <1>4, <1>5, <1>6, <1>7, <1>8, <1>9

(* A request of a signed-in session is authorized. *)
LEMMA AuthorizeInv ==
    ASSUME Inv, NEW r \in Requests, r \in Revokers \cup Changers, NEW s \in Sids, Authorize(r, s)
    PROVE  Inv'
<1>. USE KindAssumption DEF Inv, Consistent, Authorize, Live
<1>1. TypeOK'
  BY DEF TypeOK, Requests, Sids, Minters, Labels, Outcomes, store, sweeper, Rows,
     NothingSeen
<1>2. Running'
  BY DEF TypeOK, Running, Requests
<1>3. Presented'
  BY DEF TypeOK, Presented, Requests, store
<1>4. Minting'
  BY DEF TypeOK, Minting, Running, Requests, Tokens, store
<1>5. Registered'
  BY DEF TypeOK, Registered, Issued, store
<1>6. Spent'
  BY DEF TypeOK, Spent, Presented, Minting, Running, Requests, Tokens, store
<1>7. Held'
  BY DEF TypeOK, Held, Rotating, Running, Presented, Requests, Tokens, store
<1>8. OneSuccessor'
  BY DEF TypeOK, OneSuccessor, Spent, Held, Rotating, Running, Requests
<1>9. LogoutIsFinal'
  BY DEF TypeOK, LogoutIsFinal, Presented, Minting, Running, Requests, Tokens, store
<1>. QED
  BY <1>1, <1>2, <1>3, <1>4, <1>5, <1>6, <1>7, <1>8, <1>9

(* A revocation writes its deletions. *)
LEMMA RevokeWriteInv ==
    ASSUME Inv, NEW r \in Requests, RevokeWrite(r)
    PROVE  Inv'
<1>1. CASE Refuse(r)
  BY <1>1, FailInv, KindAssumption DEF RevokeWrite, Fail
<1>2. CASE ~Refuse(r)
  <2>a. /\ r \in Revokers /\ pc[r] = "verified" /\ lock = None
        /\ seen[r].version = version /\ seen[r].sid \in table
        /\ \E S \in SUBSET table : doomed' = [doomed EXCEPT ![r] = S]
        /\ Proceed(r, "writing") /\ UNCHANGED draft
    BY <1>2 DEF RevokeWrite, StillCurrent, Live
  <2>. USE KindAssumption DEF Inv, Consistent, Proceed
  <2>1. TypeOK'
    BY <2>a DEF TypeOK, Requests, Sids, Minters, Labels, Outcomes, store, sweeper, Rows,
       NothingSeen
  <2>2. Running'
    BY <2>a DEF TypeOK, Running, Requests
  <2>3. Presented'
    BY <2>a DEF TypeOK, Presented, Requests, store
  <2>4. Minting'
    BY <2>a DEF TypeOK, Minting, Running, Requests, Tokens, store
  <2>5. Registered'
    BY <2>a DEF TypeOK, Registered, Issued, store
  <2>6. Spent'
    BY <2>a DEF TypeOK, Spent, Presented, Minting, Running, Requests, Tokens, store
  <2>7. Held'
    BY <2>a DEF TypeOK, Held, Rotating, Running, Presented, Requests, Tokens, store
  <2>8. OneSuccessor'
    BY <2>a DEF TypeOK, OneSuccessor, Spent, Held, Rotating, Running, Requests
  <2>9. LogoutIsFinal'
    BY <2>a DEF TypeOK, LogoutIsFinal, Presented, Minting, Running, Requests, Tokens, store
  <2>. QED
    BY <2>1, <2>2, <2>3, <2>4, <2>5, <2>6, <2>7, <2>8, <2>9
<1>. QED
  BY <1>1, <1>2

(* A revocation commits. *)
LEMMA RevokeCommitInv ==
    ASSUME Inv, NEW r \in Requests, RevokeCommit(r)
    PROVE  Inv'
<1>. USE KindAssumption DEF Inv, Consistent, RevokeCommit, End
<1>1. TypeOK'
  BY DEF TypeOK, Requests, Sids, Minters, Labels, Outcomes, store, sweeper, Rows,
     NothingSeen
<1>2. Running'
  BY DEF TypeOK, Running, Requests
<1>3. Presented'
  BY DEF TypeOK, Presented, Requests, store
<1>4. Minting'
  BY DEF TypeOK, Minting, Running, Requests, Tokens, store
<1>5. Registered'
  BY DEF TypeOK, Registered, Issued, store
<1>6. Spent'
  BY DEF TypeOK, Spent, Presented, Minting, Running, Requests, Tokens, store
<1>7. Held'
  BY DEF TypeOK, Held, Rotating, Running, Presented, Requests, Tokens, store
<1>8. OneSuccessor'
  BY DEF TypeOK, OneSuccessor, Spent, Held, Rotating, Running, Requests
<1>9. LogoutIsFinal'
  BY DEF TypeOK, LogoutIsFinal, Presented, Minting, Running, Requests, Tokens, store
<1>. QED
  BY <1>1, <1>2, <1>3, <1>4, <1>5, <1>6, <1>7, <1>8, <1>9

(* A change of password writes. *)
LEMMA ChangeWriteInv ==
    ASSUME Inv, NEW r \in Requests, ChangeWrite(r)
    PROVE  Inv'
<1>1. CASE Refuse(r)
  BY <1>1, FailInv, KindAssumption DEF ChangeWrite, Fail
<1>2. CASE ~Refuse(r)
  <2>a. /\ r \in Changers /\ pc[r] = "verified" /\ lock = None
        /\ doomed' = [doomed EXCEPT ![r] = table]
        /\ Proceed(r, "writing") /\ UNCHANGED draft
    BY <1>2 DEF ChangeWrite
  <2>. USE KindAssumption DEF Inv, Consistent, Proceed
  <2>1. TypeOK'
    BY <2>a DEF TypeOK, Requests, Sids, Minters, Labels, Outcomes, store, sweeper, Rows,
       NothingSeen
  <2>2. Running'
    BY <2>a DEF TypeOK, Running, Requests
  <2>3. Presented'
    BY <2>a DEF TypeOK, Presented, Requests, store
  <2>4. Minting'
    BY <2>a DEF TypeOK, Minting, Running, Requests, Tokens, store
  <2>5. Registered'
    BY <2>a DEF TypeOK, Registered, Issued, store
  <2>6. Spent'
    BY <2>a DEF TypeOK, Spent, Presented, Minting, Running, Requests, Tokens, store
  <2>7. Held'
    BY <2>a DEF TypeOK, Held, Rotating, Running, Presented, Requests, Tokens, store
  <2>8. OneSuccessor'
    BY <2>a DEF TypeOK, OneSuccessor, Spent, Held, Rotating, Running, Requests
  <2>9. LogoutIsFinal'
    BY <2>a DEF TypeOK, LogoutIsFinal, Presented, Minting, Running, Requests, Tokens, store
  <2>. QED
    BY <2>1, <2>2, <2>3, <2>4, <2>5, <2>6, <2>7, <2>8, <2>9
<1>. QED
  BY <1>1, <1>2

(* A change of password commits. *)
LEMMA ChangeCommitInv ==
    ASSUME Inv, NEW r \in Requests, ChangeCommit(r)
    PROVE  Inv'
<1>. USE KindAssumption DEF Inv, Consistent, ChangeCommit, End
<1>1. TypeOK'
  BY DEF TypeOK, Requests, Sids, Minters, Labels, Outcomes, store, sweeper, Rows,
     NothingSeen
<1>2. Running'
  BY DEF TypeOK, Running, Requests
<1>3. Presented'
  BY DEF TypeOK, Presented, Requests, store
<1>4. Minting'
  BY DEF TypeOK, Minting, Running, Requests, Tokens, store
<1>5. Registered'
  <2>1. table' = {}
    BY DEF Held
  <2>. QED
    BY <2>1 DEF Registered
<1>6. Spent'
  BY DEF TypeOK, Spent, Presented, Minting, Running, Requests, Tokens, store
<1>7. Held'
  BY DEF TypeOK, Held, Rotating, Running, Presented, Requests, Tokens, store
<1>8. OneSuccessor'
  BY DEF TypeOK, OneSuccessor, Spent, Held, Rotating, Running, Requests
<1>9. LogoutIsFinal'
  BY DEF TypeOK, LogoutIsFinal, Presented, Minting, Running, Requests, Tokens, store
<1>. QED
  BY <1>1, <1>2, <1>3, <1>4, <1>5, <1>6, <1>7, <1>8, <1>9

(* Time passes. *)
LEMMA TickInv ==
    ASSUME Inv, Tick
    PROVE  Inv'
<1>. USE KindAssumption DEF Inv, Consistent, Tick
<1>1. TypeOK'
  BY DEF TypeOK, Requests, Sids, Minters, Labels, Outcomes, store, locals, sweeper, Rows,
     NothingSeen
<1>2. Running'
  BY DEF TypeOK, Running, Requests, locals
<1>3. Presented'
  BY DEF TypeOK, Presented, Requests, store, locals
<1>4. Minting'
  BY DEF TypeOK, Minting, Running, Requests, Tokens, store
<1>5. Registered'
  BY DEF TypeOK, Registered, Issued, store
<1>6. Spent'
  BY DEF TypeOK, Spent, Presented, Minting, Running, Requests, Tokens, store, locals
<1>7. Held'
  BY DEF TypeOK, Held, Rotating, Running, Presented, Requests, Tokens, store, locals
<1>8. OneSuccessor'
  BY DEF OneSuccessor, locals
<1>9. LogoutIsFinal'
  BY DEF TypeOK, LogoutIsFinal, Presented, Minting, Running, Requests, Tokens, store, locals
<1>. QED
  BY <1>1, <1>2, <1>3, <1>4, <1>5, <1>6, <1>7, <1>8, <1>9

(* The sweep chooses expired rows. *)
LEMMA SweepPickInv ==
    ASSUME Inv, SweepPick
    PROVE  Inv'
<1>. USE KindAssumption DEF Inv, Consistent, SweepPick
<1>1. TypeOK'
  BY DEF TypeOK, Requests, Sids, Minters, Labels, Outcomes, store, locals, sweeper, Rows,
     NothingSeen
<1>2. Running'
  BY DEF TypeOK, Running, Requests, locals
<1>3. Presented'
  BY DEF TypeOK, Presented, Requests, store, locals
<1>4. Minting'
  BY DEF TypeOK, Minting, Running, Requests, Tokens, store
<1>5. Registered'
  BY DEF TypeOK, Registered, Issued, store
<1>6. Spent'
  BY DEF TypeOK, Spent, Presented, Minting, Running, Requests, Tokens, store, locals
<1>7. Held'
  BY DEF TypeOK, Held, Rotating, Running, Presented, Requests, Tokens, store, locals
<1>8. OneSuccessor'
  BY DEF OneSuccessor, locals
<1>9. LogoutIsFinal'
  BY DEF TypeOK, LogoutIsFinal, Presented, Minting, Running, Requests, Tokens, store, locals
<1>. QED
  BY <1>1, <1>2, <1>3, <1>4, <1>5, <1>6, <1>7, <1>8, <1>9

(* The sweep deletes rows nobody has locked. *)
LEMMA SweepDeleteInv ==
    ASSUME Inv, SweepDelete
    PROVE  Inv'
<1>. USE KindAssumption DEF Inv, Consistent, SweepDelete, RowLocked
<1>1. TypeOK'
  BY DEF TypeOK, Requests, Sids, Minters, Labels, Outcomes, store, locals, sweeper, Rows,
     NothingSeen
<1>2. Running'
  BY DEF TypeOK, Running, Requests, locals
<1>3. Presented'
  BY DEF TypeOK, Presented, Requests, store, locals
<1>4. Minting'
  BY DEF TypeOK, Minting, Running, Requests, Tokens, store
<1>5. Registered'
  BY DEF TypeOK, Registered, Issued, store
<1>6. Spent'
  BY DEF TypeOK, Spent, Presented, Minting, Running, Requests, Tokens, store, locals
<1>7. Held'
  BY DEF TypeOK, Held, Rotating, Running, Presented, Requests, Tokens, store, locals
<1>8. OneSuccessor'
  BY DEF OneSuccessor, locals
<1>9. LogoutIsFinal'
  BY DEF TypeOK, LogoutIsFinal, Presented, Minting, Running, Requests, Tokens, store, locals
<1>. QED
  BY <1>1, <1>2, <1>3, <1>4, <1>5, <1>6, <1>7, <1>8, <1>9

(* The sweep fails. *)
LEMMA SweepFailInv ==
    ASSUME Inv, SweepFail
    PROVE  Inv'
<1>. USE KindAssumption DEF Inv, Consistent, SweepFail
<1>1. TypeOK'
  BY DEF TypeOK, Requests, Sids, Minters, Labels, Outcomes, store, locals, sweeper, Rows,
     NothingSeen
<1>2. Running'
  BY DEF TypeOK, Running, Requests, locals
<1>3. Presented'
  BY DEF TypeOK, Presented, Requests, store, locals
<1>4. Minting'
  BY DEF TypeOK, Minting, Running, Requests, Tokens, store
<1>5. Registered'
  BY DEF TypeOK, Registered, Issued, store
<1>6. Spent'
  BY DEF TypeOK, Spent, Presented, Minting, Running, Requests, Tokens, store, locals
<1>7. Held'
  BY DEF TypeOK, Held, Rotating, Running, Presented, Requests, Tokens, store, locals
<1>8. OneSuccessor'
  BY DEF OneSuccessor, locals
<1>9. LogoutIsFinal'
  BY DEF TypeOK, LogoutIsFinal, Presented, Minting, Running, Requests, Tokens, store, locals
<1>. QED
  BY <1>1, <1>2, <1>3, <1>4, <1>5, <1>6, <1>7, <1>8, <1>9

----------------------------------------------------------------------------
(* The invariant. *)

(* Inv holds at the start. *)
LEMMA InitInv == Init => Inv
  BY KindAssumption, TimeAssumption
     DEF Init, Inv, TypeOK, Consistent, Running, Presented, Minting, Registered, Spent, Held,
         Rotating, Issued, OneSuccessor, LogoutIsFinal, NewRow, Rows, Requests, Sids, Minters,
         Tokens, Labels, Outcomes, NothingSeen

(* Every step of a request keeps Inv. *)
LEMMA StepInv ==
    ASSUME Inv, NEW r \in Requests, Step(r)
    PROVE  Inv'
  BY LoginVerifyInv, KeyLoginStartInv, LoginInsertInv, LoginCommitInv, RefreshLookupInv,
     RefreshJudgeInv, RefreshRotateInv, RefreshCommitInv, ReuseCommitInv, LogoutInv,
     AuthorizeInv, RevokeWriteInv, RevokeCommitInv, ChangeWriteInv, ChangeCommitInv, FailInv
     DEF Step, RevokeVerify, ChangeVerify

(* So does every step of the system, and a step of none of it. *)
LEMMA NextInv ==
    ASSUME Inv, [Next]_vars
    PROVE  Inv'
<1>1. CASE Next
  BY <1>1, StepInv, TickInv, SweepPickInv, SweepDeleteInv, SweepFailInv DEF Next
<1>2. CASE UNCHANGED vars
  BY <1>2 DEF vars, store, locals, sweeper, Inv, TypeOK, Consistent, Running, Presented,
     Minting,
         Registered, Spent, Held, Rotating, Issued, OneSuccessor, LogoutIsFinal
<1>. QED
  BY <1>1, <1>2

(* The inductive invariant holds of every reachable state: what a           *)
(* transaction found under the account's lock is still so when it commits.  *)
THEOREM InvHolds == Spec => []Inv
<1>1. Init => Inv
  BY InitInv
<1>2. Inv /\ [Next]_vars => Inv'
  BY NextInv
<1>. QED
  BY <1>1, <1>2, PTL DEF Spec

(* The database rows and the requests' locals keep their types. *)
THEOREM TypeCorrect == Spec => []TypeOK
<1>1. Inv => TypeOK
  BY DEF Inv
<1>. QED
  BY <1>1, InvHolds, PTL

(* A refresh token buys one successor, for any number of requests that      *)
(* present it and any grace (session.rs:237-285).                           *)
THEOREM TokensBuyOneSuccessor == Spec => []OneSuccessor
<1>1. Inv => OneSuccessor
  BY DEF Inv
<1>. QED
  BY <1>1, InvHolds, PTL

(* Once a logout has answered its family has no session, whatever rotation, *)
(* sign-in or sweep was under way (session.rs:329-351).                     *)
THEOREM LogoutsAreFinal == Spec => []LogoutIsFinal
<1>1. Inv => LogoutIsFinal
  BY DEF Inv
<1>. QED
  BY <1>1, InvHolds, PTL

----------------------------------------------------------------------------
(* The action property. *)

(* The only step that grants a request is its own commit. *)
LEMMA GrantIsCommit ==
    ASSUME Inv, [Next]_vars, NEW r \in Revokers,
           outcome[r] # "granted", outcome'[r] = "granted"
    PROVE  RevokeCommit(r)
<1>. USE KindAssumption DEF Inv, TypeOK, Requests
<1>1. PICK q \in Requests : Step(q)
  BY DEF Next, Tick, SweepPick, SweepDelete, SweepFail, vars, store, locals, sweeper
<1>2. q = r
  <2>1. \/ UNCHANGED outcome
        \/ \E o \in Outcomes : outcome' = [outcome EXCEPT ![q] = o]
    BY <1>1 DEF Step, LoginVerify, KeyLoginStart, LoginInsert, LoginCommit, RefreshLookup,
         RefreshJudge, RefreshRotate, RefreshCommit, ReuseCommit, Logout, RevokeVerify,
         RevokeWrite, RevokeCommit, ChangeVerify, ChangeWrite, ChangeCommit, Fail, Authorize,
         Proceed, Refuse, End, Outcomes
  <2>. QED
    BY <2>1
<1>3. CASE RevokeVerify(r)
  BY <1>3 DEF RevokeVerify, Authorize
<1>4. CASE RevokeWrite(r)
  BY <1>4 DEF RevokeWrite, Proceed, Refuse, End
<1>5. CASE Fail(r)
  BY <1>5 DEF Fail, Refuse, End
<1>. QED
  BY <1>1, <1>2, <1>3, <1>4, <1>5
     DEF Step, LoginVerify, KeyLoginStart, LoginInsert, LoginCommit, RefreshLookup,
         RefreshJudge, RefreshRotate, RefreshCommit, ReuseCommit, Logout, ChangeVerify,
         ChangeWrite, ChangeCommit

(* Whoever deletes sessions has one of its own, at the current version, at  *)
(* the moment the deletion commits (sessions.rs:45-46).                     *)
THEOREM RevokersAreLive == Spec => OnlyTheLiveRevoke
<1>1. Inv /\ [Next]_vars
        => [\A r \in Revokers : outcome[r] # "granted" /\ outcome'[r] = "granted"
              => seen[r].sid \in table /\ seen[r].version = version]_vars
  <2>. SUFFICES ASSUME Inv, [Next]_vars, NEW r \in Revokers,
                       outcome[r] # "granted", outcome'[r] = "granted"
                PROVE  seen[r].sid \in table /\ seen[r].version = version
    OBVIOUS
  <2>1. RevokeCommit(r)
    BY GrantIsCommit
  <2>. QED
    BY <2>1 DEF RevokeCommit, Inv, Consistent, Held
<1>. QED
  BY <1>1, InvHolds, PTL DEF Spec, OnlyTheLiveRevoke

----------------------------------------------------------------------------
(* The transactions implement SessionAuthority. *)

(* What the abstract specification sees. *)
Seen == <<now, version, table, row, stamp, minted>>

(* The rows that are there are the sessions present. *)
LEMMA PresentIsTable ==
    ASSUME TypeOK
    PROVE  Authority!Present = table
  BY DEF Authority!Present, StatusOf, TypeOK

(* A step that changes none of it is a stutter. *)
LEMMA Stutter ==
    ASSUME UNCHANGED Seen
    PROVE  UNCHANGED Authority!authority
  BY DEF Seen, Authority!authority, StatusOf, Issued

(* A deletion ends the sessions it deletes. *)
LEMMA DeletionEnds ==
    ASSUME Inv, NEW D \in SUBSET table, table' = table \ D,
           UNCHANGED <<now, row, minted, stamp, version>>
    PROVE  Authority!AuthorityNext
<1>1. D \in SUBSET Sids /\ Authority!Present = table
  BY PresentIsTable DEF Inv, TypeOK
<1>2. \A t \in Sids : StatusOf(t)' = IF t \in D THEN "ended" ELSE StatusOf(t)
  BY DEF Inv, Consistent, Registered, StatusOf, Issued
<1>3. Authority!End(D)
  BY <1>1, <1>2 DEF Authority!End
<1>. QED
  BY <1>1, <1>3 DEF Authority!AuthorityNext

(* Time lapses sessions. *)
LEMMA TickLapses ==
    ASSUME Inv, Tick
    PROVE  Authority!AuthorityNext
<1>. DEFINE S == {s \in table : ~(row[s].expires > now')}
<1>1. S \in SUBSET Sids /\ S \subseteq Authority!Present
  BY PresentIsTable DEF Inv, TypeOK
<1>2. \A t \in Sids : StatusOf(t)' = IF t \in S THEN "lapsed" ELSE StatusOf(t)
  BY DEF Tick, store, StatusOf, Issued, Inv, TypeOK, Rows
<1>3. Authority!Lapse(S)
  <2>. HIDE DEF S
  <2>. QED
    BY <1>1, <1>2 DEF Authority!Lapse, Tick, store
<1>. QED
  BY <1>1, <1>3 DEF Authority!AuthorityNext

(* A sign-in that commits is new and at the current version. *)
LEMMA CommitSignsIn ==
    ASSUME Inv, NEW r \in Requests, LoginCommit(r)
    PROVE  Authority!AuthorityNext
<1>. USE KindAssumption
<1>1. /\ r \in SignIns /\ r \in Sids /\ pc[r] = "writing" /\ outcome[r] # "granted"
      /\ doomed[r] \in SUBSET table /\ doomed[r] \in SUBSET Sids
      /\ seen[r].version = version
      /\ table' = (table \ doomed[r]) \cup {r} /\ row' = [row EXCEPT ![r] = draft[r]]
      /\ minted' = minted \cup {[family |-> r, by |-> r]}
      /\ UNCHANGED <<now, version>>
  BY DEF LoginCommit, Inv, TypeOK, Consistent, Running, Held, Sids, Requests
<1>2. r \notin table /\ ~Issued(r)
  BY <1>1 DEF Inv, Consistent, Registered, Minting, Issued
<1>3. Authority!Present = table
  BY PresentIsTable DEF Inv
<1>4. PICK st \in {"live", "lapsed"} : StatusOf(r)' = st
  BY <1>1 DEF StatusOf
<1>5. \A t \in Sids : StatusOf(t)' = IF t = r THEN st
                                     ELSE IF t \in doomed[r] THEN "ended" ELSE StatusOf(t)
  BY <1>1, <1>4 DEF StatusOf, Issued, Inv, TypeOK, Consistent, Registered
<1>6. StatusOf(r) = "new"
  BY <1>2 DEF StatusOf
<1>7. Authority!SignIn(r, doomed[r])
  BY <1>1, <1>3, <1>4, <1>5, <1>6 DEF Authority!SignIn, LoginCommit
<1>. QED
  BY <1>1, <1>7 DEF Authority!AuthorityNext

(* A rotation that commits renews a session that is there. *)
LEMMA CommitRenews ==
    ASSUME Inv, NEW r \in Requests, RefreshCommit(r)
    PROVE  Authority!AuthorityNext
<1>. USE KindAssumption
<1>1. PICK s \in table :
      /\ r \in Refreshes /\ s \in Sids
      /\ row' = [row EXCEPT ![s] = draft[r]] /\ stamp' = [stamp EXCEPT ![s] = version]
      /\ minted' = minted \cup {[family |-> s, by |-> r]}
      /\ UNCHANGED <<now, version, table>>
  <2>1. shown[r].family \in table /\ shown[r].family \in Sids
    BY DEF RefreshCommit, Inv, TypeOK, Consistent, Held, Rotating
  <2>. QED
    BY <2>1 DEF RefreshCommit
<1>2. UNCHANGED stamp
  BY <1>1 DEF Inv, TypeOK, Consistent, Registered
<1>3. PICK st \in {"live", "lapsed"} : StatusOf(s)' = st
  BY <1>1 DEF StatusOf
<1>4. \A t \in Sids : Issued(t)' = Issued(t)
  BY <1>1 DEF Issued, Sids, Requests
<1>5. \A t \in Sids : StatusOf(t)' = IF t = s THEN st ELSE StatusOf(t)
  BY <1>1, <1>3, <1>4 DEF StatusOf, Inv, TypeOK
<1>6. Authority!Renew(s)
  <2>1. s \in Authority!Present
    BY <1>1, PresentIsTable DEF Inv
  <2>. QED
    BY <1>1, <1>2, <1>5, <2>1 DEF Authority!Renew
<1>. QED
  BY <1>1, <1>6 DEF Authority!AuthorityNext

(* A change of password that commits leaves no session. *)
LEMMA CommitBumps ==
    ASSUME Inv, NEW r \in Requests, ChangeCommit(r)
    PROVE  Authority!AuthorityNext
<1>1. /\ doomed[r] = table /\ table' = {} /\ version' = version + 1
      /\ UNCHANGED <<now, row, stamp, minted>>
  BY DEF ChangeCommit, Inv, Consistent, Held
<1>2. Authority!Present = table
  BY PresentIsTable DEF Inv
<1>3. \A t \in Sids : StatusOf(t)' = IF t \in table THEN "ended" ELSE StatusOf(t)
  BY <1>1 DEF StatusOf, Issued, Inv, Consistent, Registered
<1>. QED
  BY <1>1, <1>2, <1>3 DEF Authority!AuthorityNext, Authority!Bump

(* Every step of the transactions is a step of the authority or a stutter.  *)
LEMMA NextImplements ==
    ASSUME Inv, [Next]_vars
    PROVE  [Authority!AuthorityNext]_(Authority!authority)
<1>1. CASE \E r \in Requests : LoginCommit(r)
  BY <1>1, CommitSignsIn
<1>2. CASE \E r \in Requests : RefreshCommit(r)
  BY <1>2, CommitRenews
<1>3. CASE \E r \in Requests : ChangeCommit(r)
  BY <1>3, CommitBumps
<1>4. CASE Tick
  BY <1>4, TickLapses
<1>5. CASE SweepDelete
  <2>1. picked \cap table \in SUBSET table /\ table' = table \ (picked \cap table)
    BY <1>5 DEF SweepDelete
  <2>. QED
    BY <1>5, <2>1, DeletionEnds DEF SweepDelete
<1>6. CASE \E r \in Requests : Logout(r)
  <2>1. PICK t \in minted : table' = table \ LogoutTargets(t)
    BY <1>6 DEF Logout
  <2>2. LogoutTargets(t) \in SUBSET table
    BY DEF LogoutTargets
  <2>. QED
    BY <1>6, <2>1, <2>2, DeletionEnds DEF Logout
<1>7. ASSUME NEW r \in Requests, ReuseCommit(r) \/ RevokeCommit(r)
      PROVE  Authority!AuthorityNext
  <2>1. doomed[r] \in SUBSET table
    BY DEF Inv, Consistent, Held
  <2>. QED
    BY <1>7, <2>1, DeletionEnds DEF ReuseCommit, RevokeCommit
<1>8. CASE SweepPick \/ SweepFail \/ UNCHANGED vars
  BY <1>8, Stutter DEF SweepPick, SweepFail, Seen, vars, store
<1>9. ASSUME NEW r \in Requests,
             \/ LoginVerify(r) \/ KeyLoginStart(r) \/ LoginInsert(r) \/ RefreshLookup(r)
             \/ RefreshJudge(r) \/ RefreshRotate(r) \/ RevokeVerify(r) \/ RevokeWrite(r)
             \/ ChangeVerify(r) \/ ChangeWrite(r) \/ Fail(r)
      PROVE  UNCHANGED Authority!authority
  <2>1. UNCHANGED Seen
    BY <1>9 DEF LoginVerify, KeyLoginStart, LoginInsert, RefreshLookup, RefreshJudge,
         RefreshRotate, RevokeVerify, RevokeWrite, ChangeVerify, ChangeWrite, Fail, Authorize,
         Proceed, Refuse, Seen, store
  <2>. QED
    BY <2>1, Stutter
<1>. QED
  BY <1>1, <1>2, <1>3, <1>4, <1>5, <1>6, <1>7, <1>8, <1>9 DEF Next, Step

(* Every interleaving of the requests' transactions is a history of the     *)
(* abstract sessions: one that has ended does not return, no sign-in is at  *)
(* an old version and a change of password leaves no session.               *)
THEOREM SessionsImplementAuthority == Spec => ImplementsAuthority
<1>1. Init => Authority!AuthorityInit
  <2>. SUFFICES ASSUME Init
                PROVE  Authority!AuthorityInit
    OBVIOUS
  <2>1. \A s \in Sids : s \in table => row[s].expires > now
    BY TimeAssumption DEF Init, NewRow, Sids
  <2>2. \A s \in Sids : Issued(s) => s \in table
    BY DEF Init, Issued
  <2>3. \A s \in Sids : StatusOf(s) \in {"new", "live"}
    BY <2>1, <2>2 DEF StatusOf
  <2>. QED
    BY <2>3 DEF Init, Authority!AuthorityInit
<1>2. Inv /\ [Next]_vars => [Authority!AuthorityNext]_(Authority!authority)
  BY NextImplements
<1>. QED
  BY <1>1, <1>2, InvHolds, PTL DEF Spec, ImplementsAuthority, Authority!AuthoritySpec

(* The sessions whose rows are there were signed in at the account's        *)
(* current version: no bearer of an old version finds its session.          *)
RowsAreCurrent == \A s \in table : stamp[s] = version

(* A change of password that commits while a sign-in or a rotation waits    *)
(* leaves no session of the old version (change_password and               *)
(* create_session_with).                                                    *)
THEOREM NoRowIsOutdated == Spec => []RowsAreCurrent
<1>1. Inv => RowsAreCurrent
  BY DEF Inv, Consistent, Registered, RowsAreCurrent
<1>. QED
  BY <1>1, InvHolds, PTL

(* A session that ended, by logout, revocation, reuse or expiry, stays      *)
(* ended, though a rotation of it may commit later.                         *)
EndedIsFinal == [][\A s \in Sids : StatusOf(s) = "ended" => StatusOf(s)' = "ended"]_vars

(* The authority never revives a session. *)
LEMMA AuthorityKeepsEnded ==
    ASSUME NEW s \in Sids, StatusOf(s) = "ended",
           [Authority!AuthorityNext]_(Authority!authority)
    PROVE  StatusOf(s)' = "ended"
<1>. DEFINE st == [t \in Sids |-> StatusOf(t)]
<1>1. st[s] = "ended" /\ (st'[s] = "ended" => StatusOf(s)' = "ended")
  OBVIOUS
<1>2. CASE UNCHANGED Authority!authority
  BY <1>1, <1>2 DEF Authority!authority
<1>3. ASSUME NEW t \in Sids, NEW S, Authority!SignIn(t, S)
      PROVE  st'[s] = "ended"
  BY <1>3, <1>1 DEF Authority!SignIn, Authority!Present
<1>4. ASSUME NEW t \in Sids, Authority!Renew(t)
      PROVE  st'[s] = "ended"
  BY <1>4, <1>1 DEF Authority!Renew, Authority!Present
<1>5. ASSUME NEW S, Authority!Lapse(S) \/ Authority!End(S)
      PROVE  st'[s] = "ended"
  BY <1>5, <1>1 DEF Authority!Lapse, Authority!End, Authority!Present
<1>6. CASE Authority!Bump
  BY <1>6, <1>1 DEF Authority!Bump, Authority!Present
<1>. QED
  BY <1>1, <1>2, <1>3, <1>4, <1>5, <1>6 DEF Authority!AuthorityNext

(* No interleaving of the transactions does either. *)
THEOREM EndedSessionsStayEnded == Spec => EndedIsFinal
<1>1. Inv /\ [Next]_vars
        => [\A s \in Sids : StatusOf(s) = "ended" => StatusOf(s)' = "ended"]_vars
  BY NextImplements, AuthorityKeepsEnded
<1>. QED
  BY <1>1, InvHolds, PTL DEF Spec, EndedIsFinal
=============================================================================
