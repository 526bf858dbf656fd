------------------------ MODULE MemberStandingProofs ------------------------
(* Which members may be retained and which sessions may go on: theorems      *)
(* about lobbies and revocations of MemberSessions, for any sets of rooms,   *)
(* sockets and accounts.                                                     *)
EXTENDS MemberSessionsProofs

(* A seat in a lobby is known as one to the task that closes its socket. *)
Waiting(s, r, p) == Owns(s, r, p) /\ seat[r][p].lobby
Flagged ==
    \A s \in Sockets, r \in Rooms, p \in People :
        Waiting(s, r, p) => pc[s] = "lobbied" \/ (flag[s] /\ pc[s] # "joined")
Unflagged == \A s \in Sockets : pc[s] = "retaining" \/ timer[s] # "off" => ~flag[s]
Graceful == Flagged /\ Unflagged

(* No account was sent a version it has not reached. *)
Ahead == \A a \in Accounts : sent[a] <= version[a]

(* A check is in flight only while somebody waits for it. *)
Unasked ==
    \A s \in Sockets :
        /\ pc[s] \in {"new", "shaking", "validated", "rechecking", "parting", "retaining",
                      "removing", "marking", "closed"} => check[s] = "none"
        /\ pc[s] \notin {"renewing", "rechecking", "marking", "closed"} => query[s] = "none"
        /\ timer[s] = "armed" => query[s] = "none"

Standing == Ahead /\ Unasked /\ NoRevocationLost

(* A seat in a lobby was one before the step, or was just taken. *)
LEMMA WaitingSteps ==
    ASSUME Custodial, [Next]_vars, NEW x \in Sockets, NEW r \in Rooms, NEW p \in People,
           Waiting(x, r, p)'
    PROVE  Waiting(x, r, p) \/ (JoinCommit(x) /\ pc'[x] = "lobbied")
<1> DEFINE Kept == Waiting(x, r, p)
<1>a. TypeOK /\ Located
  BY DEF Custodial
<1>0. seat'[r][p] = seat[r][p] => Kept
  BY DEF Waiting, Owns
<1>1. ASSUME NEW s, NEW q, NEW u, seat' = Vacated(s, q, u) PROVE Kept
  <2>1. seat'[r][p] = None \/ seat'[r][p] = seat[r][p]
    BY <1>a, <1>1 DEF Vacated, TypeOK
  <2> QED BY <1>0, <2>1 DEF Waiting, Owns
<1>3. seat' = seat => Kept
  BY <1>0
<1>4. ASSUME NEW q, NEW u, NEW y,
             seat' = [seat EXCEPT ![q][u] = y], y.lobby = FALSE
      PROVE  Kept
  <2>1. seat'[r][p] = y \/ seat'[r][p] = seat[r][p]
    BY <1>a, <1>4 DEF TypeOK
  <2> QED BY <1>0, <1>4, <2>1 DEF Waiting
<1>5. ASSUME NEW s \in Sockets, Socket(s)
      PROVE  Kept \/ (JoinCommit(x) /\ pc'[x] = "lobbied")
  <2> HIDE DEF Kept
  <2>1. CASE Credentials(s)
    BY <1>a, <1>3, <2>1, CredentialSteps DEF roomVars
  <2>2. CASE JoinCommit(s)
    <3>1. ASSUME NEW lobby \in BOOLEAN,
                 seat' = [seat EXCEPT ![want[s]][pid[s]] =
                            [owner |-> s, lobby |-> lobby, connected |-> TRUE]],
                 Goto(s, IF lobby THEN "lobbied" ELSE "joined")
          PROVE  Kept \/ (JoinCommit(x) /\ pc'[x] = "lobbied")
      <4>1. CASE seat'[r][p] = seat[r][p]
        BY <1>0, <4>1
      <4>2. CASE seat'[r][p] = [owner |-> s, lobby |-> lobby, connected |-> TRUE]
        <5>1. x = s /\ lobby
          BY <4>2 DEF Waiting, Owns
        <5> QED BY <1>a, <2>2, <3>1, <5>1 DEF Goto, TypeOK
      <4> QED BY <1>a, <3>1, <4>1, <4>2 DEF TypeOK
    <3> QED BY <1>3, <2>2, <3>1 DEF JoinCommit
  <2>3. CASE Resume(s)
    <3>1. CASE seat' = [seat EXCEPT ![here[other[s]]][pid[other[s]]] =
                          [owner |-> s, lobby |-> FALSE, connected |-> TRUE]]
      <4> DEFINE y == [owner |-> s, lobby |-> FALSE, connected |-> TRUE]
      <4>1. y.lobby = FALSE /\ seat' = [seat EXCEPT ![here[other[s]]][pid[other[s]]] = y]
        BY <3>1
      <4> HIDE DEF y
      <4> QED BY <1>4, <4>1
    <3> QED BY <1>3, <2>3, <3>1 DEF Resume
  <2>4. CASE seat' = Vacated(s, here[s], pid[s])
    BY <1>1, <2>4
  <2>5. CASE seat' = Vacated(other[s], want[s], pid[s])
    BY <1>1, <2>5
  <2>6. CASE seat' = Vacated(other[s], here[other[s]], pid[other[s]])
    BY <1>1, <2>6
  <2>7. CASE Mark(s)
    <3>1. CASE /\ here[s] # None /\ Owns(s, here[s], pid[s]) /\ ~seat[here[s]][pid[s]].lobby
               /\ seat' = [seat EXCEPT ![here[s]][pid[s]] =
                             [seat[here[s]][pid[s]] EXCEPT !.connected = FALSE]]
      <4> DEFINE y == [seat[here[s]][pid[s]] EXCEPT !.connected = FALSE]
      <4>1. seat[here[s]][pid[s]] \in Seats
        BY <1>a, <3>1 DEF Owns, TypeOK
      <4>2. y.lobby = FALSE
        BY <3>1, <4>1 DEF Seats
      <4>3. seat' = [seat EXCEPT ![here[s]][pid[s]] = y]
        BY <3>1
      <4> HIDE DEF y
      <4> QED BY <1>4, <4>2, <4>3
    <3> QED BY <1>3, <2>7, <3>1 DEF Mark
  <2>8. CASE ~(Credentials(s) \/ JoinCommit(s) \/ Resume(s) \/ Mark(s))
    BY <1>3, <1>5, <2>4, <2>5, <2>6, <2>8 DEF Socket, Credentials, Subscribe, Validate,
       Accept, JoinStart, JoinMove, JoinLookup, JoinReplace, JoinSettle, LeaveStart,
       LeaveEnd, Reconnect, ResumeFails, Part, Retain, RemoveOwn, WriterEnds, roomVars
  <2> QED BY <2>1, <2>2, <2>3, <2>7, <2>8
<1>6. ASSUME NEW s \in Sockets, Timer(s) \/ Around(s) PROVE Kept
  <2> HIDE DEF Kept
  <2>1. CASE seat' = Vacated(s, here[s], pid[s])
    BY <1>1, <2>1
  <2> QED BY <1>a, <1>3, <1>6, <2>1, BackgroundSteps
<1>7. CASE World
  <2>1. ASSUME NEW q \in Rooms, NEW u \in People, Admit(q, u) PROVE Kept
    <3> DEFINE y == [seat[q][u] EXCEPT !.lobby = FALSE]
    <3>1. seat[q][u] \in Seats
      BY <1>a, <2>1 DEF Admit, TypeOK
    <3>2. y.lobby = FALSE
      BY <3>1 DEF Seats
    <3>3. seat' = [seat EXCEPT ![q][u] = y]
      BY <2>1 DEF Admit
    <3> HIDE DEF y, Kept
    <3> QED BY <1>4, <3>2, <3>3
  <2>2. CASE \A q \in Rooms, u \in People : ~Admit(q, u)
    <3>1. seat'[r][p] = None \/ seat'[r][p] = seat[r][p]
      BY <1>a, <1>7, <2>2 DEF World, Revoke, ChangeCredentials, Notify, TakeRevoked, Eject,
         DrainBegin, DrainClose, DrainRoom, TypeOK, vars, roomVars
    <3> QED BY <1>0, <3>1 DEF Waiting, Owns
  <2> QED BY <2>1, <2>2
<1> QED BY <1>5, <1>6, <1>7, NextCases

(* A socket's own steps keep a lobby seat known as one. *)
LEMMA FlaggedSocket ==
    ASSUME Custodial, Flagged, NEW s \in Sockets, Socket(s)
    PROVE  Flagged'
<1> SUFFICES ASSUME NEW x \in Sockets, NEW r \in Rooms, NEW p \in People, Waiting(x, r, p)'
             PROVE  pc'[x] = "lobbied" \/ (flag'[x] /\ pc'[x] # "joined")
  BY DEF Flagged
<1>a. TypeOK
  BY DEF Custodial
<1>b. Next
  BY DEF Next
<1>1. CASE JoinCommit(x) /\ pc'[x] = "lobbied"
  BY <1>1
<1>2. CASE Waiting(x, r, p) /\ s # x
  <2>1. pc'[x] = pc[x] /\ flag'[x] = flag[x]
    BY <1>a, <1>2 DEF TypeOK, Socket, Subscribe, Validate, Accept, JoinStart, JoinMove,
       JoinLookup, JoinReplace, JoinCommit, JoinSettle, LeaveStart, LeaveEnd, Reconnect,
       Resume, ResumeFails, Notice, NoticesLost, CheckBegin, CheckEnd, RenewBegin, RenewEnd,
       Disconnect, RecheckBegin, RecheckEnd, Part, Retain, RemoveOwn, WriterEnds, Mark,
       Goto, socketVars
  <2> QED BY <1>2, <2>1 DEF Flagged
<1>3. CASE Waiting(x, r, p) /\ s = x
  <2>1. SeatedAt(x, r, p) /\ (pc[x] = "lobbied" \/ (flag[x] /\ pc[x] # "joined"))
    BY <1>3 DEF Custodial, Seated, Waiting, Flagged
  <2>2. \/ pc[x] = "lobbied"
        \/ /\ pc[x] \in Attending \cup {"marking", "closed"}
           /\ flag[x] /\ here[x] = r /\ pid[x] = p
    BY <2>1 DEF SeatedAt
  <2>3. CASE Credentials(x)
    BY <1>a, <2>2, <2>3, CredentialSteps DEF Settling, socketVars, TypeOK
  <2>4. CASE LeaveEnd(x)
    BY <1>a, <2>2, <2>4, OwnsVacated DEF LeaveEnd, Waiting
  <2>5. CASE JoinSettle(x)
    BY <1>a, <2>2, <2>5 DEF JoinSettle, Goto, Attending, TypeOK
  <2> QED BY <1>a, <1>3, <2>2, <2>3, <2>4, <2>5 DEF TypeOK, Socket, Credentials,
             Subscribe, Validate, Accept, JoinStart, JoinMove, JoinLookup, JoinReplace,
             JoinCommit, LeaveStart, Reconnect, Resume, ResumeFails, Part, Retain, RemoveOwn,
             WriterEnds, Mark, Goto, Ready, Listening, Attending, socketVars
<1> QED BY <1>b, <1>1, <1>2, <1>3, WaitingSteps

(* The timers, the checks and the moderators keep it, too. *)
LEMMA FlaggedAround ==
    ASSUME Custodial, Flagged, [Next]_vars,
           World \/ \E s \in Sockets : Timer(s) \/ Around(s)
    PROVE  Flagged'
<1> SUFFICES ASSUME NEW x \in Sockets, NEW r \in Rooms, NEW p \in People, Waiting(x, r, p)'
             PROVE  pc'[x] = "lobbied" \/ (flag'[x] /\ pc'[x] # "joined")
  BY DEF Flagged
<1>a. TypeOK /\ ClosedIsDraining
  BY DEF Custodial
<1>1. CASE JoinCommit(x) /\ pc'[x] = "lobbied"
  BY <1>1
<1>2. CASE Waiting(x, r, p)
  <2>0. SeatedAt(x, r, p) /\ (pc[x] = "lobbied" \/ (flag[x] /\ pc[x] # "joined"))
    BY <1>2 DEF Custodial, Seated, Waiting, Flagged
  <2>1. ASSUME NEW s \in Sockets, Timer(s) \/ Around(s)
        PROVE  pc'[x] = pc[x] /\ flag'[x] = flag[x]
    BY <1>a, <2>1, BackgroundSteps DEF socketVars
  <2>2. ASSUME NEW q \in Rooms, NEW u \in People, Admit(q, u)
        PROVE  pc'[x] = pc[x] /\ flag'[x] = flag[x]
    <3>1. CASE seat[q][u].owner = x
      <4>1. Owns(x, q, u)
        BY <2>2, <3>1 DEF Owns, Admit
      <4>2. SeatedAt(x, q, u)
        BY <4>1 DEF Custodial, Seated
      <4>3. q = r /\ u = p
        BY <2>0, <4>2 DEF SeatedAt, Attending
      <4> DEFINE y == [seat[q][u] EXCEPT !.lobby = FALSE]
      <4>4. seat[q][u] \in Seats
        BY <1>a, <2>2 DEF Admit, TypeOK
      <4>5. y.lobby = FALSE /\ seat' = [seat EXCEPT ![q][u] = y]
        BY <2>2, <4>4 DEF Admit, Seats
      <4>6. seat'[r][p].lobby = FALSE
        <5> HIDE DEF y
        <5> QED BY <1>a, <4>3, <4>5 DEF TypeOK
      <4> QED BY <4>6 DEF Waiting
    <3>2. CASE seat[q][u].owner # x
      BY <1>a, <2>2, <3>2 DEF Admit, TypeOK
    <3> QED BY <3>1, <3>2
  <2>3. CASE World
    <3>1. pc'[x] = pc[x] /\ flag'[x] = flag[x]
      BY <2>2, <2>3 DEF World, Revoke, ChangeCredentials, Notify, TakeRevoked, Eject,
         DrainBegin, DrainClose, DrainRoom, vars, socketVars
    <3> QED BY <2>0, <3>1
  <2> QED BY <2>0, <2>1, <2>3
<1> QED BY <1>1, <1>2, WaitingSteps

(* Nobody who is flagged is about to be retained, or is. *)
LEMMA UnflaggedSteps ==
    ASSUME Custodial, Unflagged, [Next]_vars
    PROVE  Unflagged'
<1> SUFFICES ASSUME NEW x \in Sockets, pc'[x] = "retaining" \/ timer'[x] # "off"
             PROVE  ~flag'[x]
  BY DEF Unflagged
<1>a. /\ TypeOK /\ ClosedIsDraining
      /\ timer[x] # "off" => pc[x] \in {"marking", "closed"}
      /\ pc[x] = "retaining" \/ timer[x] # "off" => ~flag[x]
  BY DEF Custodial, LeftAreGone, Unflagged
<1>1. ASSUME NEW s \in Sockets, Socket(s) PROVE ~flag'[x]
  <2>1. CASE Credentials(s)
    BY <1>a, <2>1, CredentialSteps DEF Settling, socketVars, TypeOK
  <2>2. CASE JoinSettle(s)
    BY <1>a, <2>2 DEF JoinSettle, Goto, TypeOK
  <2>3. CASE LeaveEnd(s)
    BY <1>a, <2>3 DEF LeaveEnd, Goto, TypeOK
  <2>4. CASE Part(s)
    BY <1>a, <2>4 DEF Part, Goto, socketVars, TypeOK
  <2>5. CASE Retain(s)
    BY <1>a, <2>5 DEF Retain, Goto, socketVars, TypeOK
  <2>6. CASE ~(Credentials(s) \/ JoinSettle(s) \/ LeaveEnd(s) \/ Part(s) \/ Retain(s))
    <3>1. flag' = flag /\ (pc'[x] = "retaining" => pc[x] = "retaining")
                       /\ (timer'[x] # "off" => timer[x] # "off")
      BY <1>a, <1>1, <2>6 DEF TypeOK, Socket, Credentials, Subscribe, Validate, Accept,
         JoinStart, JoinMove, JoinLookup, JoinReplace, JoinCommit, LeaveStart, Reconnect,
         Resume, ResumeFails, RemoveOwn, WriterEnds, Mark, Goto, socketVars
    <3> QED BY <1>a, <3>1
  <2> QED BY <2>1, <2>2, <2>3, <2>4, <2>5, <2>6
<1>2. ASSUME NEW s \in Sockets, Timer(s) \/ Around(s) PROVE ~flag'[x]
  BY <1>a, <1>2, BackgroundSteps DEF socketVars, TypeOK
<1>3. CASE World
  <2>1. pc' = pc /\ (timer'[x] # "off" => timer[x] # "off")
    BY <1>a, <1>3, WorldSteps DEF Aside
  <2>2. flag'[x] => flag[x]
    BY <1>a, <1>3 DEF World, Revoke, ChangeCredentials, Notify, TakeRevoked, Admit, Eject,
       DrainBegin, DrainClose, DrainRoom, vars, socketVars, TypeOK
  <2> QED BY <1>a, <2>1, <2>2
<1> QED BY <1>1, <1>2, <1>3, NextCases

(* The closing task knows every lobby seat as one, whatever a moderator    *)
(* does to it meanwhile.                                                   *)
THEOREM GracefulHolds == Spec => []Graceful
<1>1. Init => Graceful
  BY DEF Init, Graceful, Flagged, Unflagged, Waiting, Owns
<1>2. Custodial /\ Graceful /\ [Next]_vars => Graceful'
  BY NextCases, FlaggedSocket, FlaggedAround, UnflaggedSteps DEF Graceful
<1> QED BY <1>1, <1>2, CustodialHolds, PTL DEF Spec

(* A member that waits in a lobby is never retained for a reconnect, with  *)
(* any number of sockets: the flag that the closing task consults is never *)
(* behind the seat (handle_connection, retain_for_reconnect).              *)
THEOREM NoGraceInTheLobby == Spec => []LobbyGetsNoGrace
<1>1. Custodial /\ Graceful => LobbyGetsNoGrace
  <2> SUFFICES ASSUME Custodial, Graceful, NEW s \in Retained, NEW r \in Rooms,
                      NEW p \in People, Owns(s, r, p), seat[r][p].lobby
               PROVE  FALSE
    BY DEF LobbyGetsNoGrace
  <2>1. s \in Sockets /\ timer[s] # "off"
    BY DEF Retained
  <2>2. pc[s] \in {"marking", "closed"}
    BY <2>1 DEF Custodial, LeftAreGone
  <2> QED BY <2>1, <2>2 DEF Graceful, Flagged, Unflagged, Waiting
<1> QED BY <1>1, CustodialHolds, GracefulHolds, PTL

(* A step that does not touch what a session knows, or make it live. *)
Undisturbed(x) ==
    ~draining' => /\ ~draining
                  /\ UNCHANGED <<sent, who[x], cred[x], mail[x], check[x], query[x]>>
                  /\ Live(x)' => Live(x)

(* What must not be lost of x. *)
Unlost(x) ==
    ~draining /\ who[x] # None /\ Live(x) /\ cred[x].version < sent[who[x]] => Informed(x)

(* A session that nobody disturbs keeps what it knows. *)
LEMMA UnlostKept ==
    ASSUME NEW x, Unlost(x), Undisturbed(x)
    PROVE  Unlost(x)'
BY DEF Unlost, Undisturbed, Informed, Revoking, Lapsed

(* A check that a session owes cannot restore one that a revocation has    *)
(* reached: it ends it, or it was over.                                    *)
LEMMA SettledInformed ==
    ASSUME TypeOK, NEW x \in Sockets, NEW answer,
           \/ Revoking(x) \/ mail[x].lagged
           \/ cred[x].must /\ answer \in {"revoked", "unavailable"}
           \/ Lapsed(x) \/ cred[x].invalidated
    PROVE  /\ Settled(x, answer).version = cred[x].version
           /\ Settled(x, answer).life = "over" \/ Settled(x, answer).invalidated
           /\ Settled(x, answer).life = "over" => Invalidated(Settled(x, answer)).invalidated
           /\ Invalidated(Settled(x, answer)).version = cred[x].version
<1>1. cred[x] \in Creds
  BY DEF TypeOK
<1> QED BY <1>1 DEF Creds, Settled, Observed, Invalidated, Lapsed

(* The task of one socket does not disturb another. *)
LEMMA OthersUndisturbed ==
    ASSUME TypeOK, NEW s \in Sockets, Socket(s) \/ Timer(s) \/ Around(s),
           NEW x \in Sockets, x # s
    PROVE  Undisturbed(x)
<1>1. UNCHANGED <<draining, sent, who[x], cred[x], mail[x], check[x], query[x], pc[x]>>
  BY DEF TypeOK, Socket, Subscribe, Validate, Accept, JoinStart, JoinMove, JoinLookup,
     JoinReplace, JoinCommit, JoinSettle, LeaveStart, LeaveEnd, Reconnect, Resume,
     ResumeFails, Notice, NoticesLost, CheckBegin, CheckEnd, RenewBegin, RenewEnd,
     Disconnect, RecheckBegin, RecheckEnd, Part, Retain, RemoveOwn, WriterEnds, Mark, Timer,
     TimerCheckBegin, TimerCheckEnd, TimerNotice, TimerExpires, TimerStops, TimerRemoves,
     Around, WriterFails, Query, Lapse, FallBehind, Purge, Goto, roomVars, accountVars,
     socketVars, credVars
<1>2. timer'[x] = timer[x] \/ timer'[x] = "off"
  BY DEF TypeOK, Socket, Subscribe, Validate, Accept, JoinStart, JoinMove, JoinLookup,
     JoinReplace, JoinCommit, JoinSettle, LeaveStart, LeaveEnd, Reconnect, Resume,
     ResumeFails, Notice, NoticesLost, CheckBegin, CheckEnd, RenewBegin, RenewEnd,
     Disconnect, RecheckBegin, RecheckEnd, Part, Retain, RemoveOwn, WriterEnds, Mark, Timer,
     TimerCheckBegin, TimerCheckEnd, TimerNotice, TimerExpires, TimerStops, TimerRemoves,
     Around, WriterFails, Query, Lapse, FallBehind, Purge
<1> QED BY <1>1, <1>2 DEF Undisturbed, Live

(* Nor do the room's business of its own task: only opening and settling   *)
(* credentials do.                                                         *)
LEMMA OwnUndisturbed ==
    ASSUME Custodial, NEW x \in Sockets, Socket(x), ~Credentials(x), ~Validate(x), ~Subscribe(x)
    PROVE  Undisturbed(x)
<1>a. TypeOK /\ (timer[x] # "off" => pc[x] \in {"marking", "closed"})
  BY DEF Custodial, LeftAreGone
<1>1. UNCHANGED <<draining, sent, who, cred, check, query>>
  BY DEF Socket, Credentials, Accept, JoinStart, JoinMove, JoinLookup,
     JoinReplace, JoinCommit, JoinSettle, LeaveStart, LeaveEnd, Reconnect, Resume,
     ResumeFails, Part, Retain, RemoveOwn, WriterEnds, Mark, roomVars, accountVars,
     socketVars, credVars
<1>2. CASE Accept(x)
  <2>1. Live(x) /\ (mail'[x] = mail[x] \/ draining')
    BY <1>2 DEF Accept, Live, roomVars
  <2> QED BY <1>1, <2>1 DEF Undisturbed
<1>3. CASE ~Accept(x)
  <2>1. UNCHANGED mail
    BY <1>3 DEF Socket, Credentials, Accept, JoinStart, JoinMove, JoinLookup,
       JoinReplace, JoinCommit, JoinSettle, LeaveStart, LeaveEnd, Reconnect, Resume,
       ResumeFails, Part, Retain, RemoveOwn, WriterEnds, Mark, credVars
  <2>2. CASE Live(x)
    BY <1>1, <2>1, <2>2 DEF Undisturbed
  <2>3. CASE ~Live(x)
    <3>1. pc[x] \in {"removing", "marking"}
      BY <1>a, <1>3, <2>3 DEF Socket, Credentials, JoinStart, JoinMove, JoinLookup,
         JoinReplace, JoinCommit, JoinSettle, LeaveStart, LeaveEnd, Reconnect, Resume,
         ResumeFails, Part, Retain, RemoveOwn, WriterEnds, Mark, Ready, Listening, Live,
         Attending
    <3>2. UNCHANGED timer /\ pc'[x] \in {"removing", "marking", "closed"}
      BY <1>a, <1>3, <3>1 DEF Socket, Credentials, JoinStart, JoinMove, JoinLookup,
         JoinReplace, JoinCommit, JoinSettle, LeaveStart, LeaveEnd, Reconnect, Resume,
         ResumeFails, Part, Retain, RemoveOwn, WriterEnds, Mark, Ready, Listening, Goto,
         TypeOK
    <3>3. ~Live(x)'
      BY <2>3, <3>2 DEF Live, Attending
    <3> QED BY <1>1, <2>1, <3>3 DEF Undisturbed
  <2> QED BY <2>2, <2>3
<1> QED BY <1>2, <1>3

(* Opening: the claims are as new as any announcement. *)
LEMMA OpeningUnlost ==
    ASSUME Custodial, Ahead, NEW x \in Sockets, Subscribe(x) \/ Validate(x)
    PROVE  Unlost(x)'
<1>a. TypeOK /\ timer[x] = "off"
  BY DEF Custodial, LeftAreGone, Subscribe, Validate
<1>1. CASE Subscribe(x)
  <2>1. ~Live(x)'
    BY <1>a, <1>1 DEF Subscribe, Goto, Live, Attending, TypeOK
  <2> QED BY <2>1 DEF Unlost
<1>2. CASE Validate(x)
  <2>1. CASE pc'[x] = "closed"
    <3>1. ~Live(x)'
      BY <1>a, <1>2, <2>1 DEF Validate, Live, Attending
    <3> QED BY <3>1 DEF Unlost
  <2>2. CASE pc'[x] # "closed"
    <3>1. /\ cred'[x] = NewCred(IF who[x] = None THEN 0 ELSE version[who[x]])
          /\ who' = who /\ sent' = sent
      BY <1>a, <1>2, <2>2 DEF Validate, Goto, TypeOK, socketVars, accountVars
    <3>2. who[x] # None => who[x] \in Accounts /\ sent[who[x]] <= version[who[x]]
                           /\ sent[who[x]] \in Nat /\ version[who[x]] \in Nat
      BY <1>a DEF TypeOK, Ahead
    <3>3. who[x] # None => cred'[x].version = version[who[x]]
      BY <3>1 DEF NewCred
    <3> QED BY <3>1, <3>2, <3>3 DEF Unlost
  <2> QED BY <2>1, <2>2
<1> QED BY <1>1, <1>2

(* What a socket's task makes of notices, of checks and of their lack.     *)
LEMMA CredentialsUnlost ==
    ASSUME Custodial, Unasked, NEW x \in Sockets, Unlost(x), Credentials(x)
    PROVE  Unlost(x)'
<1>a. TypeOK /\ cred[x] \in Creds /\ mail[x] \in Mails
      /\ check[x] \in Answers \cup {"none", "asked"}
      /\ query[x] \in Answers \cup {"none", "asked"}
  BY DEF Custodial, TypeOK
<1>b. Live(x) /\ UNCHANGED <<draining, sent, who>>
  BY <1>a, CredentialSteps DEF Settling, Live, Attending, roomVars, accountVars, socketVars
<1> SUFFICES ASSUME ~draining, who[x] # None, cred'[x].version < sent[who[x]], Live(x)'
             PROVE  Informed(x)'
  BY <1>b DEF Unlost
<1>c. pc[x] = "open" => query[x] = "none"
  BY DEF Unasked
<1>d. ASSUME cred'[x].version = cred[x].version PROVE Informed(x)
  BY <1>b, <1>d DEF Unlost
<1>e. ASSUME Informed(x), NEW answer \in Answers,
             answer = check[x] \/ answer = query[x],
             \/ cred'[x] = Settled(x, answer) /\ Settled(x, answer).life # "over"
             \/ cred'[x] = Invalidated(Settled(x, answer)) /\ Settled(x, answer).life = "over"
      PROVE  Informed(x)'
  <2>1. \/ Revoking(x) \/ mail[x].lagged
        \/ cred[x].must /\ answer \in {"revoked", "unavailable"}
        \/ Lapsed(x) \/ cred[x].invalidated
    BY <1>e DEF Informed, Answers
  <2>2. cred'[x].invalidated
    BY <1>a, <1>e, <2>1, SettledInformed
  <2> QED BY <2>2 DEF Informed
<1>f. \A answer : /\ Settled(x, answer).version = cred[x].version
                   /\ Invalidated(Settled(x, answer)).version = cred[x].version
  BY <1>a DEF Creds, Settled, Observed, Invalidated
<1>1. CASE Notice(x)
  <2>1. cred'[x] = cred[x] \/ cred'[x] = Invalidated(cred[x])
    BY <1>a, <1>1 DEF Notice, TypeOK
  <2>2. CASE cred'[x] = cred[x] /\ ~Revoking(x)
    BY <1>a, <1>1, <1>d, <2>2 DEF Notice, Informed, Lapsed, TypeOK
  <2>3. CASE Revoking(x)
    <3>1. cred'[x] = Invalidated(cred[x])
      BY <1>a, <1>1, <2>3 DEF Notice, TypeOK
    <3> QED BY <1>a, <3>1 DEF Informed, Invalidated, Creds
  <2> QED BY <1>1, <2>2, <2>3 DEF Notice
<1>2. CASE NoticesLost(x)
  <2>1. cred'[x] = [cred[x] EXCEPT !.must = TRUE] /\ check'[x] = "none" /\ query'[x] = "none"
    BY <1>a, <1>2, <1>c DEF NoticesLost, Listening, TypeOK
  <2>2. cred'[x].must
    BY <1>a, <2>1 DEF Creds
  <2> QED BY <2>1, <2>2 DEF Informed
<1>3. CASE CheckBegin(x)
  <2>1. CASE Lapsed(x)
    <3>1. cred'[x] = Invalidated(cred[x])
      BY <1>a, <1>3, <2>1 DEF CheckBegin, TypeOK
    <3> QED BY <1>a, <3>1 DEF Informed, Invalidated, Creds
  <2>2. CASE ~Lapsed(x)
    <3>1. cred'[x] = cred[x] /\ mail'[x] = mail[x] /\ check'[x] = "asked" /\ query'[x] = query[x]
      BY <1>a, <1>3, <2>2 DEF CheckBegin, TypeOK
    <3> QED BY <1>d, <3>1 DEF Informed, Revoking, Lapsed
  <2> QED BY <2>1, <2>2
<1>4. CASE CheckEnd(x)
  <2>1. /\ check[x] \in Answers
        /\ \/ cred'[x] = Settled(x, check[x]) /\ Settled(x, check[x]).life # "over"
           \/ /\ cred'[x] = Invalidated(Settled(x, check[x]))
              /\ Settled(x, check[x]).life = "over"
    BY <1>a, <1>4 DEF CheckEnd, TypeOK
  <2> QED BY <1>d, <1>e, <1>f, <2>1
<1>5. CASE RenewBegin(x)
  <2>1. cred'[x] = cred[x] /\ mail'[x] = mail[x] /\ check'[x] = check[x] /\ query'[x] = "asked"
    BY <1>a, <1>5 DEF RenewBegin, TypeOK
  <2> QED BY <1>d, <2>1 DEF Informed, Revoking, Lapsed
<1>6. CASE RenewEnd(x)
  <2>1. CASE UNCHANGED <<cred, mail>>
    <3>1. check'[x] = check[x] /\ query'[x] = "none"
      BY <1>a, <1>6 DEF RenewEnd, TypeOK
    <3> QED BY <1>d, <2>1, <3>1 DEF Informed, Revoking, Lapsed
  <2>2. CASE ~UNCHANGED <<cred, mail>>
    <3>1. /\ query[x] \in Answers
          /\ \/ cred'[x] = Settled(x, query[x]) /\ Settled(x, query[x]).life # "over"
             \/ /\ cred'[x] = Invalidated(Settled(x, query[x]))
                /\ Settled(x, query[x]).life = "over"
      BY <1>a, <1>6, <2>2 DEF RenewEnd, TypeOK
    <3> QED BY <1>d, <1>e, <1>f, <3>1
  <2> QED BY <2>1, <2>2
<1>7. CASE Disconnect(x)
  <2>1. /\ cred'[x] = [cred[x] EXCEPT !.invalidated = @ \/ Lapsed(x)]
        /\ mail' = mail /\ check' = check /\ query' = query
    BY <1>a, <1>7 DEF Disconnect, TypeOK
  <2>2. /\ cred'[x].version = cred[x].version /\ cred'[x].must = cred[x].must
        /\ cred'[x].life = cred[x].life /\ (cred[x].invalidated => cred'[x].invalidated)
    BY <1>a, <2>1 DEF Creds
  <2> QED BY <1>d, <2>1, <2>2 DEF Informed, Revoking, Lapsed
<1>8. CASE RecheckBegin(x)
  <2>1. CASE cred' = cred
    <3>1. mail' = mail /\ check'[x] = "none" /\ query'[x] \in {query[x], "asked"}
      BY <1>a, <1>8 DEF RecheckBegin, TypeOK
    <3> QED BY <1>d, <2>1, <3>1 DEF Informed, Revoking, Lapsed
  <2>2. CASE cred' # cred
    <3>1. cred'[x] = Invalidated(cred[x])
      BY <1>a, <1>8, <2>2 DEF RecheckBegin, TypeOK
    <3> QED BY <1>a, <3>1 DEF Informed, Invalidated, Creds
  <2> QED BY <2>1, <2>2
<1>9. CASE RecheckEnd(x)
  <2>1. /\ query[x] \in Answers
        /\ \/ cred'[x] = Settled(x, query[x]) /\ Settled(x, query[x]).life # "over"
           \/ /\ cred'[x] = Invalidated(Settled(x, query[x]))
              /\ Settled(x, query[x]).life = "over"
    BY <1>a, <1>9 DEF RecheckEnd, TypeOK
  <2> QED BY <1>d, <1>e, <1>f, <2>1
<1> QED BY <1>1, <1>2, <1>3, <1>4, <1>5, <1>6, <1>7, <1>8, <1>9 DEF Credentials

(* What a retained session's timer makes of them. *)
LEMMA TimerUnlost ==
    ASSUME Custodial, Unasked, NEW x \in Sockets, Unlost(x), Timer(x)
    PROVE  Unlost(x)'
<1>a. TypeOK /\ cred[x] \in Creds /\ mail[x] \in Mails
      /\ check[x] \in Answers \cup {"none", "asked"}
      /\ query[x] \in Answers \cup {"none", "asked"}
  BY DEF Custodial, TypeOK
<1>b. UNCHANGED <<draining, sent, who, pc, check>>
  BY DEF Timer, TimerCheckBegin, TimerCheckEnd, TimerNotice, TimerExpires, TimerStops,
     TimerRemoves, roomVars, accountVars, socketVars, credVars
<1>c. timer[x] # "off" /\ pc[x] \in {"marking", "closed"} /\ check[x] = "none"
  <2>1. timer[x] # "off"
    BY DEF Timer, TimerCheckBegin, TimerCheckEnd, TimerNotice, TimerExpires, TimerStops,
       TimerRemoves
  <2>2. pc[x] \in {"marking", "closed"}
    BY <2>1 DEF Custodial, LeftAreGone
  <2> QED BY <2>1, <2>2 DEF Unasked
<1>d. timer'[x] \notin {"armed", "checking"} => ~Live(x)'
  BY <1>b, <1>c DEF Live, Attending
<1> SUFFICES ASSUME ~draining, who[x] # None, cred'[x].version < sent[who[x]],
                    timer'[x] \in {"armed", "checking"}
             PROVE  Informed(x)'
  BY <1>b, <1>d DEF Unlost
<1>e. ASSUME cred'[x].version = cred[x].version, timer[x] \in {"armed", "checking"}
      PROVE  Informed(x)
  BY <1>b, <1>e DEF Unlost, Live
<1>1. CASE TimerCheckBegin(x)
  <2>1. timer[x] = "armed" /\ cred' = cred /\ mail' = mail /\ query'[x] \in {query[x], "asked"}
    BY <1>a, <1>1 DEF TimerCheckBegin, TypeOK
  <2> QED BY <1>b, <1>e, <2>1 DEF Informed, Revoking, Lapsed
<1>2. CASE TimerCheckEnd(x)
  <2>1. /\ timer[x] = "checking" /\ query[x] \in Answers
        /\ cred'[x] = Settled(x, query[x]) /\ Settled(x, query[x]).life # "over"
    BY <1>a, <1>2 DEF TimerCheckEnd, TypeOK
  <2>2. Settled(x, query[x]).version = cred[x].version
    BY <1>a DEF Creds, Settled, Observed
  <2>3. Informed(x)
    BY <1>e, <2>1, <2>2
  <2>4. \/ Revoking(x) \/ mail[x].lagged
        \/ cred[x].must /\ query[x] \in {"revoked", "unavailable"}
        \/ Lapsed(x) \/ cred[x].invalidated
    BY <2>1, <2>3 DEF Informed, Answers
  <2>5. cred'[x].invalidated
    BY <1>a, <2>1, <2>4, SettledInformed
  <2> QED BY <2>5 DEF Informed
<1>3. CASE TimerNotice(x)
  <2>1. /\ timer[x] = "armed" /\ ~Revoking(x) /\ query' = query
        /\ cred'[x] = [cred[x] EXCEPT !.must = @ \/ mail[x].lagged]
    BY <1>a, <1>3 DEF TimerNotice, TypeOK
  <2>2. /\ cred'[x].version = cred[x].version /\ cred'[x].life = cred[x].life
        /\ cred'[x].invalidated = cred[x].invalidated
        /\ (cred[x].must \/ mail[x].lagged => cred'[x].must)
    BY <1>a, <2>1 DEF Creds, Mails
  <2>3. query[x] = "none"
    BY <2>1 DEF Unasked
  <2> QED BY <1>b, <1>c, <1>e, <2>1, <2>2, <2>3 DEF Informed, Lapsed
<1>4. CASE TimerExpires(x) \/ TimerStops(x) \/ TimerRemoves(x)
  BY <1>a, <1>4 DEF TimerExpires, TimerStops, TimerRemoves, TypeOK
<1> QED BY <1>1, <1>2, <1>3, <1>4 DEF Timer

(* An answer given after the change cannot be that the claims are current, *)
(* and lost notices are known to be lost.                                  *)
LEMMA AroundUnlost ==
    ASSUME Custodial, Ahead, NEW x \in Sockets, Unlost(x), Around(x)
    PROVE  Unlost(x)'
<1>a. TypeOK /\ cred[x] \in Creds
  BY DEF Custodial, TypeOK
<1>1. CASE WriterFails(x) \/ Purge(x)
  <2>1. Undisturbed(x)
    BY <1>1 DEF Undisturbed, Live, WriterFails, Purge, roomVars, accountVars, socketVars,
       credVars
  <2> QED BY <2>1, UnlostKept
<1>2. CASE Query(x)
  <2>1. UNCHANGED <<draining, sent, who, pc, timer, cred, mail>>
    BY <1>2 DEF Query, roomVars, accountVars, socketVars
  <2> SUFFICES ASSUME ~draining, who[x] # None, Live(x), cred[x].version < sent[who[x]]
               PROVE  Informed(x)'
    BY <2>1 DEF Unlost, Live
  <2>2. Informed(x)
    BY DEF Unlost
  <2>3. Answer(x) # "current"
    <3>1. /\ who[x] \in Accounts /\ cred[x].version \in Nat
          /\ sent[who[x]] \in Nat /\ version[who[x]] \in Nat
      BY <1>a DEF TypeOK, Creds
    <3>2. sent[who[x]] <= version[who[x]]
      BY <3>1 DEF Ahead
    <3>3. version[who[x]] # cred[x].version
      BY <3>1, <3>2
    <3> QED BY <3>3 DEF Answer
  <2>4. check'[x] = "current" => check[x] = "current"
    BY <1>a, <1>2, <2>3 DEF Query, TypeOK
  <2>5. query'[x] = "current" => query[x] = "current"
    BY <1>a, <1>2, <2>3 DEF Query, TypeOK
  <2> QED BY <2>1, <2>2, <2>4, <2>5 DEF Informed, Revoking, Lapsed
<1>3. CASE Lapse(x)
  <2>1. cred'[x] = [cred[x] EXCEPT !.life = "over"]
    BY <1>a, <1>3 DEF Lapse, TypeOK
  <2>2. cred'[x].life = "over"
    BY <1>a, <2>1 DEF Creds
  <2> QED BY <2>2 DEF Unlost, Informed, Lapsed
<1>4. CASE FallBehind(x)
  <2>1. mail'[x] = [notices |-> {}, lagged |-> TRUE]
    BY <1>a, <1>4 DEF FallBehind, TypeOK
  <2> QED BY <2>1 DEF Unlost, Informed
<1> QED BY <1>1, <1>2, <1>3, <1>4 DEF Around

(* An announcement reaches every session that is live. *)
LEMMA WorldUnlost ==
    ASSUME Custodial, NEW x \in Sockets, Unlost(x), World
    PROVE  Unlost(x)'
<1>a. TypeOK /\ cred[x] \in Creds /\ mail[x] \in Mails
  BY DEF Custodial, TypeOK
<1>1. ASSUME NEW a \in Accounts, Notify(a) PROVE Unlost(x)'
  <2>1. UNCHANGED <<draining, who, pc, timer, cred, check, query>>
    BY <1>1 DEF Notify, roomVars, socketVars
  <2>2. CASE who[x] = a /\ Live(x)
    <3>1. Subscribed(x)
      BY <2>2 DEF Live, Subscribed, Attending, Retained
    <3>2. sent'[a] = version[a]
      BY <1>a, <1>1 DEF Notify, TypeOK
    <3>3. mail'[x] = [mail[x] EXCEPT !.notices = @ \cup {version[a]}]
      BY <1>1, <2>2, <3>1 DEF Notify
    <3>4. version[a] \in mail'[x].notices
      BY <1>a, <3>3 DEF Mails
    <3>5. cred'[x].version < sent'[a] => Revoking(x)'
      BY <3>2, <3>4 DEF Revoking
    <3> QED BY <2>1, <2>2, <3>5 DEF Unlost, Informed
  <2>3. CASE who[x] # a /\ who[x] # None
    <3>1. sent'[who[x]] = sent[who[x]] /\ mail'[x] = mail[x]
      BY <1>a, <1>1, <2>3 DEF Notify, TypeOK
    <3> QED BY <2>1, <3>1 DEF Unlost, Informed, Revoking, Lapsed, Live
  <2>4. CASE who[x] = None \/ ~Live(x)
    BY <2>1, <2>4 DEF Unlost, Live
  <2> QED BY <2>2, <2>3, <2>4
<1>2. CASE \A a \in Accounts : ~Notify(a)
  <2>1. UNCHANGED <<sent, who, pc, credVars>>
    BY <1>2 DEF World, Revoke, ChangeCredentials, TakeRevoked, Admit, Eject, DrainBegin,
       DrainClose, DrainRoom, vars, accountVars, socketVars
  <2>2. (draining => draining') /\ (timer'[x] = timer[x] \/ timer'[x] = "off")
    BY WorldSteps DEF Aside, Custodial
  <2>3. Undisturbed(x)
    BY <1>a, <2>1, <2>2 DEF Undisturbed, Live, credVars, TypeOK
  <2> QED BY <2>3, UnlostKept
<1> QED BY <1>1, <1>2

(* An announcement is of the version that was reached. *)
LEMMA AheadSteps ==
    ASSUME TypeOK, Ahead, [Next]_vars
    PROVE  Ahead'
<1>1. ASSUME NEW a \in Accounts, ChangeCredentials(a) PROVE Ahead'
  BY <1>1 DEF ChangeCredentials, Ahead, TypeOK
<1>2. ASSUME NEW a \in Accounts, Notify(a) PROVE Ahead'
  BY <1>2 DEF Notify, Ahead, TypeOK
<1>3. CASE UNCHANGED <<version, sent>>
  BY <1>3 DEF Ahead
<1>4. CASE World
  BY <1>1, <1>2, <1>3, <1>4 DEF World, Revoke, TakeRevoked, Admit, Eject, DrainBegin,
     DrainClose, DrainRoom, vars, accountVars
<1>5. ASSUME NEW s \in Sockets, Socket(s) PROVE Ahead'
  <2>1. CASE Credentials(s)
    BY <1>3, <2>1, CredentialSteps DEF accountVars
  <2> QED BY <1>3, <1>5, <2>1 DEF Socket, Credentials, Subscribe, Validate, Accept,
             JoinStart, JoinMove, JoinLookup, JoinReplace, JoinCommit, JoinSettle,
             LeaveStart, LeaveEnd, Reconnect, Resume, ResumeFails, Part, Retain, RemoveOwn,
             WriterEnds, Mark, accountVars
<1>6. ASSUME NEW s \in Sockets, Timer(s) \/ Around(s) PROVE Ahead'
  BY <1>3, <1>6 DEF Timer, TimerCheckBegin, TimerCheckEnd, TimerNotice, TimerExpires,
     TimerStops, TimerRemoves, Around, WriterFails, Query, Lapse, FallBehind, Purge,
     accountVars
<1> QED BY <1>4, <1>5, <1>6, NextCases

(* Where a check of x may be in flight. *)
Idle(x) ==
    /\ pc[x] \in {"new", "shaking", "validated", "rechecking", "parting", "retaining",
                  "removing", "marking", "closed"} => check[x] = "none"
    /\ pc[x] \notin {"renewing", "rechecking", "marking", "closed"} => query[x] = "none"
    /\ timer[x] = "armed" => query[x] = "none"

(* Only the task or the timer that waits has asked. *)
LEMMA UnaskedSteps ==
    ASSUME Custodial, Unasked, [Next]_vars
    PROVE  Unasked'
<1> SUFFICES ASSUME NEW x \in Sockets PROVE Idle(x)'
  BY DEF Unasked, Idle
<1>a. /\ TypeOK /\ Idle(x) /\ ClosedIsDraining
      /\ timer[x] # "off" => pc[x] \in {"marking", "closed"}
  BY DEF Custodial, LeftAreGone, Unasked, Idle
<1>1. ASSUME NEW s \in Sockets, Socket(s) \/ Timer(s) \/ Around(s), s # x PROVE Idle(x)'
  <2>1. UNCHANGED <<check[x], query[x], pc[x]>> /\ (timer'[x] = timer[x] \/ timer'[x] = "off")
    BY <1>a, <1>1 DEF TypeOK, Socket, Subscribe, Validate, Accept, JoinStart, JoinMove,
       JoinLookup, JoinReplace, JoinCommit, JoinSettle, LeaveStart, LeaveEnd, Reconnect,
       Resume, ResumeFails, Notice, NoticesLost, CheckBegin, CheckEnd, RenewBegin, RenewEnd,
       Disconnect, RecheckBegin, RecheckEnd, Part, Retain, RemoveOwn, WriterEnds, Mark,
       Timer, TimerCheckBegin, TimerCheckEnd, TimerNotice, TimerExpires, TimerStops,
       TimerRemoves, Around, WriterFails, Query, Lapse, FallBehind, Purge, Goto, credVars
  <2> QED BY <1>a, <2>1 DEF Idle
<1>2. CASE Socket(x) /\ Credentials(x)
  <2>1. timer'[x] = timer[x] /\ pc[x] \in Settling
    BY <1>a, <1>2, CredentialSteps
  <2>2. timer'[x] # "armed"
    BY <1>a, <2>1 DEF Settling
  <2> QED BY <1>a, <1>2, <2>2 DEF Idle, Credentials, Notice, NoticesLost, CheckBegin,
             CheckEnd, RenewBegin, RenewEnd, Disconnect, RecheckBegin, RecheckEnd, Ready,
             Listening, Goto, TypeOK
<1>3. CASE Socket(x) /\ ~Credentials(x)
  BY <1>a, <1>3 DEF Idle, Socket, Credentials, Subscribe, Validate, Accept, JoinStart,
     JoinMove, JoinLookup, JoinReplace, JoinCommit, JoinSettle, LeaveStart, LeaveEnd,
     Reconnect, Resume, ResumeFails, Part, Retain, RemoveOwn, WriterEnds, Mark, Ready,
     Listening, Goto, TypeOK, credVars
<1>4. CASE Timer(x)
  BY <1>a, <1>4 DEF Idle, Timer, TimerCheckBegin, TimerCheckEnd, TimerNotice, TimerExpires,
     TimerStops, TimerRemoves, TypeOK, credVars
<1>5. CASE Around(x)
  <2>1. CASE Query(x)
    BY <1>a, <2>1 DEF Idle, Query, TypeOK
  <2> QED BY <1>a, <1>5, <2>1 DEF Idle, Around, WriterFails, Lapse, FallBehind, Purge,
             credVars
<1>6. CASE World
  <2>1. pc' = pc /\ (timer'[x] = timer[x] \/ timer'[x] = "off")
    BY <1>a, <1>6, WorldSteps DEF Aside
  <2>2. UNCHANGED <<check, query>>
    BY <1>6 DEF World, Revoke, ChangeCredentials, Notify, TakeRevoked, Admit, Eject,
       DrainBegin, DrainClose, DrainRoom, vars, credVars
  <2> QED BY <1>a, <2>1, <2>2 DEF Idle
<1> QED BY <1>1, <1>2, <1>3, <1>4, <1>5, <1>6, NextCases

(* Every session's standing is known: what was announced was reached, a    *)
(* check is only in flight where somebody waits for it, and no live        *)
(* session has missed an announcement.                                     *)
THEOREM StandingHolds == Spec => []Standing
<1>1. Init => Standing
  BY DEF Init, Standing, Ahead, Unasked, NoRevocationLost
<1>2. Custodial /\ Standing /\ [Next]_vars => Standing'
  <2> SUFFICES ASSUME Custodial, Standing, [Next]_vars PROVE Standing'
    OBVIOUS
  <2>0. TypeOK /\ Ahead /\ Unasked /\ \A x \in Sockets : Unlost(x)
    BY DEF Custodial, Standing, NoRevocationLost, Unlost
  <2>1. ASSUME NEW x \in Sockets PROVE Unlost(x)'
    <3>1. ASSUME NEW s \in Sockets, Socket(s) \/ Timer(s) \/ Around(s), s # x PROVE Unlost(x)'
      BY <2>0, <3>1, OthersUndisturbed, UnlostKept
    <3>2. CASE Socket(x)
      BY <2>0, <3>2, OwnUndisturbed, UnlostKept, OpeningUnlost, CredentialsUnlost
    <3>3. CASE Timer(x) \/ Around(x)
      BY <2>0, <3>3, TimerUnlost, AroundUnlost
    <3>4. CASE World
      BY <2>0, <3>4, WorldUnlost
    <3> QED BY <3>1, <3>2, <3>3, <3>4, NextCases
  <2>2. NoRevocationLost'
    BY <2>1 DEF NoRevocationLost, Unlost
  <2> QED BY <2>0, <2>2, AheadSteps, UnaskedSteps DEF Standing
<1> QED BY <1>1, <1>2, CustodialHolds, PTL DEF Spec

(* No revocation is lost, with any number of sockets, accounts and changes *)
(* of credentials: neither an early answer, nor a receiver that fell       *)
(* behind, nor the hand-over to the timer hides one (CredentialSession,    *)
(* settle_account_validation, revoke_account_sessions).                    *)
THEOREM RevocationsAreNotLost == Spec => []NoRevocationLost
<1>1. Standing => NoRevocationLost
  BY DEF Standing
<1> QED BY <1>1, StandingHolds, PTL

=============================================================================
