------------------------- MODULE MemberSessionsProofs -------------------------
(* Theorems about MemberSessions, for any sets of rooms, sockets and accounts. *)
EXTENDS MemberSessions, TLAPS

(* Where a task is determines which of its locals are set. *)
Located ==
    \A s \in Sockets :
        /\ pc[s] \in {"resuming", "dropping", "replace"} => other[s] \in Sockets
        /\ pc[s] \in {"moving", "lookup", "replace", "commit", "joined", "lobbied"}
             => want[s] \in Rooms

(* A socket holds at most the one seat its own locals name. *)
SeatedAt(s, r, p) ==
    /\ pid[s] = p
    /\ \/ pc[s] \in {"joined", "lobbied"} /\ want[s] = r
       \/ pc[s] \in Attending \cup {"marking", "closed"} /\ here[s] = r
Seated ==
    \A s \in Sockets, r \in Rooms, p \in People : Owns(s, r, p) => SeatedAt(s, r, p)

(* A revocation's cleanup, or a reconnect, took over what s left behind. *)
Taken(s) ==
    \/ s \in purge
    \/ \E t \in Sockets : pc[t] \in {"resuming", "dropping"} /\ other[t] = s

(* What a socket's task no longer attends to, its timer does, or somebody  *)
(* took it over.                                                           *)
InCare(s) == timer[s] \in {"armed", "checking", "removing"} \/ Taken(s)
LeftInCare ==
    ~draining => \A s \in Sockets, r \in Rooms, p \in People :
        Owns(s, r, p) /\ pc[s] \in {"marking", "closed"} => InCare(s)

(* Only what a closed socket left behind is retained, purged or resumed. *)
LeftAreGone ==
    \A s \in Sockets : timer[s] # "off" \/ Taken(s) => pc[s] \in {"marking", "closed"}

(* Only a channel whose writer is gone is replaced. *)
ReplacedAreDown == \A s \in Sockets : pc[s] = "replace" => down[other[s]]

ClosedIsDraining == closed => draining

(* What an account check makes of the credentials. *)
LEMMA CredTypes ==
    ASSUME NEW c \in Creds
    PROVE  /\ Invalidated(c) \in Creds
           /\ \A answer : Observed(c, answer) \in Creds
           /\ \A b \in BOOLEAN : [c EXCEPT !.must = b] \in Creds
           /\ \A b \in BOOLEAN : [c EXCEPT !.invalidated = b] \in Creds
           /\ [c EXCEPT !.life = "over"] \in Creds
BY DEF Creds, Observed, Invalidated

(* A new session's claims. *)
LEMMA NewCredType == ASSUME NEW v \in Nat PROVE NewCred(v) \in Creds
BY DEF Creds, NewCred

(* What a receiver of revocations may hold. *)
LEMMA MailTypes ==
    /\ NoMail \in Mails
    /\ [notices |-> {}, lagged |-> TRUE] \in Mails
    /\ \A m \in Mails : [m EXCEPT !.lagged = FALSE] \in Mails
BY DEF NoMail, Mails

(* Marking and admitting keep a seat a seat. *)
LEMMA SeatTypes ==
    ASSUME NEW x \in Seats, NEW b \in BOOLEAN
    PROVE  [x EXCEPT !.connected = b] \in Seats /\ [x EXCEPT !.lobby = b] \in Seats
BY DEF Seats

(* Removing a membership leaves the others in place. *)
LEMMA VacatedType ==
    ASSUME TypeOK, NEW s, NEW r, NEW p
    PROVE  Vacated(s, r, p) \in [Rooms -> [People -> Seats \cup {None}]]
BY DEF TypeOK, Vacated, Owns

(* A seat is held by a socket. *)
LEMMA OwnerType ==
    ASSUME TypeOK, NEW r \in Rooms, NEW p \in People, seat[r][p] # None
    PROVE  seat[r][p].owner \in Sockets
<1>1. seat[r][p] \in Seats
  BY DEF TypeOK
<1> QED BY <1>1 DEF Seats

(* Giving or taking one seat leaves the others in place. *)
LEMMA SeatUpdateType ==
    ASSUME TypeOK, NEW r, NEW p, NEW x \in Seats \cup {None}
    PROVE  [seat EXCEPT ![r][p] = x] \in [Rooms -> [People -> Seats \cup {None}]]
<1>1. CASE r \in Rooms
  <2>1. [seat[r] EXCEPT ![p] = x] \in [People -> Seats \cup {None}]
    BY <1>1 DEF TypeOK
  <2> QED BY <1>1, <2>1 DEF TypeOK
<1>2. CASE r \notin Rooms
  BY <1>2 DEF TypeOK
<1> QED BY <1>1, <1>2

(* The steps of a socket's task keep the types. *)
LEMMA SocketTypes ==
    ASSUME TypeOK, Located, NEW s \in Sockets, Socket(s)
    PROVE  TypeOK'
<1>1. CASE Subscribe(s)
  <2>1. pc' \in [Sockets -> Labels]
    BY <1>1 DEF TypeOK, Subscribe, Goto, Labels
  <2>2. who' \in [Sockets -> Accounts \cup {None}]
    BY <1>1 DEF TypeOK, Subscribe
  <2>3. pid' \in [Sockets -> People]
    BY <1>1 DEF TypeOK, Subscribe, People
  <2> QED BY <1>1, <2>1, <2>2, <2>3 DEF TypeOK, Subscribe, roomVars, accountVars,
             socketVars, credVars, vars
<1>2. CASE Validate(s)
  <2>1. pc' \in [Sockets -> Labels]
    <3>1. \E l \in Labels : pc' = [pc EXCEPT ![s] = l]
      BY <1>2 DEF Validate, Goto, Labels
    <3> QED BY <3>1 DEF TypeOK
  <2>2. mail' \in [Sockets -> Mails]
    BY <1>2, MailTypes DEF TypeOK, Validate
  <2>3. cred' \in [Sockets -> Creds]
    BY <1>2, NewCredType DEF TypeOK, Validate
  <2> QED BY <1>2, <2>1, <2>2, <2>3 DEF TypeOK, Validate, roomVars, accountVars, socketVars,
             credVars, vars
<1>3. CASE Accept(s)
  <2>1. pc' \in [Sockets -> Labels]
    BY <1>3 DEF TypeOK, Accept, Goto, Labels
  <2>2. mail' \in [Sockets -> Mails]
    BY <1>3, MailTypes DEF TypeOK, Accept
  <2> QED BY <1>3, <2>1, <2>2 DEF TypeOK, Accept, roomVars, accountVars, socketVars,
             credVars, vars
<1>4. CASE JoinStart(s)
  BY <1>4 DEF TypeOK, JoinStart, roomVars, accountVars, socketVars, credVars, vars, Goto,
     Labels, TimerStates
<1>5. CASE JoinMove(s)
  BY <1>5, VacatedType DEF TypeOK, JoinMove, roomVars, accountVars, socketVars, credVars,
     vars, Goto, Labels, TimerStates
<1>6. CASE JoinLookup(s)
  <2>1. pc' \in [Sockets -> Labels]
    BY <1>6 DEF TypeOK, JoinLookup, Goto, Labels
  <2>2. other' \in [Sockets -> Sockets \cup {None}]
    <3>1. want[s] \in Rooms /\ pid[s] \in People
      BY <1>6 DEF TypeOK, Located, JoinLookup
    <3>2. seat[want[s]][pid[s]] # None => seat[want[s]][pid[s]].owner \in Sockets
      BY <3>1 DEF TypeOK, Seats
    <3> QED BY <1>6, <3>2 DEF TypeOK, JoinLookup
  <2> QED BY <1>6, <2>1, <2>2 DEF TypeOK, JoinLookup, roomVars, accountVars, socketVars,
             credVars, vars
<1>7. CASE JoinReplace(s)
  BY <1>7, VacatedType DEF TypeOK, JoinReplace, roomVars, accountVars, socketVars, credVars,
     vars, Goto, Labels, TimerStates
<1>8. CASE JoinCommit(s)
  <2>1. pc' \in [Sockets -> Labels]
    BY <1>8 DEF TypeOK, JoinCommit, Goto, Labels
  <2>2. seat' \in [Rooms -> [People -> Seats \cup {None}]]
    <3>1. \A b \in BOOLEAN : [owner |-> s, lobby |-> b, connected |-> TRUE] \in Seats
      BY DEF Seats
    <3>2. ASSUME NEW b \in BOOLEAN,
                 seat' = [seat EXCEPT ![want[s]][pid[s]] =
                            [owner |-> s, lobby |-> b, connected |-> TRUE]]
          PROVE  seat' \in [Rooms -> [People -> Seats \cup {None}]]
      BY <3>1, <3>2, SeatUpdateType
    <3>3. CASE UNCHANGED seat
      BY <3>3 DEF TypeOK
    <3> QED BY <1>8, <3>2, <3>3 DEF JoinCommit
  <2> QED BY <1>8, <2>1, <2>2 DEF TypeOK, JoinCommit, roomVars, accountVars, socketVars,
             credVars, vars
<1>9. CASE JoinSettle(s)
  BY <1>9 DEF TypeOK, JoinSettle, roomVars, accountVars, socketVars, credVars, vars, Goto,
     Labels, TimerStates
<1>10. CASE LeaveStart(s)
  BY <1>10 DEF TypeOK, LeaveStart, roomVars, accountVars, socketVars, credVars, vars, Goto,
     Labels, TimerStates
<1>11. CASE LeaveEnd(s)
  BY <1>11, VacatedType DEF TypeOK, LeaveEnd, roomVars, accountVars, socketVars, credVars,
     vars, Goto, Labels, TimerStates
<1>12. ASSUME NEW e \in Sockets, Reconnect(s, e) PROVE TypeOK'
  BY <1>12 DEF TypeOK, Reconnect, roomVars, accountVars, socketVars, credVars, vars, Goto,
     Labels, TimerStates
<1>13. CASE Resume(s)
  <2>1. pc' \in [Sockets -> Labels]
    BY <1>13 DEF TypeOK, Resume, Goto, Labels
  <2>2. seat' \in [Rooms -> [People -> Seats \cup {None}]]
    <3>1. [owner |-> s, lobby |-> FALSE, connected |-> TRUE] \in Seats
      BY DEF Seats
    <3>2. \/ seat' = seat
          \/ seat' = [seat EXCEPT ![here[other[s]]][pid[other[s]]] =
                         [owner |-> s, lobby |-> FALSE, connected |-> TRUE]]
      BY <1>13 DEF Resume
    <3>3. [seat EXCEPT ![here[other[s]]][pid[other[s]]] =
             [owner |-> s, lobby |-> FALSE, connected |-> TRUE]]
            \in [Rooms -> [People -> Seats \cup {None}]]
      BY <3>1, SeatUpdateType
    <3> QED BY <3>2, <3>3 DEF TypeOK
  <2>3. here' \in [Sockets -> Rooms \cup {None}]
    <3>1. other[s] \in Sockets
      BY <1>13 DEF Located, Resume
    <3> QED BY <1>13, <3>1 DEF TypeOK, Resume
  <2>4. pid' \in [Sockets -> People]
    <3>1. other[s] \in Sockets
      BY <1>13 DEF Located, Resume
    <3> QED BY <1>13, <3>1 DEF TypeOK, Resume
  <2>5. other' \in [Sockets -> Sockets \cup {None}]
    BY <1>13 DEF TypeOK, Resume
  <2> QED BY <1>13, <2>1, <2>2, <2>3, <2>4, <2>5 DEF TypeOK, Resume, roomVars, accountVars,
             socketVars, credVars, vars
<1>14. CASE ResumeFails(s)
  BY <1>14, VacatedType DEF TypeOK, ResumeFails, roomVars, accountVars, socketVars,
     credVars, vars, Goto, Labels, TimerStates
<1>15. CASE Notice(s)
  <2>1. pc' \in [Sockets -> Labels]
    BY <1>15 DEF TypeOK, Notice, Goto, Labels
  <2>2. mail' \in [Sockets -> Mails]
    BY <1>15, MailTypes DEF TypeOK, Notice
  <2>3. cred' \in [Sockets -> Creds]
    <3>1. cred' = cred \/ cred' = [cred EXCEPT ![s] = Invalidated(cred[s])]
      BY <1>15 DEF Notice
    <3>2. Invalidated(cred[s]) \in Creds
      BY CredTypes DEF TypeOK
    <3> QED BY <3>1, <3>2 DEF TypeOK
  <2> QED BY <1>15, <2>1, <2>2, <2>3 DEF TypeOK, Notice, roomVars, accountVars, socketVars,
             credVars, vars
<1>16. CASE NoticesLost(s)
  <2>1. mail' \in [Sockets -> Mails]
    BY <1>16, MailTypes DEF TypeOK, NoticesLost
  <2>2. cred' \in [Sockets -> Creds]
    <3>1. [cred[s] EXCEPT !.must = TRUE] \in Creds
      BY CredTypes DEF TypeOK
    <3> QED BY <1>16, <3>1 DEF TypeOK, NoticesLost
  <2>3. check' \in [Sockets -> Answers \cup {"none", "asked"}]
    BY <1>16 DEF TypeOK, NoticesLost
  <2> QED BY <1>16, <2>1, <2>2, <2>3 DEF TypeOK, NoticesLost, roomVars, accountVars,
             socketVars, credVars, vars
<1>17. CASE CheckBegin(s)
  <2>1. pc' \in [Sockets -> Labels]
    BY <1>17 DEF TypeOK, CheckBegin, Goto, Labels
  <2>2. cred' \in [Sockets -> Creds]
    <3>1. cred' = cred \/ cred' = [cred EXCEPT ![s] = Invalidated(cred[s])]
      BY <1>17 DEF CheckBegin
    <3>2. Invalidated(cred[s]) \in Creds
      BY CredTypes DEF TypeOK
    <3> QED BY <3>1, <3>2 DEF TypeOK
  <2>3. check' \in [Sockets -> Answers \cup {"none", "asked"}]
    BY <1>17 DEF TypeOK, CheckBegin
  <2> QED BY <1>17, <2>1, <2>2, <2>3 DEF TypeOK, CheckBegin, roomVars, accountVars,
             socketVars, credVars, vars
<1>18. CASE CheckEnd(s)
  <2>1. pc' \in [Sockets -> Labels]
    BY <1>18 DEF TypeOK, CheckEnd, Goto, Labels
  <2>2. mail' \in [Sockets -> Mails]
    BY <1>18, MailTypes DEF TypeOK, CheckEnd
  <2>3. cred' \in [Sockets -> Creds]
    <3> DEFINE c == Settled(s, check[s])
    <3>1. c \in Creds /\ Invalidated(c) \in Creds
      BY CredTypes DEF TypeOK, Settled
    <3>2. \/ cred' = cred \/ cred' = [cred EXCEPT ![s] = c]
          \/ cred' = [cred EXCEPT ![s] = Invalidated(c)]
      BY <1>18 DEF CheckEnd
    <3> HIDE DEF c
    <3> QED BY <3>1, <3>2 DEF TypeOK
  <2>4. check' \in [Sockets -> Answers \cup {"none", "asked"}]
    BY <1>18 DEF TypeOK, CheckEnd
  <2> QED BY <1>18, <2>1, <2>2, <2>3, <2>4 DEF TypeOK, CheckEnd, roomVars, accountVars,
             socketVars, credVars, vars
<1>19. CASE RenewBegin(s)
  BY <1>19 DEF TypeOK, RenewBegin, roomVars, accountVars, socketVars, credVars, vars, Goto,
     Labels, TimerStates
<1>20. CASE RenewEnd(s)
  <2>1. pc' \in [Sockets -> Labels]
    BY <1>20 DEF TypeOK, RenewEnd, Goto, Labels
  <2>2. mail' \in [Sockets -> Mails]
    BY <1>20, MailTypes DEF TypeOK, RenewEnd
  <2>3. cred' \in [Sockets -> Creds]
    <3> DEFINE c == Settled(s, query[s])
    <3>1. c \in Creds /\ Invalidated(c) \in Creds
      BY CredTypes DEF TypeOK, Settled
    <3>2. \/ cred' = cred \/ cred' = [cred EXCEPT ![s] = c]
          \/ cred' = [cred EXCEPT ![s] = Invalidated(c)]
      BY <1>20 DEF RenewEnd
    <3> HIDE DEF c
    <3> QED BY <3>1, <3>2 DEF TypeOK
  <2>4. query' \in [Sockets -> Answers \cup {"none", "asked"}]
    BY <1>20 DEF TypeOK, RenewEnd
  <2> QED BY <1>20, <2>1, <2>2, <2>3, <2>4 DEF TypeOK, RenewEnd, roomVars, accountVars,
             socketVars, credVars, vars
<1>21. CASE Disconnect(s)
  <2>1. pc' \in [Sockets -> Labels]
    BY <1>21 DEF TypeOK, Disconnect, Goto, Labels
  <2>2. cred' \in [Sockets -> Creds]
    <3>1. cred[s] \in Creds
      BY DEF TypeOK
    <3>2. (cred[s].invalidated \/ Lapsed(s)) \in BOOLEAN
      BY <3>1 DEF Creds, Lapsed
    <3> QED BY <1>21, <3>1, <3>2, CredTypes DEF TypeOK, Disconnect
  <2> QED BY <1>21, <2>1, <2>2 DEF TypeOK, Disconnect, roomVars, accountVars, socketVars,
             credVars, vars
<1>22. CASE RecheckBegin(s)
  <2>1. pc' \in [Sockets -> Labels]
    BY <1>22 DEF TypeOK, RecheckBegin, Goto, Labels
  <2>2. cred' \in [Sockets -> Creds]
    <3>1. cred' = cred \/ cred' = [cred EXCEPT ![s] = Invalidated(cred[s])]
      BY <1>22 DEF RecheckBegin
    <3>2. Invalidated(cred[s]) \in Creds
      BY CredTypes DEF TypeOK
    <3> QED BY <3>1, <3>2 DEF TypeOK
  <2>3. check' \in [Sockets -> Answers \cup {"none", "asked"}]
    BY <1>22 DEF TypeOK, RecheckBegin
  <2>4. query' \in [Sockets -> Answers \cup {"none", "asked"}]
    BY <1>22 DEF TypeOK, RecheckBegin
  <2> QED BY <1>22, <2>1, <2>2, <2>3, <2>4 DEF TypeOK, RecheckBegin, roomVars, accountVars,
             socketVars, credVars, vars
<1>23. CASE RecheckEnd(s)
  <2>1. pc' \in [Sockets -> Labels]
    BY <1>23 DEF TypeOK, RecheckEnd, Goto, Labels
  <2>2. mail' \in [Sockets -> Mails]
    BY <1>23, MailTypes DEF TypeOK, RecheckEnd
  <2>3. cred' \in [Sockets -> Creds]
    <3> DEFINE c == Settled(s, query[s])
    <3>1. cred[s] \in Creds /\ c \in Creds /\ Invalidated(c) \in Creds
      BY CredTypes DEF TypeOK, Settled
    <3>2. \E x \in {cred[s], c, Invalidated(c)} : cred' = [cred EXCEPT ![s] = x]
      BY <1>23 DEF RecheckEnd
    <3> HIDE DEF c
    <3> QED BY <3>1, <3>2 DEF TypeOK
  <2>4. query' \in [Sockets -> Answers \cup {"none", "asked"}]
    BY <1>23 DEF TypeOK, RecheckEnd
  <2> QED BY <1>23, <2>1, <2>2, <2>3, <2>4 DEF TypeOK, RecheckEnd, roomVars, accountVars,
             socketVars, credVars, vars
<1>24. CASE Part(s)
  BY <1>24 DEF TypeOK, Part, roomVars, accountVars, socketVars, credVars, vars, Goto,
     Labels, TimerStates
<1>25. CASE Retain(s)
  BY <1>25 DEF TypeOK, Retain, roomVars, accountVars, socketVars, credVars, vars, Goto,
     Labels, TimerStates
<1>26. CASE RemoveOwn(s)
  BY <1>26, VacatedType DEF TypeOK, RemoveOwn, roomVars, accountVars, socketVars, credVars,
     vars, Goto, Labels, TimerStates
<1>27. CASE WriterEnds(s)
  BY <1>27 DEF TypeOK, WriterEnds, roomVars, accountVars, socketVars, credVars, vars, Goto,
     Labels, TimerStates
<1>28. CASE Mark(s)
  <2>1. pc' \in [Sockets -> Labels]
    BY <1>28 DEF TypeOK, Mark, Goto, Labels
  <2>2. seat' \in [Rooms -> [People -> Seats \cup {None}]]
    <3>1. CASE here[s] \in Rooms /\ seat[here[s]][pid[s]] \in Seats
      <4>1. [seat[here[s]][pid[s]] EXCEPT !.connected = FALSE] \in Seats
        BY <3>1, SeatTypes
      <4>2. [seat EXCEPT ![here[s]][pid[s]] =
               [seat[here[s]][pid[s]] EXCEPT !.connected = FALSE]]
              \in [Rooms -> [People -> Seats \cup {None}]]
        BY <4>1, SeatUpdateType
      <4> QED BY <1>28, <4>2 DEF TypeOK, Mark
    <3>2. CASE ~(here[s] \in Rooms /\ seat[here[s]][pid[s]] \in Seats)
      BY <1>28, <3>2 DEF TypeOK, Mark, Owns
    <3> QED BY <3>1, <3>2
  <2> QED BY <1>28, <2>1, <2>2 DEF TypeOK, Mark, roomVars, accountVars, socketVars,
             credVars, vars
<1> QED BY <1>1, <1>2, <1>3, <1>4, <1>5, <1>6, <1>7, <1>8, <1>9, <1>10, <1>11, <1>12, <1>13,
           <1>14, <1>15, <1>16, <1>17, <1>18, <1>19, <1>20, <1>21, <1>22, <1>23, <1>24,
           <1>25, <1>26, <1>27, <1>28 DEF Socket

(* So do those of a timer. *)
LEMMA TimerTypes ==
    ASSUME TypeOK, Located, NEW s \in Sockets, Timer(s)
    PROVE  TypeOK'
<1>1. CASE TimerCheckBegin(s)
  BY <1>1 DEF TypeOK, TimerCheckBegin, roomVars, accountVars, socketVars, credVars, vars,
     Goto, Labels, TimerStates
<1>2. CASE TimerCheckEnd(s)
  <2>1. timer' \in [Sockets -> TimerStates]
    <3>1. \E l \in TimerStates : timer' = [timer EXCEPT ![s] = l]
      BY <1>2 DEF TimerCheckEnd, TimerStates
    <3> QED BY <3>1 DEF TypeOK
  <2>2. mail' \in [Sockets -> Mails]
    BY <1>2, MailTypes DEF TypeOK, TimerCheckEnd
  <2>3. cred' \in [Sockets -> Creds]
    <3> DEFINE c == Settled(s, query[s])
    <3>1. c \in Creds /\ Invalidated(c) \in Creds
      BY CredTypes DEF TypeOK, Settled
    <3>2. \/ cred' = cred \/ cred' = [cred EXCEPT ![s] = c]
          \/ cred' = [cred EXCEPT ![s] = Invalidated(c)]
      BY <1>2 DEF TimerCheckEnd
    <3> HIDE DEF c
    <3> QED BY <3>1, <3>2 DEF TypeOK
  <2>4. query' \in [Sockets -> Answers \cup {"none", "asked"}]
    BY <1>2 DEF TypeOK, TimerCheckEnd
  <2> QED BY <1>2, <2>1, <2>2, <2>3, <2>4 DEF TypeOK, TimerCheckEnd, roomVars, accountVars,
             socketVars, credVars, vars
<1>3. CASE TimerNotice(s)
  <2>1. timer' \in [Sockets -> TimerStates]
    BY <1>3 DEF TypeOK, TimerNotice, TimerStates
  <2>2. mail' \in [Sockets -> Mails]
    BY <1>3, MailTypes DEF TypeOK, TimerNotice
  <2>3. cred' \in [Sockets -> Creds]
    <3>1. (cred[s].must \/ mail[s].lagged) \in BOOLEAN
      BY DEF TypeOK, Creds, Mails
    <3> QED BY <1>3, <3>1, CredTypes DEF TypeOK, TimerNotice
  <2> QED BY <1>3, <2>1, <2>2, <2>3 DEF TypeOK, TimerNotice, roomVars, accountVars,
             socketVars, credVars, vars
<1>4. CASE TimerExpires(s)
  BY <1>4 DEF TypeOK, TimerExpires, roomVars, accountVars, socketVars, credVars, vars, Goto,
     Labels, TimerStates
<1>5. CASE TimerStops(s)
  BY <1>5 DEF TypeOK, TimerStops, roomVars, accountVars, socketVars, credVars, vars, Goto,
     Labels, TimerStates
<1>6. CASE TimerRemoves(s)
  BY <1>6, VacatedType DEF TypeOK, TimerRemoves, roomVars, accountVars, socketVars,
     credVars, vars, Goto, Labels, TimerStates
<1> QED BY <1>1, <1>2, <1>3, <1>4, <1>5, <1>6 DEF Timer

(* So do those of the writer, the database and the cleanup. *)
LEMMA AroundTypes ==
    ASSUME TypeOK, Located, NEW s \in Sockets, Around(s)
    PROVE  TypeOK'
<1>1. CASE WriterFails(s)
  BY <1>1 DEF TypeOK, WriterFails, roomVars, accountVars, socketVars, credVars, vars, Goto,
     Labels, TimerStates
<1>2. CASE Query(s)
  <2>1. check' \in [Sockets -> Answers \cup {"none", "asked"}]
    BY <1>2 DEF TypeOK, Query, Answer, Answers
  <2>2. query' \in [Sockets -> Answers \cup {"none", "asked"}]
    BY <1>2 DEF TypeOK, Query, Answer, Answers
  <2> QED BY <1>2, <2>1, <2>2 DEF TypeOK, Query, roomVars, accountVars, socketVars,
             credVars, vars
<1>3. CASE Lapse(s)
  <2>1. cred' \in [Sockets -> Creds]
    <3>1. [cred[s] EXCEPT !.life = "over"] \in Creds
      BY CredTypes DEF TypeOK
    <3> QED BY <1>3, <3>1 DEF TypeOK, Lapse
  <2> QED BY <1>3, <2>1 DEF TypeOK, Lapse, roomVars, accountVars, socketVars, credVars, vars
<1>4. CASE FallBehind(s)
  BY <1>4, MailTypes DEF TypeOK, FallBehind, roomVars, accountVars, socketVars, credVars,
     vars, Goto, Labels, TimerStates
<1>5. CASE Purge(s)
  BY <1>5, VacatedType DEF TypeOK, Purge, roomVars, accountVars, socketVars, credVars, vars,
     Goto, Labels, TimerStates
<1> QED BY <1>1, <1>2, <1>3, <1>4, <1>5 DEF Around

(* The steps no socket or timer takes. *)
World ==
    \/ \E a \in Accounts : Revoke(a)
    \/ \E r \in Rooms, p \in People : Admit(r, p) \/ Eject(r, p)
    \/ DrainBegin \/ DrainClose \/ \E r \in Rooms : DrainRoom(r)
    \/ UNCHANGED vars

(* So do those of moderators, credential changes and the drain. *)
LEMMA WorldTypes == ASSUME TypeOK, World PROVE TypeOK'
<1>1. ASSUME NEW a \in Accounts, ChangeCredentials(a) PROVE TypeOK'
  <2>1. version' \in [Accounts -> Nat]
    BY <1>1 DEF TypeOK, ChangeCredentials
  <2>2. revoker' \in [Accounts -> {"idle", "notify", "take"}]
    BY <1>1 DEF TypeOK, ChangeCredentials
  <2> QED BY <1>1, <2>1, <2>2 DEF TypeOK, ChangeCredentials, roomVars, accountVars,
             socketVars, credVars, vars
<1>2. ASSUME NEW a \in Accounts, Notify(a) PROVE TypeOK'
  <2>1. sent' \in [Accounts -> Nat]
    BY <1>2 DEF TypeOK, Notify
  <2>2. revoker' \in [Accounts -> {"idle", "notify", "take"}]
    BY <1>2 DEF TypeOK, Notify
  <2>3. mail' \in [Sockets -> Mails]
    <3>1. \A s \in Sockets :
            [mail[s] EXCEPT !.notices = mail[s].notices \cup {version[a]}] \in Mails
      BY DEF TypeOK, Mails
    <3> QED BY <1>2, <3>1 DEF TypeOK, Notify
  <2> QED BY <1>2, <2>1, <2>2, <2>3 DEF TypeOK, Notify, roomVars, accountVars, socketVars,
             credVars, vars
<1>3. ASSUME NEW a \in Accounts, TakeRevoked(a) PROVE TypeOK'
  <2>1. purge' \subseteq Sockets
    BY <1>3 DEF TypeOK, TakeRevoked, Retained
  <2>2. revoker' \in [Accounts -> {"idle", "notify", "take"}]
    BY <1>3 DEF TypeOK, TakeRevoked
  <2>3. timer' \in [Sockets -> TimerStates]
    BY <1>3 DEF TypeOK, TakeRevoked, TimerStates
  <2> QED BY <1>3, <2>1, <2>2, <2>3 DEF TypeOK, TakeRevoked, roomVars, accountVars,
             socketVars, credVars, vars
<1>4. ASSUME NEW r \in Rooms, NEW p \in People, Admit(r, p) PROVE TypeOK'
  <2>1. [seat[r][p] EXCEPT !.lobby = FALSE] \in Seats
    <3>1. seat[r][p] \in Seats
      BY <1>4 DEF TypeOK, Admit
    <3> QED BY <3>1, SeatTypes
  <2>2. [seat EXCEPT ![r][p] = [seat[r][p] EXCEPT !.lobby = FALSE]]
          \in [Rooms -> [People -> Seats \cup {None}]]
    BY <2>1, SeatUpdateType
  <2>3. seat' \in [Rooms -> [People -> Seats \cup {None}]]
    BY <1>4, <2>2 DEF Admit
  <2>4. flag' \in [Sockets -> BOOLEAN]
    BY <1>4 DEF TypeOK, Admit
  <2> QED BY <1>4, <2>3, <2>4 DEF TypeOK, Admit, roomVars, accountVars, socketVars,
             credVars, vars
<1>5. ASSUME NEW r \in Rooms, NEW p \in People, Eject(r, p) PROVE TypeOK'
  BY <1>5, SeatUpdateType DEF TypeOK, Eject, roomVars, accountVars, socketVars, credVars, vars
<1>6. CASE DrainBegin
  BY <1>6 DEF TypeOK, DrainBegin, roomVars, accountVars, socketVars, credVars, vars
<1>7. CASE DrainClose
  <2>1. timer' \in [Sockets -> TimerStates]
    BY <1>7 DEF TypeOK, DrainClose, TimerStates
  <2> QED BY <1>7, <2>1 DEF TypeOK, DrainClose, roomVars, accountVars, socketVars, credVars,
             vars
<1>8. ASSUME NEW r \in Rooms, DrainRoom(r) PROVE TypeOK'
  BY <1>8 DEF TypeOK, DrainRoom, roomVars, accountVars, socketVars, credVars, vars
<1>9. CASE UNCHANGED vars
  BY <1>9 DEF TypeOK, roomVars, accountVars, socketVars, credVars, vars
<1> QED BY <1>1, <1>2, <1>3, <1>4, <1>5, <1>6, <1>7, <1>8, <1>9 DEF Revoke, World

(* The steps that settle credentials: none of them touches a seat, and the *)
(* task attends to its room before and after.                              *)
Credentials(s) ==
    \/ Notice(s) \/ NoticesLost(s) \/ CheckBegin(s) \/ CheckEnd(s)
    \/ RenewBegin(s) \/ RenewEnd(s) \/ Disconnect(s) \/ RecheckBegin(s) \/ RecheckEnd(s)
Settling == {"open", "renewing", "closing", "rechecking", "parting"}

(* Settling credentials moves only the task itself. *)
LEMMA CredentialSteps ==
    ASSUME TypeOK, NEW s \in Sockets, Credentials(s)
    PROVE  /\ UNCHANGED <<roomVars, accountVars, socketVars, down, timer>>
           /\ pc[s] \in Settling
           /\ \E l \in Settling : pc' = [pc EXCEPT ![s] = l]
<1>0. pc = [pc EXCEPT ![s] = pc[s]]
  BY DEF TypeOK
<1>1. CASE Notice(s)
  BY <1>1, <1>0 DEF Notice, Listening, Ready, Goto, Settling
<1>2. CASE NoticesLost(s)
  BY <1>2, <1>0 DEF NoticesLost, Listening, Ready, Goto, Settling
<1>3. CASE CheckBegin(s)
  BY <1>3, <1>0 DEF CheckBegin, Listening, Ready, Goto, Settling
<1>4. CASE CheckEnd(s)
  BY <1>4, <1>0 DEF CheckEnd, Listening, Ready, Goto, Settling
<1>5. CASE RenewBegin(s)
  BY <1>5, <1>0 DEF RenewBegin, Listening, Ready, Goto, Settling
<1>6. CASE RenewEnd(s)
  BY <1>6, <1>0 DEF RenewEnd, Listening, Ready, Goto, Settling
<1>7. CASE Disconnect(s)
  BY <1>7, <1>0 DEF Disconnect, Listening, Ready, Goto, Settling
<1>8. CASE RecheckBegin(s)
  BY <1>8, <1>0 DEF RecheckBegin, Listening, Ready, Goto, Settling
<1>9. CASE RecheckEnd(s)
  BY <1>9, <1>0 DEF RecheckEnd, Listening, Ready, Goto, Settling
<1> QED BY <1>1, <1>2, <1>3, <1>4, <1>5, <1>6, <1>7, <1>8, <1>9 DEF Credentials

(* A task that uses a channel or a room has set it. *)
LEMMA LocatedSteps ==
    ASSUME TypeOK, Located, NEW s \in Sockets, Socket(s)
    PROVE  Located'
<1>1. CASE Subscribe(s)
  BY <1>1 DEF Located, TypeOK, Subscribe, Goto, socketVars
<1>2. CASE Validate(s)
  BY <1>2 DEF Located, TypeOK, Validate, Goto, socketVars
<1>3. CASE Accept(s)
  BY <1>3 DEF Located, TypeOK, Accept, Goto, socketVars
<1>4. CASE JoinStart(s)
  BY <1>4 DEF Located, TypeOK, JoinStart, Goto, socketVars
<1>5. CASE JoinMove(s)
  BY <1>5 DEF Located, TypeOK, JoinMove, Goto, socketVars
<1>6. CASE JoinLookup(s)
  <2>1. want[s] \in Rooms /\ pid[s] \in People
    BY <1>6 DEF TypeOK, Located, JoinLookup
  <2>2. seat[want[s]][pid[s]] # None => seat[want[s]][pid[s]].owner \in Sockets
    BY <2>1, OwnerType
  <2> QED BY <1>6, <2>1, <2>2 DEF Located, TypeOK, JoinLookup, Goto
<1>7. CASE JoinReplace(s)
  BY <1>7 DEF Located, TypeOK, JoinReplace, Goto, socketVars
<1>8. CASE JoinCommit(s)
  BY <1>8 DEF Located, TypeOK, JoinCommit, Goto, socketVars
<1>9. CASE JoinSettle(s)
  BY <1>9 DEF Located, TypeOK, JoinSettle, Goto, socketVars
<1>10. CASE LeaveStart(s)
  BY <1>10 DEF Located, TypeOK, LeaveStart, Goto, socketVars
<1>11. CASE LeaveEnd(s)
  BY <1>11 DEF Located, TypeOK, LeaveEnd, Goto, socketVars
<1>12. ASSUME NEW e \in Sockets, Reconnect(s, e) PROVE Located'
  BY <1>12 DEF Located, TypeOK, Reconnect, Goto, socketVars
<1>13. CASE Resume(s)
  BY <1>13 DEF Located, TypeOK, Resume, Goto, socketVars
<1>14. CASE ResumeFails(s)
  BY <1>14 DEF Located, TypeOK, ResumeFails, Goto, socketVars
<1>15. CASE Part(s)
  BY <1>15 DEF Located, TypeOK, Part, Goto, socketVars
<1>16. CASE Retain(s)
  BY <1>16 DEF Located, TypeOK, Retain, Goto, socketVars
<1>17. CASE RemoveOwn(s)
  BY <1>17 DEF Located, TypeOK, RemoveOwn, Goto, socketVars
<1>18. CASE WriterEnds(s)
  BY <1>18 DEF Located, TypeOK, WriterEnds, Goto, socketVars
<1>19. CASE Mark(s)
  BY <1>19 DEF Located, TypeOK, Mark, Goto, socketVars
<1>20. CASE Credentials(s)
  BY <1>20, CredentialSteps DEF Located, TypeOK, socketVars, Settling
<1> QED BY <1>1, <1>2, <1>3, <1>4, <1>5, <1>6, <1>7, <1>8, <1>9, <1>10, <1>11, <1>12, <1>13,
           <1>14, <1>15, <1>16, <1>17, <1>18, <1>19, <1>20 DEF Socket, Credentials

(* What each kind of step makes of who holds a seat. *)
LEMMA OwnsVacated ==
    ASSUME TypeOK, NEW s, NEW q, NEW u, seat' = Vacated(s, q, u),
           NEW x, NEW r \in Rooms, NEW p \in People, Owns(x, r, p)'
    PROVE  Owns(x, r, p) /\ ~(x = s /\ r = q /\ p = u)
BY DEF TypeOK, Vacated, Owns

(* A join or a resume gives one seat, to one socket. *)
LEMMA OwnsGranted ==
    ASSUME TypeOK, NEW s, NEW q, NEW u, NEW lobby,
           seat' = [seat EXCEPT ![q][u] = [owner |-> s, lobby |-> lobby, connected |-> TRUE]],
           NEW x, NEW r \in Rooms, NEW p \in People, Owns(x, r, p)'
    PROVE  \/ x = s /\ r = q /\ p = u
           \/ Owns(x, r, p) /\ ~(r = q /\ p = u)
<1>1. CASE r = q /\ p = u
  BY <1>1 DEF TypeOK, Owns
<1>2. CASE ~(r = q /\ p = u)
  <2>1. seat'[r][p] = seat[r][p]
    BY <1>2 DEF TypeOK
  <2> QED BY <1>2, <2>1 DEF Owns
<1> QED BY <1>1, <1>2

(* A mark changes no owner. *)
LEMMA OwnsMarked ==
    ASSUME TypeOK, NEW s, Mark(s),
           NEW x, NEW r \in Rooms, NEW p \in People, Owns(x, r, p)'
    PROVE  Owns(x, r, p)
<1>1. CASE seat' = seat
  BY <1>1 DEF Owns
<1>2. CASE /\ Owns(s, here[s], pid[s])
           /\ seat' = [seat EXCEPT ![here[s]][pid[s]] =
                         [seat[here[s]][pid[s]] EXCEPT !.connected = FALSE]]
  <2>1. CASE r = here[s] /\ p = pid[s]
    <3>1. seat[r][p] \in Seats
      BY <1>2, <2>1 DEF TypeOK, Owns
    <3> DEFINE y == [seat[r][p] EXCEPT !.connected = FALSE]
    <3>a. seat' = [seat EXCEPT ![r][p] = y]
      BY <1>2, <2>1
    <3>2. seat'[r][p] = y
      <4> HIDE DEF y
      <4> QED BY <3>a DEF TypeOK
    <3>3. seat'[r][p].owner = seat[r][p].owner
      BY <3>1, <3>2 DEF Seats
    <3> QED BY <1>2, <2>1, <3>3 DEF Owns
  <2>2. CASE ~(r = here[s] /\ p = pid[s])
    <3>1. seat'[r][p] = seat[r][p]
      BY <1>2, <2>2 DEF TypeOK
    <3> QED BY <3>1 DEF Owns
  <2> QED BY <2>1, <2>2
<1> QED BY <1>1, <1>2 DEF Mark

(* The steps of a socket's task keep each seat where its locals say. *)
LEMMA SeatedSteps ==
    ASSUME TypeOK, Located, Seated, NEW s \in Sockets, Socket(s)
    PROVE  Seated'
<1> SUFFICES ASSUME NEW x \in Sockets, NEW r \in Rooms, NEW p \in People, Owns(x, r, p)'
             PROVE  SeatedAt(x, r, p)'
  BY DEF Seated
<1>1. CASE Subscribe(s)
  <2>1. Owns(x, r, p)
    BY <1>1 DEF Subscribe, roomVars, Owns
  <2> QED BY <1>1, <2>1, SocketAssumption DEF Seated, SeatedAt, TypeOK, Subscribe, Ready,
             Listening, Goto, socketVars, Attending
<1>2. CASE Validate(s)
  <2>1. Owns(x, r, p)
    BY <1>2 DEF Validate, roomVars, Owns
  <2> QED BY <1>2, <2>1, SocketAssumption DEF Seated, SeatedAt, TypeOK, Validate, Ready,
             Listening, Goto, socketVars, Attending
<1>3. CASE Accept(s)
  <2>1. Owns(x, r, p)
    BY <1>3 DEF Accept, roomVars, Owns
  <2> QED BY <1>3, <2>1, SocketAssumption DEF Seated, SeatedAt, TypeOK, Accept, Ready,
             Listening, Goto, socketVars, Attending
<1>4. CASE JoinStart(s)
  <2>1. Owns(x, r, p)
    BY <1>4 DEF JoinStart, roomVars, Owns
  <2> QED BY <1>4, <2>1, SocketAssumption DEF Seated, SeatedAt, TypeOK, JoinStart, Ready,
             Listening, Goto, socketVars, Attending
<1>5. CASE JoinMove(s)
  <2>1. Owns(x, r, p) /\ ~(x = s /\ r = here[s] /\ p = pid[s])
    BY <1>5, OwnsVacated DEF JoinMove
  <2> QED BY <1>5, <2>1 DEF Seated, SeatedAt, TypeOK, Located, JoinMove, Goto, roomVars,
             accountVars, socketVars, credVars, vars, Attending
<1>6. CASE JoinLookup(s)
  <2>1. Owns(x, r, p) /\ UNCHANGED <<pid, here>>
    BY <1>6 DEF JoinLookup, roomVars, Owns
  <2>2. x # s
    BY <1>6, <2>1 DEF JoinLookup, Seated, SeatedAt, Attending
  <2>3. pc'[x] = pc[x] /\ want'[x] = want[x]
    BY <1>6, <2>2 DEF JoinLookup, Goto, TypeOK
  <2> QED BY <2>1, <2>3 DEF Seated, SeatedAt
<1>7. CASE JoinReplace(s)
  <2>1. Owns(x, r, p) /\ ~(x = other[s] /\ r = want[s] /\ p = pid[s])
    BY <1>7, OwnsVacated DEF JoinReplace
  <2> QED BY <1>7, <2>1 DEF Seated, SeatedAt, TypeOK, Located, JoinReplace, Goto, roomVars,
             accountVars, socketVars, credVars, vars, Attending
<1>8. CASE JoinCommit(s)
  <2>1. CASE Goto(s, "open") /\ UNCHANGED seat
    <3>1. Owns(x, r, p)
      BY <2>1 DEF Owns
    <3> QED BY <1>8, <2>1, <3>1 DEF Seated, SeatedAt, TypeOK, JoinCommit, Goto, socketVars,
               Attending
  <2>2. ASSUME NEW lobby \in BOOLEAN,
               seat' = [seat EXCEPT ![want[s]][pid[s]] =
                          [owner |-> s, lobby |-> lobby, connected |-> TRUE]],
               Goto(s, IF lobby THEN "lobbied" ELSE "joined"), UNCHANGED want
        PROVE  SeatedAt(x, r, p)'
    <3>1. Owns(x, r, p) \/ (x = s /\ r = want[s] /\ p = pid[s])
      BY <2>2, OwnsGranted
    <3>2. pc' = [pc EXCEPT ![s] = "joined"] \/ pc' = [pc EXCEPT ![s] = "lobbied"]
      BY <2>2 DEF Goto
    <3>3. UNCHANGED <<pid, here>> /\ ~Owns(s, r, p)
      BY <1>8 DEF JoinCommit, Seated, SeatedAt, Attending
    <3>4. CASE x = s
      BY <2>2, <3>1, <3>2, <3>3, <3>4 DEF SeatedAt, TypeOK
    <3>5. CASE x # s
      <4>1. pc'[x] = pc[x] /\ Owns(x, r, p)
        BY <3>1, <3>2, <3>5 DEF TypeOK
      <4> QED BY <2>2, <3>3, <4>1 DEF Seated, SeatedAt
    <3> QED BY <3>4, <3>5
  <2> QED BY <1>8, <2>1, <2>2 DEF JoinCommit
<1>9. CASE JoinSettle(s)
  <2>1. Owns(x, r, p)
    BY <1>9 DEF JoinSettle, roomVars, Owns
  <2> QED BY <1>9, <2>1, SocketAssumption DEF Seated, SeatedAt, TypeOK, JoinSettle, Ready,
             Listening, Goto, socketVars, Attending
<1>10. CASE LeaveStart(s)
  <2>1. Owns(x, r, p)
    BY <1>10 DEF LeaveStart, roomVars, Owns
  <2> QED BY <1>10, <2>1, SocketAssumption DEF Seated, SeatedAt, TypeOK, LeaveStart, Ready,
             Listening, Goto, socketVars, Attending
<1>11. CASE LeaveEnd(s)
  <2>1. Owns(x, r, p) /\ ~(x = s /\ r = here[s] /\ p = pid[s])
    BY <1>11, OwnsVacated DEF LeaveEnd
  <2> QED BY <1>11, <2>1 DEF Seated, SeatedAt, TypeOK, Located, LeaveEnd, Goto, roomVars,
             accountVars, socketVars, credVars, vars, Attending
<1>12. ASSUME NEW e \in Sockets, Reconnect(s, e) PROVE SeatedAt(x, r, p)'
  <2>1. Owns(x, r, p)
    BY <1>12 DEF Reconnect, roomVars, Owns
  <2> QED BY <1>12, <2>1, SocketAssumption DEF Seated, SeatedAt, TypeOK, Reconnect, Ready,
             Listening, Goto, socketVars, Attending
<1>13. CASE Resume(s)
  <2>1. other[s] \in Sockets /\ ~Owns(s, r, p)
    BY <1>13 DEF Resume, Located, Seated, SeatedAt, Attending
  <2>2. CASE Goto(s, "dropping") /\ UNCHANGED <<seat, here, pid, other>>
    <3>1. Owns(x, r, p)
      BY <2>2 DEF Owns
    <3> QED BY <1>13, <2>1, <2>2, <3>1 DEF Seated, SeatedAt, TypeOK, Resume, Goto
  <2>3. CASE /\ seat' = [seat EXCEPT ![here[other[s]]][pid[other[s]]] =
                            [owner |-> s, lobby |-> FALSE, connected |-> TRUE]]
             /\ here' = [here EXCEPT ![s] = here[other[s]]]
             /\ pid' = [pid EXCEPT ![s] = pid[other[s]]]
             /\ Goto(s, "open")
    <3>1. \/ Owns(x, r, p)
          \/ x = s /\ r = here[other[s]] /\ p = pid[other[s]]
      BY <2>3, OwnsGranted
    <3> QED BY <1>13, <2>1, <2>3, <3>1 DEF Seated, SeatedAt, TypeOK, Resume, Goto, Attending
  <2> QED BY <1>13, <2>2, <2>3 DEF Resume
<1>14. CASE ResumeFails(s)
  <2>1. Owns(x, r, p) /\ ~(x = other[s] /\ r = here[other[s]] /\ p = pid[other[s]])
    BY <1>14, OwnsVacated DEF ResumeFails
  <2> QED BY <1>14, <2>1 DEF Seated, SeatedAt, TypeOK, Located, ResumeFails, Goto, roomVars,
             accountVars, socketVars, credVars, vars, Attending
<1>15. CASE Part(s)
  <2>1. Owns(x, r, p)
    BY <1>15 DEF Part, roomVars, Owns
  <2> QED BY <1>15, <2>1, SocketAssumption DEF Seated, SeatedAt, TypeOK, Part, Ready,
             Listening, Goto, socketVars, Attending
<1>16. CASE Retain(s)
  <2>1. Owns(x, r, p)
    BY <1>16 DEF Retain, roomVars, Owns
  <2>2. pc' = [pc EXCEPT ![s] = "removing"] \/ pc' = [pc EXCEPT ![s] = "marking"]
    BY <1>16 DEF Retain, Goto
  <2> QED BY <1>16, <2>1, <2>2 DEF Seated, SeatedAt, TypeOK, Retain, socketVars, Attending
<1>17. CASE RemoveOwn(s)
  <2>1. Owns(x, r, p) /\ ~(x = s /\ r = here[s] /\ p = pid[s])
    BY <1>17, OwnsVacated DEF RemoveOwn
  <2> QED BY <1>17, <2>1 DEF Seated, SeatedAt, TypeOK, Located, RemoveOwn, Goto, roomVars,
             accountVars, socketVars, credVars, vars, Attending
<1>18. CASE WriterEnds(s)
  <2>1. Owns(x, r, p)
    BY <1>18 DEF WriterEnds, roomVars, Owns
  <2> QED BY <1>18, <2>1, SocketAssumption DEF Seated, SeatedAt, TypeOK, WriterEnds, Ready,
             Listening, Goto, socketVars, Attending
<1>19. CASE Mark(s)
  <2>1. Owns(x, r, p)
    BY <1>19, OwnsMarked
  <2> QED BY <1>19, <2>1 DEF Seated, SeatedAt, TypeOK, Mark, Goto, socketVars, Attending
<1>20. CASE Credentials(s)
  <2>1. Owns(x, r, p)
    BY <1>20, CredentialSteps DEF roomVars, Owns
  <2>2. UNCHANGED <<pid, here>> /\ pc[s] \in Settling
    BY <1>20, CredentialSteps DEF socketVars
  <2>3. PICK l \in Settling : pc' = [pc EXCEPT ![s] = l]
    BY <1>20, CredentialSteps
  <2>4. pc[x] \notin {"joined", "lobbied"} \/ x # s
    BY <2>2 DEF Settling
  <2>5. l \in Attending
    BY DEF Settling, Attending
  <2>6. UNCHANGED want
    BY <1>20, CredentialSteps DEF socketVars
  <2> QED BY <2>1, <2>2, <2>3, <2>4, <2>5, <2>6 DEF Seated, SeatedAt, TypeOK
<1> QED BY <1>1, <1>2, <1>3, <1>4, <1>5, <1>6, <1>7, <1>8, <1>9, <1>10, <1>11, <1>12, <1>13,
           <1>14, <1>15, <1>16, <1>17, <1>18, <1>19, <1>20 DEF Socket, Credentials

(* Only a socket that is gone leaves something behind. *)
LEMMA GoneSteps ==
    ASSUME TypeOK, Located, LeftAreGone, NEW s \in Sockets, Socket(s)
    PROVE  LeftAreGone'
<1>1. CASE Subscribe(s)
  BY <1>1 DEF LeftAreGone, Taken, TypeOK, Subscribe, Ready, Listening, Goto, socketVars,
     accountVars
<1>2. CASE Validate(s)
  BY <1>2 DEF LeftAreGone, Taken, TypeOK, Validate, Ready, Listening, Goto, socketVars,
     accountVars
<1>3. CASE Accept(s)
  BY <1>3 DEF LeftAreGone, Taken, TypeOK, Accept, Ready, Listening, Goto, socketVars,
     accountVars
<1>4. CASE JoinStart(s)
  BY <1>4 DEF LeftAreGone, Taken, TypeOK, JoinStart, Ready, Listening, Goto, socketVars,
     accountVars
<1>5. CASE JoinMove(s)
  BY <1>5 DEF LeftAreGone, Taken, TypeOK, JoinMove, Ready, Listening, Goto, socketVars,
     accountVars
<1>6. CASE JoinLookup(s)
  BY <1>6 DEF LeftAreGone, Taken, TypeOK, JoinLookup, Ready, Listening, Goto, socketVars,
     accountVars
<1>7. CASE JoinReplace(s)
  BY <1>7 DEF LeftAreGone, Taken, TypeOK, JoinReplace, Ready, Listening, Goto, socketVars,
     accountVars
<1>8. CASE JoinCommit(s)
  BY <1>8 DEF LeftAreGone, Taken, TypeOK, JoinCommit, Ready, Listening, Goto, socketVars,
     accountVars
<1>9. CASE JoinSettle(s)
  BY <1>9 DEF LeftAreGone, Taken, TypeOK, JoinSettle, Ready, Listening, Goto, socketVars,
     accountVars
<1>10. CASE LeaveStart(s)
  BY <1>10 DEF LeftAreGone, Taken, TypeOK, LeaveStart, Ready, Listening, Goto, socketVars,
     accountVars
<1>11. CASE LeaveEnd(s)
  BY <1>11 DEF LeftAreGone, Taken, TypeOK, LeaveEnd, Ready, Listening, Goto, socketVars,
     accountVars
<1>12. ASSUME NEW e \in Sockets, Reconnect(s, e) PROVE LeftAreGone'
  BY <1>12 DEF LeftAreGone, Taken, TypeOK, Reconnect, Retained, Ready, Listening, Goto,
     socketVars, accountVars
<1>13. CASE Resume(s)
  <2>1. pc[s] = "resuming" /\ UNCHANGED <<purge, timer>>
    BY <1>13 DEF Resume, accountVars
  <2>2. CASE Goto(s, "dropping") /\ UNCHANGED other
    BY <2>1, <2>2 DEF LeftAreGone, Taken, TypeOK, Goto
  <2>3. CASE other' = [other EXCEPT ![s] = None] /\ Goto(s, "open")
    BY <2>1, <2>3 DEF LeftAreGone, Taken, TypeOK, Goto
  <2> QED BY <1>13, <2>2, <2>3 DEF Resume
<1>14. CASE ResumeFails(s)
  BY <1>14 DEF LeftAreGone, Taken, TypeOK, ResumeFails, Ready, Listening, Goto, socketVars,
     accountVars
<1>15. CASE Part(s)
  BY <1>15 DEF LeftAreGone, Taken, TypeOK, Part, Ready, Listening, Goto, socketVars, accountVars
<1>16. CASE Retain(s)
  <2>1. CASE Goto(s, "removing") /\ UNCHANGED timer
    BY <1>16, <2>1 DEF LeftAreGone, Taken, TypeOK, Retain, Goto, socketVars, accountVars
  <2>2. CASE timer' = [timer EXCEPT ![s] = "armed"] /\ Goto(s, "marking")
    BY <1>16, <2>2 DEF LeftAreGone, Taken, TypeOK, Retain, Goto, socketVars, accountVars
  <2> QED BY <1>16, <2>1, <2>2 DEF Retain
<1>17. CASE RemoveOwn(s)
  BY <1>17 DEF LeftAreGone, Taken, TypeOK, RemoveOwn, Ready, Listening, Goto, socketVars,
     accountVars
<1>18. CASE WriterEnds(s)
  BY <1>18 DEF LeftAreGone, Taken, TypeOK, WriterEnds, Ready, Listening, Goto, socketVars,
     accountVars
<1>19. CASE Mark(s)
  BY <1>19 DEF LeftAreGone, Taken, TypeOK, Mark, Ready, Listening, Goto, socketVars, accountVars
<1>20. CASE Credentials(s)
  <2>1. UNCHANGED <<accountVars, socketVars, timer>> /\ pc[s] \in Settling
    BY <1>20, CredentialSteps
  <2>2. PICK l \in Settling : pc' = [pc EXCEPT ![s] = l]
    BY <1>20, CredentialSteps
  <2> QED BY <2>1, <2>2 DEF LeftAreGone, Taken, TypeOK, accountVars, socketVars, Settling
<1> QED BY <1>1, <1>2, <1>3, <1>4, <1>5, <1>6, <1>7, <1>8, <1>9, <1>10, <1>11, <1>12, <1>13,
           <1>14, <1>15, <1>16, <1>17, <1>18, <1>19, <1>20 DEF Socket, Credentials

(* The channel a join replaces stays closed. *)
LEMMA ReplacedSteps ==
    ASSUME TypeOK, Located, ReplacedAreDown, NEW s \in Sockets, Socket(s)
    PROVE  ReplacedAreDown'
<1>1. CASE Subscribe(s)
  BY <1>1 DEF ReplacedAreDown, TypeOK, Located, Subscribe, Ready, Listening, Goto, socketVars
<1>2. CASE Validate(s)
  BY <1>2 DEF ReplacedAreDown, TypeOK, Located, Validate, Ready, Listening, Goto, socketVars
<1>3. CASE Accept(s)
  BY <1>3 DEF ReplacedAreDown, TypeOK, Located, Accept, Ready, Listening, Goto, socketVars
<1>4. CASE JoinStart(s)
  BY <1>4 DEF ReplacedAreDown, TypeOK, Located, JoinStart, Ready, Listening, Goto, socketVars
<1>5. CASE JoinMove(s)
  BY <1>5 DEF ReplacedAreDown, TypeOK, Located, JoinMove, Ready, Listening, Goto, socketVars
<1>6. CASE JoinLookup(s)
  BY <1>6 DEF ReplacedAreDown, TypeOK, Located, JoinLookup, Ready, Listening, Goto, socketVars
<1>7. CASE JoinReplace(s)
  BY <1>7 DEF ReplacedAreDown, TypeOK, Located, JoinReplace, Ready, Listening, Goto, socketVars
<1>8. CASE JoinCommit(s)
  BY <1>8 DEF ReplacedAreDown, TypeOK, Located, JoinCommit, Ready, Listening, Goto, socketVars
<1>9. CASE JoinSettle(s)
  BY <1>9 DEF ReplacedAreDown, TypeOK, Located, JoinSettle, Ready, Listening, Goto, socketVars
<1>10. CASE LeaveStart(s)
  BY <1>10 DEF ReplacedAreDown, TypeOK, Located, LeaveStart, Ready, Listening, Goto, socketVars
<1>11. CASE LeaveEnd(s)
  BY <1>11 DEF ReplacedAreDown, TypeOK, Located, LeaveEnd, Ready, Listening, Goto, socketVars
<1>12. ASSUME NEW e \in Sockets, Reconnect(s, e) PROVE ReplacedAreDown'
  BY <1>12 DEF ReplacedAreDown, TypeOK, Located, Reconnect, Ready, Listening, Goto, socketVars
<1>13. CASE Resume(s)
  BY <1>13 DEF ReplacedAreDown, TypeOK, Located, Resume, Ready, Listening, Goto, socketVars
<1>14. CASE ResumeFails(s)
  BY <1>14 DEF ReplacedAreDown, TypeOK, Located, ResumeFails, Ready, Listening, Goto, socketVars
<1>15. CASE Part(s)
  BY <1>15 DEF ReplacedAreDown, TypeOK, Located, Part, Ready, Listening, Goto, socketVars
<1>16. CASE Retain(s)
  BY <1>16 DEF ReplacedAreDown, TypeOK, Located, Retain, Ready, Listening, Goto, socketVars
<1>17. CASE RemoveOwn(s)
  BY <1>17 DEF ReplacedAreDown, TypeOK, Located, RemoveOwn, Ready, Listening, Goto, socketVars
<1>18. CASE WriterEnds(s)
  BY <1>18 DEF ReplacedAreDown, TypeOK, Located, WriterEnds, Ready, Listening, Goto, socketVars
<1>19. CASE Mark(s)
  BY <1>19 DEF ReplacedAreDown, TypeOK, Located, Mark, Ready, Listening, Goto, socketVars
<1>20. CASE Credentials(s)
  <2>1. UNCHANGED <<socketVars, down>>
    BY <1>20, CredentialSteps
  <2>2. PICK l \in Settling : pc' = [pc EXCEPT ![s] = l]
    BY <1>20, CredentialSteps
  <2> QED BY <2>1, <2>2 DEF ReplacedAreDown, TypeOK, socketVars, Settling
<1> QED BY <1>1, <1>2, <1>3, <1>4, <1>5, <1>6, <1>7, <1>8, <1>9, <1>10, <1>11, <1>12, <1>13,
           <1>14, <1>15, <1>16, <1>17, <1>18, <1>19, <1>20 DEF Socket, Credentials

(* A task's own step takes nobody else's session out of care. *)
LEMMA CareKept ==
    ASSUME TypeOK, NEW s \in Sockets, NEW x \in Sockets, InCare(x),
           \E l : pc' = [pc EXCEPT ![s] = l],
           UNCHANGED purge, timer'[x] = timer[x],
           \A t \in Sockets \ {s} : other'[t] = other[t],
           pc[s] \in {"resuming", "dropping"} => other[s] # x
    PROVE  InCare(x)'
BY DEF InCare, Taken, TypeOK

(* A socket's task gives up its seat only to a timer, or removes it first. *)
LEMMA CareSteps ==
    ASSUME TypeOK, Located, Seated, LeftInCare, NEW s \in Sockets, Socket(s)
    PROVE  LeftInCare'
<1> SUFFICES ASSUME ~draining', NEW x \in Sockets, NEW r \in Rooms, NEW p \in People,
                    Owns(x, r, p)', pc'[x] \in {"marking", "closed"}
             PROVE  InCare(x)'
  BY DEF LeftInCare
<1>1. CASE Subscribe(s)
  <2>1. Owns(x, r, p)
    BY <1>1 DEF Subscribe, roomVars, Owns
  <2>2. SeatedAt(x, r, p)
    BY <2>1 DEF Seated
  <2>3. CASE x = s
    BY <1>1, <2>1, <2>2, <2>3, SocketAssumption DEF SeatedAt, Subscribe, Goto, TypeOK,
       Attending, Ready, Listening, roomVars
  <2>4. CASE x # s
    <3>1. \E l : pc' = [pc EXCEPT ![s] = l]
      BY <1>1 DEF Subscribe, Goto
    <3>2. pc'[x] = pc[x] /\ ~draining
      BY <1>1, <2>4, <3>1 DEF TypeOK, Subscribe, roomVars
    <3>3. InCare(x)
      BY <2>1, <3>2 DEF LeftInCare
    <3>4. /\ UNCHANGED purge /\ timer'[x] = timer[x]
          /\ \A t \in Sockets \ {s} : other'[t] = other[t]
          /\ pc[s] \in {"resuming", "dropping"} => other[s] # x
      BY <1>1, <2>1, <2>2, <2>4, <3>2 DEF Subscribe, Ready, Listening, TypeOK, SeatedAt,
         Attending, accountVars, socketVars
    <3> QED BY <3>1, <3>3, <3>4, CareKept
  <2> QED BY <2>3, <2>4
<1>2. CASE Validate(s)
  <2>1. Owns(x, r, p)
    BY <1>2 DEF Validate, roomVars, Owns
  <2>2. SeatedAt(x, r, p)
    BY <2>1 DEF Seated
  <2>3. CASE x = s
    BY <1>2, <2>1, <2>2, <2>3, SocketAssumption DEF SeatedAt, Validate, Goto, TypeOK,
       Attending, Ready, Listening, roomVars
  <2>4. CASE x # s
    <3>1. \E l : pc' = [pc EXCEPT ![s] = l]
      BY <1>2 DEF Validate, Goto
    <3>2. pc'[x] = pc[x] /\ ~draining
      BY <1>2, <2>4, <3>1 DEF TypeOK, Validate, roomVars
    <3>3. InCare(x)
      BY <2>1, <3>2 DEF LeftInCare
    <3>4. /\ UNCHANGED purge /\ timer'[x] = timer[x]
          /\ \A t \in Sockets \ {s} : other'[t] = other[t]
          /\ pc[s] \in {"resuming", "dropping"} => other[s] # x
      BY <1>2, <2>1, <2>2, <2>4, <3>2 DEF Validate, Ready, Listening, TypeOK, SeatedAt,
         Attending, accountVars, socketVars
    <3> QED BY <3>1, <3>3, <3>4, CareKept
  <2> QED BY <2>3, <2>4
<1>3. CASE Accept(s)
  <2>1. Owns(x, r, p)
    BY <1>3 DEF Accept, roomVars, Owns
  <2>2. SeatedAt(x, r, p)
    BY <2>1 DEF Seated
  <2>3. CASE x = s
    BY <1>3, <2>1, <2>2, <2>3, SocketAssumption DEF SeatedAt, Accept, Goto, TypeOK,
       Attending, Ready, Listening, roomVars
  <2>4. CASE x # s
    <3>1. \E l : pc' = [pc EXCEPT ![s] = l]
      BY <1>3 DEF Accept, Goto
    <3>2. pc'[x] = pc[x] /\ ~draining
      BY <1>3, <2>4, <3>1 DEF TypeOK, Accept, roomVars
    <3>3. InCare(x)
      BY <2>1, <3>2 DEF LeftInCare
    <3>4. /\ UNCHANGED purge /\ timer'[x] = timer[x]
          /\ \A t \in Sockets \ {s} : other'[t] = other[t]
          /\ pc[s] \in {"resuming", "dropping"} => other[s] # x
      BY <1>3, <2>1, <2>2, <2>4, <3>2 DEF Accept, Ready, Listening, TypeOK, SeatedAt,
         Attending, accountVars, socketVars
    <3> QED BY <3>1, <3>3, <3>4, CareKept
  <2> QED BY <2>3, <2>4
<1>4. CASE JoinStart(s)
  <2>1. Owns(x, r, p)
    BY <1>4 DEF JoinStart, roomVars, Owns
  <2>2. SeatedAt(x, r, p)
    BY <2>1 DEF Seated
  <2>3. CASE x = s
    BY <1>4, <2>1, <2>2, <2>3, SocketAssumption DEF SeatedAt, JoinStart, Goto, TypeOK,
       Attending, Ready, Listening, roomVars
  <2>4. CASE x # s
    <3>1. \E l : pc' = [pc EXCEPT ![s] = l]
      BY <1>4 DEF JoinStart, Goto
    <3>2. pc'[x] = pc[x] /\ ~draining
      BY <1>4, <2>4, <3>1 DEF TypeOK, JoinStart, roomVars
    <3>3. InCare(x)
      BY <2>1, <3>2 DEF LeftInCare
    <3>4. /\ UNCHANGED purge /\ timer'[x] = timer[x]
          /\ \A t \in Sockets \ {s} : other'[t] = other[t]
          /\ pc[s] \in {"resuming", "dropping"} => other[s] # x
      BY <1>4, <2>1, <2>2, <2>4, <3>2 DEF JoinStart, Ready, Listening, TypeOK, SeatedAt,
         Attending, accountVars, socketVars
    <3> QED BY <3>1, <3>3, <3>4, CareKept
  <2> QED BY <2>3, <2>4
<1>5. CASE JoinMove(s)
  <2>1. Owns(x, r, p) /\ ~(x = s /\ r = here[s] /\ p = pid[s])
    BY <1>5, OwnsVacated DEF JoinMove
  <2>2. SeatedAt(x, r, p)
    BY <2>1 DEF Seated
  <2>3. CASE x = s
    BY <1>5, <2>1, <2>2, <2>3 DEF SeatedAt, JoinMove, Goto, TypeOK, Attending
  <2>4. CASE x # s
    <3>1. \E l : pc' = [pc EXCEPT ![s] = l]
      BY <1>5 DEF JoinMove, Goto
    <3>2. pc'[x] = pc[x] /\ ~draining
      BY <1>5, <2>4, <3>1 DEF TypeOK, JoinMove, roomVars
    <3>3. InCare(x)
      BY <2>1, <3>2 DEF LeftInCare
    <3>4. /\ UNCHANGED purge /\ timer'[x] = timer[x]
          /\ \A t \in Sockets \ {s} : other'[t] = other[t]
          /\ pc[s] \in {"resuming", "dropping"} => other[s] # x
      BY <1>5, <2>1, <2>2, <2>4, <3>2 DEF JoinMove, Ready, Listening, TypeOK, SeatedAt,
         Attending, accountVars, socketVars
    <3> QED BY <3>1, <3>3, <3>4, CareKept
  <2> QED BY <2>3, <2>4
<1>6. CASE JoinLookup(s)
  <2>1. Owns(x, r, p)
    BY <1>6 DEF JoinLookup, roomVars, Owns
  <2>2. SeatedAt(x, r, p)
    BY <2>1 DEF Seated
  <2>3. CASE x = s
    BY <1>6, <2>1, <2>2, <2>3, SocketAssumption DEF SeatedAt, JoinLookup, Goto, TypeOK,
       Attending, Ready, Listening, roomVars
  <2>4. CASE x # s
    <3>1. \E l : pc' = [pc EXCEPT ![s] = l]
      BY <1>6 DEF JoinLookup, Goto
    <3>2. pc'[x] = pc[x] /\ ~draining
      BY <1>6, <2>4, <3>1 DEF TypeOK, JoinLookup, roomVars
    <3>3. InCare(x)
      BY <2>1, <3>2 DEF LeftInCare
    <3>4. /\ UNCHANGED purge /\ timer'[x] = timer[x]
          /\ \A t \in Sockets \ {s} : other'[t] = other[t]
          /\ pc[s] \in {"resuming", "dropping"} => other[s] # x
      BY <1>6, <2>1, <2>2, <2>4, <3>2 DEF JoinLookup, Ready, Listening, TypeOK, SeatedAt,
         Attending, accountVars, socketVars
    <3> QED BY <3>1, <3>3, <3>4, CareKept
  <2> QED BY <2>3, <2>4
<1>7. CASE JoinReplace(s)
  <2>1. Owns(x, r, p) /\ ~(x = other[s] /\ r = want[s] /\ p = pid[s])
    BY <1>7, OwnsVacated DEF JoinReplace
  <2>2. SeatedAt(x, r, p)
    BY <2>1 DEF Seated
  <2>3. CASE x = s
    BY <1>7, <2>1, <2>2, <2>3 DEF SeatedAt, JoinReplace, Goto, TypeOK, Attending
  <2>4. CASE x # s
    <3>1. \E l : pc' = [pc EXCEPT ![s] = l]
      BY <1>7 DEF JoinReplace, Goto
    <3>2. pc'[x] = pc[x] /\ ~draining
      BY <1>7, <2>4, <3>1 DEF TypeOK, JoinReplace, roomVars
    <3>3. InCare(x)
      BY <2>1, <3>2 DEF LeftInCare
    <3>4. /\ UNCHANGED purge /\ timer'[x] = timer[x]
          /\ \A t \in Sockets \ {s} : other'[t] = other[t]
          /\ pc[s] \in {"resuming", "dropping"} => other[s] # x
      BY <1>7, <2>1, <2>2, <2>4, <3>2 DEF JoinReplace, Ready, Listening, TypeOK, SeatedAt,
         Attending, accountVars, socketVars
    <3> QED BY <3>1, <3>3, <3>4, CareKept
  <2> QED BY <2>3, <2>4
<1>8. CASE JoinCommit(s)
  <2>1. x # s /\ pc[x] = pc'[x]
    BY <1>8 DEF JoinCommit, Goto, TypeOK
  <2>2. Owns(x, r, p)
    <3>1. CASE UNCHANGED seat
      BY <3>1 DEF Owns
    <3>2. ASSUME NEW lobby \in BOOLEAN,
                 seat' = [seat EXCEPT ![want[s]][pid[s]] =
                            [owner |-> s, lobby |-> lobby, connected |-> TRUE]]
          PROVE  Owns(x, r, p)
      BY <2>1, <3>2, OwnsGranted
    <3> QED BY <1>8, <3>1, <3>2 DEF JoinCommit
  <2>3. InCare(x)
    BY <1>8, <2>1, <2>2 DEF LeftInCare, JoinCommit
  <2>4. \E l : pc' = [pc EXCEPT ![s] = l]
    BY <1>8 DEF JoinCommit, Goto
  <2>5. pc[s] = "commit" /\ UNCHANGED <<purge, timer, other>>
    BY <1>8 DEF JoinCommit, accountVars, socketVars
  <2> QED BY <2>3, <2>4, <2>5, CareKept
<1>9. CASE JoinSettle(s)
  <2>1. Owns(x, r, p)
    BY <1>9 DEF JoinSettle, roomVars, Owns
  <2>2. SeatedAt(x, r, p)
    BY <2>1 DEF Seated
  <2>3. CASE x = s
    BY <1>9, <2>1, <2>2, <2>3, SocketAssumption DEF SeatedAt, JoinSettle, Goto, TypeOK,
       Attending, Ready, Listening, roomVars
  <2>4. CASE x # s
    <3>1. \E l : pc' = [pc EXCEPT ![s] = l]
      BY <1>9 DEF JoinSettle, Goto
    <3>2. pc'[x] = pc[x] /\ ~draining
      BY <1>9, <2>4, <3>1 DEF TypeOK, JoinSettle, roomVars
    <3>3. InCare(x)
      BY <2>1, <3>2 DEF LeftInCare
    <3>4. /\ UNCHANGED purge /\ timer'[x] = timer[x]
          /\ \A t \in Sockets \ {s} : other'[t] = other[t]
          /\ pc[s] \in {"resuming", "dropping"} => other[s] # x
      BY <1>9, <2>1, <2>2, <2>4, <3>2 DEF JoinSettle, Ready, Listening, TypeOK, SeatedAt,
         Attending, accountVars, socketVars
    <3> QED BY <3>1, <3>3, <3>4, CareKept
  <2> QED BY <2>3, <2>4
<1>10. CASE LeaveStart(s)
  <2>1. Owns(x, r, p)
    BY <1>10 DEF LeaveStart, roomVars, Owns
  <2>2. SeatedAt(x, r, p)
    BY <2>1 DEF Seated
  <2>3. CASE x = s
    BY <1>10, <2>1, <2>2, <2>3, SocketAssumption DEF SeatedAt, LeaveStart, Goto, TypeOK,
       Attending, Ready, Listening, roomVars
  <2>4. CASE x # s
    <3>1. \E l : pc' = [pc EXCEPT ![s] = l]
      BY <1>10 DEF LeaveStart, Goto
    <3>2. pc'[x] = pc[x] /\ ~draining
      BY <1>10, <2>4, <3>1 DEF TypeOK, LeaveStart, roomVars
    <3>3. InCare(x)
      BY <2>1, <3>2 DEF LeftInCare
    <3>4. /\ UNCHANGED purge /\ timer'[x] = timer[x]
          /\ \A t \in Sockets \ {s} : other'[t] = other[t]
          /\ pc[s] \in {"resuming", "dropping"} => other[s] # x
      BY <1>10, <2>1, <2>2, <2>4, <3>2 DEF LeaveStart, Ready, Listening, TypeOK, SeatedAt,
         Attending, accountVars, socketVars
    <3> QED BY <3>1, <3>3, <3>4, CareKept
  <2> QED BY <2>3, <2>4
<1>11. CASE LeaveEnd(s)
  <2>1. Owns(x, r, p) /\ ~(x = s /\ r = here[s] /\ p = pid[s])
    BY <1>11, OwnsVacated DEF LeaveEnd
  <2>2. SeatedAt(x, r, p)
    BY <2>1 DEF Seated
  <2>3. CASE x = s
    BY <1>11, <2>1, <2>2, <2>3 DEF SeatedAt, LeaveEnd, Goto, TypeOK, Attending
  <2>4. CASE x # s
    <3>1. \E l : pc' = [pc EXCEPT ![s] = l]
      BY <1>11 DEF LeaveEnd, Goto
    <3>2. pc'[x] = pc[x] /\ ~draining
      BY <1>11, <2>4, <3>1 DEF TypeOK, LeaveEnd, roomVars
    <3>3. InCare(x)
      BY <2>1, <3>2 DEF LeftInCare
    <3>4. /\ UNCHANGED purge /\ timer'[x] = timer[x]
          /\ \A t \in Sockets \ {s} : other'[t] = other[t]
          /\ pc[s] \in {"resuming", "dropping"} => other[s] # x
      BY <1>11, <2>1, <2>2, <2>4, <3>2 DEF LeaveEnd, Ready, Listening, TypeOK, SeatedAt,
         Attending, accountVars, socketVars
    <3> QED BY <3>1, <3>3, <3>4, CareKept
  <2> QED BY <2>3, <2>4
<1>12. ASSUME NEW e \in Sockets, Reconnect(s, e) PROVE InCare(x)'
  <2>1. Owns(x, r, p) /\ x # s /\ pc[x] = pc'[x]
    BY <1>12 DEF Reconnect, roomVars, Owns, TypeOK, Goto
  <2>2. CASE x = e
    BY <1>12, <2>2 DEF Reconnect, InCare, Taken, TypeOK, Goto
  <2>3. CASE x # e
    <3>1. InCare(x)
      BY <1>12, <2>1 DEF LeftInCare, Reconnect, roomVars
    <3>2. /\ UNCHANGED purge /\ timer'[x] = timer[x] /\ pc[s] = "open"
          /\ \A t \in Sockets \ {s} : other'[t] = other[t]
      BY <1>12, <2>3 DEF Reconnect, Ready, Listening, TypeOK, accountVars
    <3>3. pc' = [pc EXCEPT ![s] = "resuming"]
      BY <1>12 DEF Reconnect, Goto
    <3> QED BY <3>1, <3>2, <3>3, CareKept
  <2> QED BY <2>2, <2>3
<1>13. CASE Resume(s)
  <2>1. pc[s] = "resuming" /\ UNCHANGED <<draining, purge, timer>>
    BY <1>13 DEF Resume, accountVars
  <2>2. CASE Goto(s, "dropping") /\ UNCHANGED <<seat, here, pid, other>>
    <3>1. Owns(x, r, p) /\ x # s /\ pc[x] = pc'[x]
      BY <2>2 DEF Owns, Goto, TypeOK
    <3>2. InCare(x)
      BY <2>1, <3>1 DEF LeftInCare
    <3> QED BY <2>1, <2>2, <3>2 DEF InCare, Taken, TypeOK, Goto
  <2>3. CASE /\ seat' = [seat EXCEPT ![here[other[s]]][pid[other[s]]] =
                            [owner |-> s, lobby |-> FALSE, connected |-> TRUE]]
             /\ other' = [other EXCEPT ![s] = None]
             /\ Goto(s, "open")
    <3>1. x # s /\ pc[x] = pc'[x]
      BY <2>3 DEF Goto, TypeOK
    <3>2. \/ x = s /\ r = here[other[s]] /\ p = pid[other[s]]
          \/ Owns(x, r, p) /\ ~(r = here[other[s]] /\ p = pid[other[s]])
      BY <2>3, OwnsGranted
    <3>3. Owns(x, r, p) /\ SeatedAt(x, r, p)
      BY <3>1, <3>2 DEF Seated
    <3>4. x # other[s]
      BY <3>1, <3>2, <3>3 DEF SeatedAt
    <3>5. InCare(x)
      BY <2>1, <3>1, <3>3 DEF LeftInCare
    <3>6. \A t \in Sockets \ {s} : other'[t] = other[t]
      BY <2>3 DEF TypeOK
    <3> QED BY <2>1, <2>3, <3>4, <3>5, <3>6, CareKept DEF Goto
  <2> QED BY <1>13, <2>2, <2>3 DEF Resume
<1>14. CASE ResumeFails(s)
  <2>1. Owns(x, r, p) /\ ~(x = other[s] /\ r = here[other[s]] /\ p = pid[other[s]])
    BY <1>14, OwnsVacated DEF ResumeFails
  <2>2. SeatedAt(x, r, p)
    BY <2>1 DEF Seated
  <2>3. CASE x = s
    BY <1>14, <2>1, <2>2, <2>3 DEF SeatedAt, ResumeFails, Goto, TypeOK, Attending
  <2>4. CASE x # s
    <3>1. \E l : pc' = [pc EXCEPT ![s] = l]
      BY <1>14 DEF ResumeFails, Goto
    <3>2. pc'[x] = pc[x] /\ ~draining
      BY <1>14, <2>4, <3>1 DEF TypeOK, ResumeFails, roomVars
    <3>3. InCare(x)
      BY <2>1, <3>2 DEF LeftInCare
    <3>4. /\ UNCHANGED purge /\ timer'[x] = timer[x]
          /\ \A t \in Sockets \ {s} : other'[t] = other[t]
          /\ pc[s] \in {"resuming", "dropping"} => other[s] # x
      BY <1>14, <2>1, <2>2, <2>4, <3>2 DEF ResumeFails, Ready, Listening, TypeOK, SeatedAt,
         Attending, accountVars, socketVars
    <3> QED BY <3>1, <3>3, <3>4, CareKept
  <2> QED BY <2>3, <2>4
<1>15. CASE Part(s)
  <2>1. Owns(x, r, p)
    BY <1>15 DEF Part, roomVars, Owns
  <2>2. SeatedAt(x, r, p)
    BY <2>1 DEF Seated
  <2>3. CASE x = s
    BY <1>15, <2>1, <2>2, <2>3, SocketAssumption DEF SeatedAt, Part, Goto, TypeOK,
       Attending, Ready, Listening, roomVars
  <2>4. CASE x # s
    <3>1. \E l : pc' = [pc EXCEPT ![s] = l]
      BY <1>15 DEF Part, Goto
    <3>2. pc'[x] = pc[x] /\ ~draining
      BY <1>15, <2>4, <3>1 DEF TypeOK, Part, roomVars
    <3>3. InCare(x)
      BY <2>1, <3>2 DEF LeftInCare
    <3>4. /\ UNCHANGED purge /\ timer'[x] = timer[x]
          /\ \A t \in Sockets \ {s} : other'[t] = other[t]
          /\ pc[s] \in {"resuming", "dropping"} => other[s] # x
      BY <1>15, <2>1, <2>2, <2>4, <3>2 DEF Part, Ready, Listening, TypeOK, SeatedAt,
         Attending, accountVars, socketVars
    <3> QED BY <3>1, <3>3, <3>4, CareKept
  <2> QED BY <2>3, <2>4
<1>16. CASE Retain(s)
  <2>1. Owns(x, r, p)
    BY <1>16 DEF Retain, roomVars, Owns
  <2>2. SeatedAt(x, r, p)
    BY <2>1 DEF Seated
  <2>3. CASE x = s
    BY <1>16, <2>1, <2>2, <2>3 DEF SeatedAt, Retain, Goto, TypeOK, InCare
  <2>4. CASE x # s
    <3>1. \E l : pc' = [pc EXCEPT ![s] = l]
      BY <1>16 DEF Retain, Goto
    <3>2. pc'[x] = pc[x] /\ ~draining
      BY <1>16, <2>4, <3>1 DEF TypeOK, Retain, roomVars
    <3>3. InCare(x)
      BY <2>1, <3>2 DEF LeftInCare
    <3>4. /\ UNCHANGED purge /\ timer'[x] = timer[x]
          /\ \A t \in Sockets \ {s} : other'[t] = other[t]
          /\ pc[s] \in {"resuming", "dropping"} => other[s] # x
      BY <1>16, <2>1, <2>2, <2>4, <3>2 DEF Retain, Ready, Listening, TypeOK, SeatedAt,
         Attending, accountVars, socketVars
    <3> QED BY <3>1, <3>3, <3>4, CareKept
  <2> QED BY <2>3, <2>4
<1>17. CASE RemoveOwn(s)
  <2>1. Owns(x, r, p) /\ ~(x = s /\ r = here[s] /\ p = pid[s])
    BY <1>17, OwnsVacated DEF RemoveOwn
  <2>2. SeatedAt(x, r, p)
    BY <2>1 DEF Seated
  <2>3. CASE x = s
    BY <1>17, <2>1, <2>2, <2>3 DEF SeatedAt, RemoveOwn, Goto, TypeOK, Attending
  <2>4. CASE x # s
    <3>1. \E l : pc' = [pc EXCEPT ![s] = l]
      BY <1>17 DEF RemoveOwn, Goto
    <3>2. pc'[x] = pc[x] /\ ~draining
      BY <1>17, <2>4, <3>1 DEF TypeOK, RemoveOwn, roomVars
    <3>3. InCare(x)
      BY <2>1, <3>2 DEF LeftInCare
    <3>4. /\ UNCHANGED purge /\ timer'[x] = timer[x]
          /\ \A t \in Sockets \ {s} : other'[t] = other[t]
          /\ pc[s] \in {"resuming", "dropping"} => other[s] # x
      BY <1>17, <2>1, <2>2, <2>4, <3>2 DEF RemoveOwn, Ready, Listening, TypeOK, SeatedAt,
         Attending, accountVars, socketVars
    <3> QED BY <3>1, <3>3, <3>4, CareKept
  <2> QED BY <2>3, <2>4
<1>18. CASE WriterEnds(s)
  <2>1. Owns(x, r, p) /\ pc[x] \in {"marking", "closed"} /\ ~draining
    BY <1>18 DEF WriterEnds, roomVars, Owns
  <2>2. InCare(x)
    BY <2>1 DEF LeftInCare
  <2> QED BY <1>18, <2>2 DEF InCare, Taken, WriterEnds, accountVars, socketVars
<1>19. CASE Mark(s)
  <2>1. Owns(x, r, p)
    BY <1>19, OwnsMarked
  <2>2. SeatedAt(x, r, p)
    BY <2>1 DEF Seated
  <2>3. CASE x = s
    BY <1>19, <2>1, <2>2, <2>3, CareKept DEF SeatedAt, Mark, Goto, TypeOK, LeftInCare,
       accountVars, socketVars
  <2>4. CASE x # s
    <3>1. \E l : pc' = [pc EXCEPT ![s] = l]
      BY <1>19 DEF Mark, Goto
    <3>2. pc'[x] = pc[x] /\ ~draining
      BY <1>19, <2>4, <3>1 DEF TypeOK, Mark, roomVars
    <3>3. InCare(x)
      BY <2>1, <3>2 DEF LeftInCare
    <3>4. /\ UNCHANGED purge /\ timer'[x] = timer[x]
          /\ \A t \in Sockets \ {s} : other'[t] = other[t]
          /\ pc[s] \in {"resuming", "dropping"} => other[s] # x
      BY <1>19, <2>1, <2>2, <2>4, <3>2 DEF Mark, Ready, Listening, TypeOK, SeatedAt,
         Attending, accountVars, socketVars
    <3> QED BY <3>1, <3>3, <3>4, CareKept
  <2> QED BY <2>3, <2>4
<1>20. CASE Credentials(s)
  <2>1. UNCHANGED <<roomVars, accountVars, socketVars, timer>> /\ pc[s] \in Settling
    BY <1>20, CredentialSteps
  <2>2. PICK l \in Settling : pc' = [pc EXCEPT ![s] = l]
    BY <1>20, CredentialSteps
  <2>3. x # s /\ pc'[x] = pc[x]
    BY <2>2 DEF Settling, TypeOK
  <2>4. Owns(x, r, p) /\ ~draining
    BY <2>1 DEF Owns, roomVars
  <2>5. InCare(x)
    BY <2>3, <2>4 DEF LeftInCare
  <2>6. pc[s] \notin {"resuming", "dropping"}
    BY <2>1 DEF Settling
  <2>7. UNCHANGED <<purge, timer, other>>
    BY <2>1 DEF accountVars, socketVars
  <2> QED BY <2>2, <2>5, <2>6, <2>7, CareKept
<1> QED BY <1>1, <1>2, <1>3, <1>4, <1>5, <1>6, <1>7, <1>8, <1>9, <1>10, <1>11, <1>12, <1>13,
           <1>14, <1>15, <1>16, <1>17, <1>18, <1>19, <1>20 DEF Socket, Credentials

(* A timer, the writer, the database and the cleanup leave every task where *)
(* it is, and remove at most the seat of the session they are about.        *)
LEMMA BackgroundSteps ==
    ASSUME TypeOK, NEW s \in Sockets, Timer(s) \/ Around(s)
    PROVE  /\ UNCHANGED <<draining, closed, pc, socketVars>>
           /\ down' = down \/ down' = [down EXCEPT ![s] = TRUE]
           /\ \/ UNCHANGED <<seat, purge, timer>>
              \/ /\ UNCHANGED <<seat, purge>> /\ timer[s] \in {"armed", "checking"}
                 /\ \E l \in {"armed", "checking", "removing", "stopped"} :
                      timer' = [timer EXCEPT ![s] = l] /\ (l = "stopped" => draining)
              \/ /\ seat' = Vacated(s, here[s], pid[s]) /\ UNCHANGED purge
                 /\ timer[s] = "removing" /\ timer' = [timer EXCEPT ![s] = "off"]
              \/ /\ seat' = Vacated(s, here[s], pid[s]) /\ UNCHANGED timer
                 /\ s \in purge /\ purge' = purge \ {s}
<1>0. timer = [timer EXCEPT ![s] = timer[s]]
  BY DEF TypeOK
<1>1. CASE TimerCheckBegin(s)
  BY <1>1 DEF TimerCheckBegin, roomVars, accountVars
<1>2. CASE TimerCheckEnd(s)
  <2>1. UNCHANGED <<draining, closed, pc, socketVars, down, seat, purge>> /\ timer[s] = "checking"
    BY <1>2 DEF TimerCheckEnd, roomVars, accountVars
  <2>2. \/ draining /\ timer' = [timer EXCEPT ![s] = "stopped"]
        \/ timer' = [timer EXCEPT ![s] = "removing"]
        \/ timer' = [timer EXCEPT ![s] = "armed"]
    BY <1>2 DEF TimerCheckEnd
  <2> QED BY <2>1, <2>2
<1>3. CASE TimerNotice(s)
  <2>1. UNCHANGED <<draining, closed, pc, socketVars, down, seat, purge>> /\ timer[s] = "armed"
    BY <1>3 DEF TimerNotice, roomVars, accountVars
  <2>2. timer' = [timer EXCEPT ![s] = "removing"] \/ timer' = [timer EXCEPT ![s] = "armed"]
    BY <1>3, <2>1 DEF TimerNotice
  <2> QED BY <2>1, <2>2
<1>4. CASE TimerExpires(s)
  BY <1>4 DEF TimerExpires, roomVars, accountVars
<1>5. CASE TimerStops(s)
  BY <1>5 DEF TimerStops, roomVars, accountVars
<1>6. CASE TimerRemoves(s)
  BY <1>6 DEF TimerRemoves, accountVars
<1>7. CASE WriterFails(s)
  BY <1>7 DEF WriterFails, roomVars, accountVars
<1>8. CASE Query(s) \/ Lapse(s) \/ FallBehind(s)
  BY <1>8 DEF Query, Lapse, FallBehind, roomVars, accountVars
<1>9. CASE Purge(s)
  BY <1>9 DEF Purge
<1> QED BY <1>1, <1>2, <1>3, <1>4, <1>5, <1>6, <1>7, <1>8, <1>9 DEF Timer, Around

(* What moderators, revocations and the drain do to seats and retained     *)
(* sessions.                                                               *)
Aside ==
    /\ UNCHANGED <<pc, pid, here, want, other, down>>
    /\ \A x \in Sockets, r \in Rooms, p \in People : Owns(x, r, p)' => Owns(x, r, p)
    /\ closed' => draining'
    /\ draining => draining'
    /\ purge \subseteq purge'
    /\ \A x \in Sockets :
         \/ timer'[x] = timer[x] /\ (x \in purge' => x \in purge)
         \/ timer[x] # "off" /\ timer'[x] = "off" /\ (x \in purge' \/ draining')

(* No such step moves a task or gives a seat. *)
LEMMA WorldSteps == ASSUME TypeOK, ClosedIsDraining, World PROVE Aside
<1>1. ASSUME NEW a \in Accounts, ChangeCredentials(a) \/ Notify(a) PROVE Aside
  BY <1>1 DEF Aside, ChangeCredentials, Notify, Owns, ClosedIsDraining, roomVars, socketVars
<1>2. ASSUME NEW a \in Accounts, TakeRevoked(a) PROVE Aside
  BY <1>2 DEF Aside, TakeRevoked, Retained, Owns, ClosedIsDraining, TypeOK, roomVars, socketVars
<1>3. ASSUME NEW q \in Rooms, NEW u \in People, Admit(q, u) PROVE Aside
  <2> DEFINE y == [seat[q][u] EXCEPT !.lobby = FALSE]
  <2>1. seat[q][u] \in Seats
    BY <1>3 DEF Admit, TypeOK
  <2>2. y.owner = seat[q][u].owner
    BY <2>1 DEF Seats
  <2>3. seat' = [seat EXCEPT ![q][u] = y] /\ seat[q][u] # None
    BY <1>3 DEF Admit
  <2>4. \A x \in Sockets, r \in Rooms, p \in People : Owns(x, r, p)' => Owns(x, r, p)
    <3> HIDE DEF y
    <3> QED BY <2>2, <2>3 DEF Owns, TypeOK
  <2> QED BY <1>3, <2>4 DEF Aside, Admit, ClosedIsDraining, accountVars
<1>4. ASSUME NEW q \in Rooms, NEW u \in People, Eject(q, u) PROVE Aside
  <2>1. \A x \in Sockets, r \in Rooms, p \in People : Owns(x, r, p)' => Owns(x, r, p)
    BY <1>4 DEF Eject, Owns, TypeOK
  <2> QED BY <1>4, <2>1 DEF Aside, Eject, ClosedIsDraining, accountVars, socketVars
<1>5. CASE DrainBegin
  BY <1>5 DEF Aside, DrainBegin, Owns, accountVars, socketVars
<1>6. CASE DrainClose
  BY <1>6 DEF Aside, DrainClose, Retained, Owns, TypeOK, accountVars, socketVars
<1>7. ASSUME NEW q \in Rooms, DrainRoom(q) PROVE Aside
  <2>1. \A x \in Sockets, r \in Rooms, p \in People : Owns(x, r, p)' => Owns(x, r, p)
    BY <1>7 DEF DrainRoom, Owns, TypeOK
  <2> QED BY <1>7, <2>1 DEF Aside, DrainRoom, ClosedIsDraining, accountVars, socketVars
<1>8. CASE UNCHANGED vars
  BY <1>8 DEF Aside, Owns, ClosedIsDraining, vars, roomVars, accountVars, socketVars
<1> QED BY <1>1, <1>2, <1>3, <1>4, <1>5, <1>6, <1>7, <1>8 DEF World, Revoke

(* The inductive invariant. *)
Custodial ==
    /\ TypeOK /\ Located /\ Seated /\ LeftInCare /\ LeftAreGone
    /\ ReplacedAreDown /\ ClosedIsDraining

(* The invariant holds of a server that has just started. *)
LEMMA InitCustodial == ASSUME Init PROVE Custodial
<1>1. TypeOK
  <2>1. cred \in [Sockets -> Creds] /\ mail \in [Sockets -> Mails]
    BY NewCredType, MailTypes DEF Init
  <2> QED BY <2>1 DEF Init, TypeOK, People, Labels, TimerStates, Answers
<1>2. Located /\ LeftAreGone /\ ReplacedAreDown /\ ClosedIsDraining
  BY DEF Init, Located, LeftAreGone, Taken, ReplacedAreDown, ClosedIsDraining
<1>3. Seated /\ LeftInCare
  BY DEF Init, Seated, LeftInCare, Owns
<1> QED BY <1>1, <1>2, <1>3 DEF Custodial

(* Every step of a socket's task preserves it. *)
LEMMA SocketCustodial ==
    ASSUME Custodial, NEW s \in Sockets, Socket(s)
    PROVE  Custodial'
<1>1. UNCHANGED <<draining, closed>>
  <2>1. CASE Credentials(s)
    BY <2>1, CredentialSteps DEF Custodial, roomVars
  <2> QED BY <2>1 DEF Socket, Credentials, Subscribe, Validate, Accept, JoinStart, JoinMove,
             JoinLookup, JoinReplace, JoinCommit, JoinSettle, LeaveStart, LeaveEnd,
             Reconnect, Resume, ResumeFails, Part, Retain, RemoveOwn, WriterEnds, Mark,
             roomVars
<1>2. ClosedIsDraining'
  BY <1>1 DEF Custodial, ClosedIsDraining
<1> QED BY <1>2, SocketTypes, LocatedSteps, SeatedSteps, CareSteps, GoneSteps, ReplacedSteps
        DEF Custodial

(* Every step of a timer or of a socket's surroundings preserves it. *)
LEMMA BackgroundCustodial ==
    ASSUME Custodial, NEW s \in Sockets, Timer(s) \/ Around(s)
    PROVE  Custodial'
<1>0. TypeOK /\ Located /\ Seated /\ LeftInCare /\ LeftAreGone
      /\ ReplacedAreDown /\ ClosedIsDraining
  BY DEF Custodial
<1>1. TypeOK'
  BY <1>0, TimerTypes, AroundTypes
<1>2. UNCHANGED <<draining, closed, pc, socketVars>>
  BY <1>0, BackgroundSteps
<1>3. Located' /\ ClosedIsDraining'
  BY <1>0, <1>2 DEF Located, ClosedIsDraining, socketVars
<1>4. ReplacedAreDown'
  <2>1. down' = down \/ down' = [down EXCEPT ![s] = TRUE]
    BY <1>0, BackgroundSteps
  <2> QED BY <1>0, <1>2, <2>1 DEF ReplacedAreDown, Located, TypeOK, socketVars
<1>5. \A x \in Sockets, r \in Rooms, p \in People : Owns(x, r, p)' => Owns(x, r, p)
  <2>1. CASE seat' = seat
    BY <2>1 DEF Owns
  <2>2. CASE seat' = Vacated(s, here[s], pid[s])
    BY <1>0, <2>2, OwnsVacated
  <2> QED BY <1>0, <2>1, <2>2, BackgroundSteps
<1>6. Seated'
  BY <1>0, <1>2, <1>5 DEF Seated, SeatedAt, socketVars
<1>7. LeftAreGone'
  <2>1. /\ purge' \subseteq purge
        /\ \A x \in Sockets : timer[x] = "off" => timer'[x] = "off"
    BY <1>0, BackgroundSteps DEF TypeOK
  <2> QED BY <1>0, <1>2, <2>1 DEF LeftAreGone, Taken, socketVars
<1>8. LeftInCare'
  <2> SUFFICES ASSUME ~draining', NEW x \in Sockets, NEW r \in Rooms, NEW p \in People,
                      Owns(x, r, p)', pc'[x] \in {"marking", "closed"}
               PROVE  InCare(x)'
    BY DEF LeftInCare
  <2>1. Owns(x, r, p) /\ InCare(x)
    BY <1>0, <1>2, <1>5 DEF LeftInCare
  <2>2. here[x] = r /\ pid[x] = p
    BY <1>0, <1>2, <2>1 DEF Seated, SeatedAt
  <2>3. CASE UNCHANGED <<seat, purge, timer>>
    BY <1>2, <2>1, <2>3 DEF InCare, Taken, socketVars
  <2>4. ASSUME UNCHANGED purge, timer[s] \in {"armed", "checking"},
               NEW l \in {"armed", "checking", "removing", "stopped"},
               timer' = [timer EXCEPT ![s] = l], l = "stopped" => draining
        PROVE  InCare(x)'
    BY <1>0, <1>2, <2>1, <2>4 DEF InCare, Taken, TypeOK, socketVars
  <2>5. ASSUME seat' = Vacated(s, here[s], pid[s]),
               \/ UNCHANGED purge /\ timer' = [timer EXCEPT ![s] = "off"]
               \/ UNCHANGED timer /\ purge' = purge \ {s}
        PROVE  InCare(x)'
    <3>1. x # s
      BY <1>0, <2>2, <2>5, OwnsVacated
    <3>2. timer'[x] = timer[x] /\ (x \in purge => x \in purge')
      BY <1>0, <2>5, <3>1 DEF TypeOK
    <3>3. UNCHANGED <<pc, other>>
      BY <1>2 DEF socketVars
    <3>4. Taken(x) => Taken(x)'
      BY <3>2, <3>3 DEF Taken
    <3> QED BY <2>1, <3>2, <3>4 DEF InCare
  <2> QED BY <1>0, <2>3, <2>4, <2>5, BackgroundSteps
<1> QED BY <1>1, <1>3, <1>4, <1>6, <1>7, <1>8 DEF Custodial

(* Every step of moderators, credential changes and the drain preserves it. *)
LEMMA WorldCustodial == ASSUME Custodial, World PROVE Custodial'
<1>0. /\ TypeOK /\ Located /\ Seated /\ LeftInCare /\ LeftAreGone
      /\ ReplacedAreDown /\ ClosedIsDraining
  BY DEF Custodial
<1>1. TypeOK'
  BY <1>0, WorldTypes
<1>2. Aside
  BY <1>0, WorldSteps
<1>3. Located' /\ ReplacedAreDown' /\ ClosedIsDraining'
  BY <1>0, <1>2 DEF Aside, Located, ReplacedAreDown, ClosedIsDraining
<1>4. Seated'
  BY <1>0, <1>2 DEF Aside, Seated, SeatedAt
<1>5. LeftAreGone'
  BY <1>0, <1>2 DEF Aside, LeftAreGone, Taken
<1>6. LeftInCare'
  BY <1>0, <1>2 DEF Aside, LeftInCare, InCare, Taken
<1> QED BY <1>1, <1>3, <1>4, <1>5, <1>6 DEF Custodial

(* Which steps there are. *)
LEMMA NextCases ==
    ASSUME [Next]_vars
    PROVE  World \/ \E s \in Sockets : Socket(s) \/ Timer(s) \/ Around(s)
BY DEF Next, World, Over

(* The inductive invariant holds: every task's locals name the one seat its *)
(* socket holds, and a seat whose socket is gone is in somebody's care.     *)
THEOREM CustodialHolds == Spec => []Custodial
<1>1. Init => Custodial
  BY InitCustodial
<1>2. Custodial /\ [Next]_vars => Custodial'
  BY NextCases, SocketCustodial, BackgroundCustodial, WorldCustodial
<1> QED BY <1>1, <1>2, PTL DEF Spec

(* Every variable keeps its type, whatever the sets of rooms, sockets and   *)
(* accounts are: a join, a resume and a cleanup never act through a channel *)
(* or a room that is not there.                                             *)
THEOREM TypeCorrect == Spec => []TypeOK
<1>1. Custodial => TypeOK
  BY DEF Custodial
<1> QED BY <1>1, CustodialHolds, PTL

(* No membership is forgotten, with any number of sockets of any number of *)
(* people (retain_for_reconnect, rebind_participant_sender, take_revoked). *)
THEOREM SeatsHaveCustody == Spec => []EverySeatHasCustody
<1>1. Custodial => EverySeatHasCustody
  <2> SUFFICES ASSUME Custodial, ~draining, NEW r \in Rooms, NEW p \in People,
                      seat[r][p] # None
               PROVE  Custody(seat[r][p].owner, r, p)
    BY DEF EverySeatHasCustody
  <2> DEFINE s == seat[r][p].owner
  <2>1. s \in Sockets
    BY OwnerType DEF Custodial
  <2>2. Owns(s, r, p)
    BY DEF Owns
  <2> HIDE DEF s
  <2>3. SeatedAt(s, r, p)
    BY <2>1, <2>2 DEF Custodial, Seated
  <2>4. pc[s] \in {"marking", "closed"} => InCare(s)
    BY <2>1, <2>2 DEF Custodial, LeftInCare
  <2>5. Custody(s, r, p)
    BY <2>3, <2>4 DEF SeatedAt, InCare, Taken, Custody
  <2> QED BY <2>5 DEF s
<1> QED BY <1>1, CustodialHolds, PTL

(* Once the drain has closed the grace map no timer of it runs again, also *)
(* when a socket was about to be retained (GracePeriodMap::insert_activated). *)
THEOREM DrainEndsAllTimers == Spec => []DrainEndsTimers
<1>1. Init => DrainEndsTimers
  BY DEF Init, DrainEndsTimers
<1>2. Custodial /\ DrainEndsTimers /\ [Next]_vars => DrainEndsTimers'
  <2> SUFFICES ASSUME Custodial, DrainEndsTimers, [Next]_vars, closed', NEW x \in Sockets
               PROVE  timer'[x] \notin {"armed", "checking", "stopped"}
    BY DEF DrainEndsTimers, Retained
  <2>0. TypeOK /\ (closed => timer[x] \notin {"armed", "checking", "stopped"})
    BY DEF Custodial, DrainEndsTimers, Retained
  <2>1. ASSUME NEW s \in Sockets, Socket(s)
        PROVE  timer'[x] \notin {"armed", "checking", "stopped"}
    <3>1. CASE Credentials(s)
      BY <2>0, <3>1, CredentialSteps DEF roomVars
    <3>2. CASE Retain(s)
      BY <2>0, <3>2 DEF Retain, roomVars
    <3>3. ASSUME NEW e \in Sockets, Reconnect(s, e)
          PROVE  timer'[x] \notin {"armed", "checking", "stopped"}
      BY <2>0, <3>3 DEF Reconnect, roomVars, TypeOK
    <3> QED BY <2>0, <2>1, <3>1, <3>2, <3>3 DEF Socket, Credentials, Subscribe, Validate,
               Accept, JoinStart, JoinMove, JoinLookup, JoinReplace, JoinCommit, JoinSettle,
               LeaveStart, LeaveEnd, Resume, ResumeFails, Part, RemoveOwn, WriterEnds, Mark,
               roomVars
  <2>2. ASSUME NEW s \in Sockets, Timer(s) \/ Around(s)
        PROVE  timer'[x] \notin {"armed", "checking", "stopped"}
    <3>1. closed
      BY <2>0, <2>2, BackgroundSteps
    <3>2. timer[s] \notin {"armed", "checking", "stopped"}
      BY <3>1 DEF DrainEndsTimers, Retained
    <3> QED BY <2>0, <2>2, <3>1, <3>2, BackgroundSteps DEF TypeOK
  <2>3. CASE World
    <3>1. CASE DrainClose
      BY <2>0, <3>1 DEF DrainClose, Retained, TypeOK
    <3>2. CASE ~DrainClose
      <4>1. closed
        BY <2>3, <3>2 DEF World, Revoke, ChangeCredentials, Notify, TakeRevoked, Admit,
           Eject, DrainBegin, DrainRoom, vars, roomVars
      <4> QED BY <2>0, <2>3, <4>1, WorldSteps DEF Aside, Custodial
    <3> QED BY <3>1, <3>2
  <2> QED BY <2>1, <2>2, <2>3, NextCases
<1> QED BY <1>1, <1>2, CustodialHolds, PTL DEF Spec

(* A closed socket stays closed. *)
LEMMA ClosedStays ==
    ASSUME TypeOK, [Next]_vars, NEW x \in Sockets, pc[x] = "closed"
    PROVE  pc'[x] = "closed"
<1>1. ASSUME NEW s \in Sockets, Socket(s) PROVE pc'[x] = "closed"
  <2>1. CASE Credentials(s)
    <3>1. pc[s] \in Settling /\ \E l : pc' = [pc EXCEPT ![s] = l]
      BY <2>1, CredentialSteps
    <3> QED BY <3>1 DEF TypeOK, Settling
  <2>2. CASE ~Credentials(s)
    <3>1. pc' = pc \/ (pc[s] # "closed" /\ \E l : pc' = [pc EXCEPT ![s] = l])
      BY <1>1, <2>2 DEF Socket, Credentials, Subscribe, Validate, Accept, JoinStart,
         JoinMove, JoinLookup, JoinReplace, JoinCommit, JoinSettle, LeaveStart, LeaveEnd,
         Reconnect, Resume, ResumeFails, Part, Retain, RemoveOwn, WriterEnds, Mark, Ready,
         Listening, Goto
    <3> QED BY <3>1 DEF TypeOK
  <2> QED BY <2>1, <2>2
<1>2. ASSUME NEW s \in Sockets, Timer(s) \/ Around(s) PROVE pc'[x] = "closed"
  BY <1>2, BackgroundSteps
<1>3. CASE World
  BY <1>3 DEF World, Revoke, ChangeCredentials, Notify, TakeRevoked, Admit, Eject,
     DrainBegin, DrainClose, DrainRoom, vars
<1> QED BY <1>1, <1>2, <1>3, NextCases

(* What a step leaves of a seat: the seat itself, one that is shown as      *)
(* present, or the own mark of a socket that is closed by it.               *)
LEMMA SeatSteps ==
    ASSUME TypeOK, Located, [Next]_vars, NEW r \in Rooms, NEW p \in People,
           seat'[r][p] # None, ~seat'[r][p].connected
    PROVE  \/ /\ seat[r][p] # None /\ ~seat[r][p].connected
              /\ seat'[r][p].owner = seat[r][p].owner
           \/ seat'[r][p].owner \in Sockets /\ pc'[seat'[r][p].owner] = "closed"
<1> DEFINE Kept == /\ seat[r][p] # None /\ ~seat[r][p].connected
                   /\ seat'[r][p].owner = seat[r][p].owner
<1>0. seat'[r][p] = seat[r][p] => Kept
  OBVIOUS
<1>1. ASSUME NEW s, NEW q, NEW u, seat' = Vacated(s, q, u) PROVE Kept
  <2>1. seat'[r][p] = None \/ seat'[r][p] = seat[r][p]
    BY <1>1 DEF Vacated, TypeOK
  <2> QED BY <1>0, <2>1
<1>2. ASSUME NEW s, NEW q, NEW u, NEW lobby,
             seat' = [seat EXCEPT ![q][u] = [owner |-> s, lobby |-> lobby, connected |-> TRUE]]
      PROVE  Kept
  <2>1. seat'[r][p] = [owner |-> s, lobby |-> lobby, connected |-> TRUE]
        \/ seat'[r][p] = seat[r][p]
    BY <1>2 DEF TypeOK
  <2> QED BY <1>0, <2>1
<1>3. seat' = seat => Kept
  BY <1>0
<1>4. ASSUME NEW s \in Sockets, Mark(s)
      PROVE  Kept \/ (seat'[r][p].owner \in Sockets /\ pc'[seat'[r][p].owner] = "closed")
  <2>1. CASE Owns(s, r, p)
    <3>1. seat'[r][p].owner = s
      <4>1. CASE seat' = seat
        BY <2>1, <4>1 DEF Owns
      <4>2. CASE seat' = [seat EXCEPT ![here[s]][pid[s]] =
                            [seat[here[s]][pid[s]] EXCEPT !.connected = FALSE]]
        <5> DEFINE y == [seat[here[s]][pid[s]] EXCEPT !.connected = FALSE]
        <5>1. CASE r = here[s] /\ p = pid[s]
          <6>1. seat[r][p] \in Seats
            BY <2>1 DEF Owns, TypeOK
          <6>2. y.owner = s
            BY <2>1, <5>1, <6>1 DEF Owns, Seats
          <6>3. seat'[r][p] = y
            <7> HIDE DEF y
            <7> QED BY <4>2, <5>1 DEF TypeOK, y
          <6> QED BY <6>2, <6>3
        <5>2. CASE ~(r = here[s] /\ p = pid[s])
          <6>1. seat'[r][p] = seat[r][p]
            BY <4>2, <5>2 DEF TypeOK
          <6> QED BY <2>1, <6>1 DEF Owns
        <5> QED BY <5>1, <5>2
      <4> QED BY <1>4, <4>1, <4>2 DEF Mark
    <3> QED BY <1>4, <3>1 DEF Mark, Goto, TypeOK
  <2>2. CASE ~Owns(s, r, p)
    <3>1. seat'[r][p] = seat[r][p]
      BY <1>4, <2>2 DEF Mark, TypeOK
    <3> QED BY <1>0, <3>1
  <2> QED BY <2>1, <2>2
<1>5. ASSUME NEW s \in Sockets, Socket(s)
      PROVE  Kept \/ (seat'[r][p].owner \in Sockets /\ pc'[seat'[r][p].owner] = "closed")
  <2> HIDE DEF Kept
  <2>1. CASE Credentials(s)
    BY <1>3, <2>1, CredentialSteps DEF roomVars
  <2>2. CASE JoinCommit(s)
    <3>1. ASSUME NEW lobby \in BOOLEAN,
                 seat' = [seat EXCEPT ![want[s]][pid[s]] =
                            [owner |-> s, lobby |-> lobby, connected |-> TRUE]]
          PROVE  Kept
      BY <1>2, <3>1
    <3> QED BY <1>3, <2>2, <3>1 DEF JoinCommit
  <2>3. CASE Resume(s)
    <3>1. CASE seat' = [seat EXCEPT ![here[other[s]]][pid[other[s]]] =
                          [owner |-> s, lobby |-> FALSE, connected |-> TRUE]]
      BY <1>2, <3>1
    <3> QED BY <1>3, <2>3, <3>1 DEF Resume
  <2>4. CASE seat' = Vacated(s, here[s], pid[s])
    BY <1>1, <2>4
  <2>5. CASE seat' = Vacated(other[s], want[s], pid[s])
    BY <1>1, <2>5
  <2>6. CASE seat' = Vacated(other[s], here[other[s]], pid[other[s]])
    BY <1>1, <2>6
  <2>7. CASE ~(Credentials(s) \/ JoinCommit(s) \/ Resume(s) \/ Mark(s))
    BY <1>3, <1>5, <2>4, <2>5, <2>6, <2>7 DEF Socket, Credentials, Subscribe, Validate,
       Accept, JoinStart, JoinMove, JoinLookup, JoinReplace, JoinSettle, LeaveStart,
       LeaveEnd, Reconnect, ResumeFails, Part, Retain, RemoveOwn, WriterEnds, roomVars
  <2> QED BY <1>4, <2>1, <2>2, <2>3, <2>7
<1>6. ASSUME NEW s \in Sockets, Timer(s) \/ Around(s) PROVE Kept
  <2> HIDE DEF Kept
  <2>1. CASE seat' = Vacated(s, here[s], pid[s])
    BY <1>1, <2>1
  <2> QED BY <1>3, <1>6, <2>1, BackgroundSteps
<1>7. CASE World
  <2>1. ASSUME NEW q \in Rooms, NEW u \in People, Admit(q, u) PROVE Kept
    <3> DEFINE y == [seat[q][u] EXCEPT !.lobby = FALSE]
    <3>1. seat[q][u] \in Seats
      BY <2>1 DEF Admit, TypeOK
    <3>2. y.owner = seat[q][u].owner /\ y.connected = seat[q][u].connected
      BY <3>1 DEF Seats
    <3>3. seat' = [seat EXCEPT ![q][u] = y] /\ seat[q][u] # None
      BY <2>1 DEF Admit
    <3>4. seat'[r][p] = seat[r][p] \/ (r = q /\ p = u /\ seat'[r][p] = y)
      <4> HIDE DEF y
      <4> QED BY <3>3 DEF TypeOK
    <3> HIDE DEF y
    <3> QED BY <3>2, <3>3, <3>4
  <2>2. CASE \A q \in Rooms, u \in People : ~Admit(q, u)
    <3>1. seat'[r][p] = None \/ seat'[r][p] = seat[r][p]
      BY <1>7, <2>2 DEF World, Revoke, ChangeCredentials, Notify, TakeRevoked, Eject,
         DrainBegin, DrainClose, DrainRoom, TypeOK, vars, roomVars
    <3> QED BY <1>0, <3>1
  <2> QED BY <2>1, <2>2
<1> QED BY <1>5, <1>6, <1>7, NextCases

(* A resumed member stays shown as present: whatever is late, a seat that  *)
(* is shown as absent belongs to a closed socket (mark_disconnected).      *)
THEOREM ResumedStaysConnected == Spec => []ResumedIsConnected
<1>1. Init => ResumedIsConnected
  BY DEF Init, ResumedIsConnected
<1>2. Custodial /\ ResumedIsConnected /\ [Next]_vars => ResumedIsConnected'
  <2> SUFFICES ASSUME Custodial, ResumedIsConnected, [Next]_vars,
                      NEW r \in Rooms, NEW p \in People,
                      seat'[r][p] # None, ~seat'[r][p].connected
               PROVE  pc'[seat'[r][p].owner] = "closed"
    BY DEF ResumedIsConnected
  <2>1. CASE /\ seat[r][p] # None /\ ~seat[r][p].connected
             /\ seat'[r][p].owner = seat[r][p].owner
    <3>1. seat[r][p].owner \in Sockets /\ pc[seat[r][p].owner] = "closed"
      BY <2>1, OwnerType DEF Custodial, ResumedIsConnected
    <3> QED BY <2>1, <3>1, ClosedStays DEF Custodial
  <2> QED BY <2>1, SeatSteps DEF Custodial
<1> QED BY <1>1, <1>2, CustodialHolds, PTL DEF Spec

(* A cleanup empties only a seat of the channel it is for. *)
LEMMA VacatedOwner ==
    ASSUME TypeOK, NEW s, NEW q, NEW u, seat' = Vacated(s, q, u),
           NEW x, NEW r \in Rooms, NEW p \in People, Owns(x, r, p), seat'[r][p] = None
    PROVE  x = s
BY DEF Vacated, Owns, TypeOK

(* The socket of a connected member that rests is nobody's left-over. *)
LEMMA RestingIsKept ==
    ASSUME Custodial, NEW x \in Sockets, pc[x] = "open", ~down[x], ~draining,
           NEW r \in Rooms, NEW p \in People, Owns(x, r, p), seat'[r][p] = None, Next
    PROVE  Eject(r, p)
<1>0. /\ TypeOK /\ Located /\ timer[x] = "off" /\ x \notin purge /\ ~closed
      /\ \A t \in Sockets : pc[t] \in {"resuming", "dropping"} => other[t] # x
      /\ \A t \in Sockets : pc[t] = "replace" => other[t] # x
  BY DEF Custodial, LeftAreGone, Taken, ReplacedAreDown, ClosedIsDraining
<1>a. seat'[r][p] # seat[r][p]
  BY DEF Owns
<1>1. ASSUME NEW s \in Sockets, Socket(s) PROVE FALSE
  <2>1. CASE Credentials(s)
    BY <1>0, <1>a, <2>1, CredentialSteps DEF roomVars
  <2>2. CASE JoinMove(s) \/ LeaveEnd(s) \/ RemoveOwn(s)
    <3>1. pc[s] # "open" /\ seat' = Vacated(s, here[s], pid[s])
      BY <2>2 DEF JoinMove, LeaveEnd, RemoveOwn
    <3> QED BY <1>0, <3>1, VacatedOwner
  <2>3. CASE JoinReplace(s)
    <3>1. pc[s] = "replace" /\ seat' = Vacated(other[s], want[s], pid[s])
      BY <2>3 DEF JoinReplace
    <3> QED BY <1>0, <3>1, VacatedOwner
  <2>4. CASE ResumeFails(s)
    <3>1. pc[s] = "dropping" /\ seat' = Vacated(other[s], here[other[s]], pid[other[s]])
      BY <2>4 DEF ResumeFails
    <3> QED BY <1>0, <3>1, VacatedOwner
  <2>5. CASE JoinCommit(s)
    <3>1. ASSUME NEW y, seat[want[s]][pid[s]] = None,
                 seat' = [seat EXCEPT ![want[s]][pid[s]] = y]
          PROVE  FALSE
      BY <1>0, <1>a, <3>1 DEF Owns, TypeOK
    <3> QED BY <1>a, <2>5, <3>1 DEF JoinCommit
  <2>6. CASE Resume(s)
    <3>1. pc[s] = "resuming" /\ other[s] # x
      BY <1>0, <2>6 DEF Resume
    <3>2. ASSUME NEW y, Owns(other[s], here[other[s]], pid[other[s]]),
                 seat' = [seat EXCEPT ![here[other[s]]][pid[other[s]]] = y]
          PROVE  FALSE
      BY <1>0, <1>a, <3>1, <3>2 DEF Owns, TypeOK
    <3> QED BY <1>a, <2>6, <3>2 DEF Resume
  <2>7. CASE Mark(s)
    <3>1. s # x
      BY <2>7 DEF Mark
    <3>2. ASSUME NEW y, Owns(s, here[s], pid[s]),
                 seat' = [seat EXCEPT ![here[s]][pid[s]] = y]
          PROVE  FALSE
      BY <1>0, <1>a, <3>1, <3>2 DEF Owns, TypeOK
    <3> QED BY <1>a, <2>7, <3>2 DEF Mark
  <2> QED BY <1>a, <1>1, <2>1, <2>2, <2>3, <2>4, <2>5, <2>6, <2>7
          DEF Socket, Credentials, Subscribe, Validate, Accept, JoinStart, JoinLookup,
              JoinSettle, LeaveStart, Reconnect, Part, Retain, WriterEnds, roomVars
<1>2. ASSUME NEW s \in Sockets, Timer(s) \/ Around(s) PROVE FALSE
  <2>1. CASE seat' = Vacated(s, here[s], pid[s])
    <3>1. x = s
      BY <1>0, <2>1, VacatedOwner
    <3> QED BY <1>0, <1>a, <1>2, <3>1, BackgroundSteps
  <2> QED BY <1>0, <1>a, <1>2, <2>1, BackgroundSteps
<1>3. CASE World
  <2>1. ASSUME NEW q \in Rooms, NEW u \in People, Admit(q, u) PROVE FALSE
    <3> DEFINE y == [seat[q][u] EXCEPT !.lobby = FALSE]
    <3>1. seat[q][u] \in Seats
      BY <1>0, <2>1 DEF Admit, TypeOK
    <3>2. y # None
      BY <3>1, SeatTypes, SeatAssumption
    <3>3. seat' = [seat EXCEPT ![q][u] = y]
      BY <2>1 DEF Admit
    <3> HIDE DEF y
    <3> QED BY <1>0, <1>a, <3>2, <3>3 DEF TypeOK
  <2>2. ASSUME NEW q \in Rooms, NEW u \in People, Eject(q, u) PROVE Eject(r, p)
    <3>1. q = r /\ p = u
      BY <1>0, <1>a, <2>2 DEF Eject, TypeOK
    <3> QED BY <2>2, <3>1
  <2> QED BY <1>0, <1>a, <1>3, <2>1, <2>2 DEF World, Revoke, ChangeCredentials, Notify,
             TakeRevoked, DrainBegin, DrainClose, DrainRoom, vars, roomVars
<1> QED BY <1>1, <1>2, <1>3, NextCases

(* A connected member that rests loses its seat only to a moderator or to  *)
(* the end of its room, with any number of sessions of the same person     *)
(* (remove_participant_for_sender compares the channel).                   *)
THEOREM OnlyModeratorsDoEvict == Spec => OnlyModeratorsEvict
<1> DEFINE Evicted ==
        \A s \in Sockets, r \in Rooms :
            /\ pc[s] = "open" /\ pc'[s] = "open" /\ ~down[s] /\ ~draining
            /\ Owns(s, r, pid[s]) /\ seat'[r][pid[s]] = None
            => Eject(r, pid[s])
<1>1. Custodial /\ [Next]_vars => [Evicted]_vars
  <2> SUFFICES ASSUME Custodial, Next PROVE Evicted
    OBVIOUS
  <2>1. pid \in [Sockets -> People]
    BY DEF Custodial, TypeOK
  <2> QED BY <2>1, RestingIsKept
<1> QED BY <1>1, CustodialHolds, PTL DEF Spec, OnlyModeratorsEvict

=============================================================================
