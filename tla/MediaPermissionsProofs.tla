------------------------ MODULE MediaPermissionsProofs ------------------------
(* Theorems about MediaPermissions, for any sets of members, sessions,      *)
(* sources, policies and administrative requests.                           *)
EXTENDS MediaPermissions, FiniteSetTheorems, TLAPS

PolicyStates ==
    [settings : Settings, role : [Members -> Guest..Owner], banned : SUBSET Members]

(* Each variable has its type. *)
RoomTypes ==
    /\ policy \in PolicyStates
    /\ present \subseteq Sessions /\ past \subseteq Sessions /\ live \in BOOLEAN
NativeTypes == media \subseteq Sessions /\ doomed \subseteq Sessions
MadeTypes ==
    /\ made \subseteq Producers /\ records \subseteq made /\ streams \subseteq made
    /\ \A o \in Ops : todo[o] \subseteq made
Labels ==
    {"idle", "opening", "opened", "producing", "created", "undo", "closing", "closed"}
CommandTypes == cmd \in [Sessions -> [pc : Labels, producer : Producers \cup {None}]]
Aims == Requests \cup [kind : {"closecam"}, whom : Members] \cup {None}
OpTypes ==
    /\ control \in Ops \cup {None}
    /\ op \in [Ops -> {"new", "saving", "closing", "dimming", "done"}]
    /\ aim \in [Ops -> Aims]
    /\ todo \in [Ops -> SUBSET Producers] /\ failed \in [Ops -> SUBSET Sessions]
Types == RoomTypes /\ NativeTypes /\ MadeTypes /\ CommandTypes /\ OpTypes

(* A command that has a producer in hand has one of its own session.       *)
OwnProducer ==
    \A s \in Sessions :
        cmd[s].pc \in {"producing", "created", "undo", "closing", "closed"}
            => cmd[s].producer \in made /\ cmd[s].producer.session = s

(* What is still to be created is known to nobody else. *)
Fresh ==
    \A s \in Sessions : cmd[s].pc = "producing"
        => /\ cmd[s].producer \notin records /\ cmd[s].producer \notin streams
           /\ \A o \in Ops : cmd[s].producer \notin todo[o]

(* Its owner forgets a producer only when it is closed. *)
ClosedIsClosed ==
    \A s \in Sessions : cmd[s].pc = "closed" => cmd[s].producer \notin streams

(* After a close has failed, what is left of that session is doomed. *)
FailedIsDoomed ==
    \A o \in Ops :
        /\ op[o] # "closing" => failed[o] = {}
        /\ \A r \in todo[o] : r.session \in failed[o] /\ r \in streams => r.session \in doomed

(* An administrator who is writing knows what was asked. *)
Asked == \A o \in Ops : op[o] = "saving" => aim[o] \in Requests

(* The two promises about records. *)
Lawful == RecordsArePermitted /\ WithinLimit

(* What every step may rely on. *)
Sound == Types /\ OwnProducer /\ Fresh /\ ClosedIsClosed /\ FailedIsDoomed /\ Asked

----------------------------------------------------------------------------
(* Policies. *)

(* A session is of a member. *)
LEMMA OfType == \A s \in Sessions : Of(s) \in Members
BY MediaAssumption DEF Of

(* A producer is of a session, and so of a member. *)
LEMMA ProducerSession ==
    \A r \in Producers : r.session \in Sessions /\ Of(r.session) \in Members
BY OfType DEF Producers

(* A limit is a number. *)
LEMMA LimitType == \A p \in PolicyStates : Limit(p) \in Nat
BY MediaAssumption DEF PolicyStates, Settings, Limit

(* The broadcasters are finitely many, and fewer with fewer records. *)
LEMMA FewBroadcasters ==
    /\ IsFiniteSet(Broadcasters) /\ Cardinality(Broadcasters) \in Nat
    /\ \A S \in SUBSET Broadcasters :
         IsFiniteSet(S) /\ Cardinality(S) \in Nat /\ Cardinality(S) <= Cardinality(Broadcasters)
<1>1. Broadcasters \in SUBSET Members
  BY DEF Broadcasters
<1>2. IsFiniteSet(Broadcasters)
  BY <1>1, FS_Subset, MediaAssumption
<1>. QED
  BY <1>2, FS_Subset, FS_CardinalityType

(* Seats are given in a strict total order. *)
LEMMA SeatOrder ==
    ASSUME NEW p \in PolicyStates, NEW m \in Members, NEW n \in Members
    PROVE  /\ ~Before(p, m, m)
           /\ m # n => Before(p, m, n) \/ Before(p, n, m)
           /\ \A k \in Members : Before(p, m, n) /\ Before(p, n, k) => Before(p, m, k)
<1>1. Members \subseteq Nat
  BY MediaAssumption
<1>2. p.role \in [Members -> 0..5]
  BY DEF PolicyStates, Guest, Owner
<1>3. \A k \in Members : p.role[k] \in Nat
  BY <1>2
<1>. QED
  BY <1>1, <1>3 DEF Before

(* Of any members, at most Limit have fewer than Limit others before them.  *)
LEMMA SeatsAreFew ==
    ASSUME NEW p \in PolicyStates, NEW C \in SUBSET Members
    PROVE  LET S == {m \in C : Cardinality({n \in C : Before(p, n, m)}) < Limit(p)}
           IN  IsFiniteSet(S) /\ Cardinality(S) <= Limit(p)
<1>. DEFINE Ahead(m) == {n \in C : Before(p, n, m)}
            S == {m \in C : Cardinality(Ahead(m)) < Limit(p)}
            L == Limit(p)
            f == [m \in S |-> Cardinality(Ahead(m))]
<1>1. IsFiniteSet(C)
  BY FS_Subset, MediaAssumption
<1>2. \A m : IsFiniteSet(Ahead(m)) /\ Cardinality(Ahead(m)) \in Nat
  <2>1. TAKE m
  <2>2. Ahead(m) \in SUBSET C
    OBVIOUS
  <2>. QED
    BY <1>1, <2>2, FS_Subset, FS_CardinalityType
<1>3. ASSUME NEW m \in S, NEW n \in S, Before(p, m, n)
      PROVE  Cardinality(Ahead(m)) < Cardinality(Ahead(n))
  <2>1. Ahead(m) \in SUBSET Ahead(n)
    BY <1>3, SeatOrder
  <2>2. m \in Ahead(n) /\ m \notin Ahead(m)
    BY <1>3, SeatOrder
  <2>3. Ahead(m) # Ahead(n)
    BY <2>2
  <2>. QED
    BY <1>2, <2>1, <2>3, FS_Subset
<1>4. L \in Nat
  BY LimitType
<1>5. f \in [S -> 0..(L - 1)]
  BY <1>2, <1>4
<1>6. \A m, n \in S : f[m] = f[n] => m = n
  <2>1. SUFFICES ASSUME NEW m \in S, NEW n \in S, m # n PROVE f[m] # f[n]
    OBVIOUS
  <2>2. Before(p, m, n) \/ Before(p, n, m)
    BY <2>1, SeatOrder
  <2>3. \/ Cardinality(Ahead(m)) < Cardinality(Ahead(n))
        \/ Cardinality(Ahead(n)) < Cardinality(Ahead(m))
    BY <1>3, <2>2
  <2>4. Cardinality(Ahead(m)) # Cardinality(Ahead(n))
    <3>. HIDE DEF Ahead
    <3>. QED
      BY <1>2, <2>3
  <2>. QED
    BY <2>4
<1>7. f \in Injection(S, 0..(L - 1))
  BY <1>5, <1>6 DEF Injection, IsInjective
<1>8. IsFiniteSet(0..(L - 1)) /\ Cardinality(0..(L - 1)) = L
  BY <1>4, FS_Interval
<1>9. IsFiniteSet(S) /\ Cardinality(S) <= L
  BY <1>7, <1>8, FS_Injection
<1>. QED
  BY <1>9

----------------------------------------------------------------------------
(* Initially. *)

(* The initial state is sound. *)
LEMMA InitSound == Init => Sound
<1>. SUFFICES ASSUME Init PROVE Sound
  OBVIOUS
<1>. USE DEF Init
<1>1. policy \in PolicyStates
  BY MediaAssumption DEF PolicyStates, Guest, Owner
<1>2. RoomTypes /\ NativeTypes /\ MadeTypes
  BY <1>1 DEF RoomTypes, NativeTypes, MadeTypes
<1>3. CommandTypes
  BY DEF CommandTypes, Idle, Labels
<1>4. OpTypes
  BY DEF OpTypes, Aims
<1>5. OwnProducer /\ Fresh /\ ClosedIsClosed
  BY DEF OwnProducer, Fresh, ClosedIsClosed, Idle
<1>6. FailedIsDoomed /\ Asked
  BY DEF FailedIsDoomed, Asked
<1>. QED
  BY <1>2, <1>3, <1>4, <1>5, <1>6 DEF Sound, Types

(* OpenBegin keeps soundness. *)
LEMMA OpenBeginSound == ASSUME Sound, NEW s \in Sessions, OpenBegin(s) PROVE Sound'
<1>. USE DEF Sound, Types, OpenBegin, Goto, At, room, native, admin, MadeTypes, CommandTypes,
             OwnProducer
<1>1. (RoomTypes /\ NativeTypes /\ MadeTypes /\ CommandTypes /\ OpTypes /\ Asked)'
  BY DEF RoomTypes, NativeTypes, OpTypes, Asked, Labels
<1>2. (OwnProducer /\ Fresh)'
  BY DEF Fresh
<1>3. (ClosedIsClosed /\ FailedIsDoomed)'
  BY DEF ClosedIsClosed, FailedIsDoomed, Fresh
<1>. QED
  BY <1>1, <1>2, <1>3

(* OpenNative keeps soundness. *)
LEMMA OpenNativeSound == ASSUME Sound, NEW s \in Sessions, OpenNative(s) PROVE Sound'
<1>. USE DEF Sound, Types, OpenNative, Goto, At, room, native, admin, MadeTypes, CommandTypes,
             OwnProducer
<1>1. (RoomTypes /\ NativeTypes /\ MadeTypes /\ CommandTypes /\ OpTypes /\ Asked)'
  BY DEF RoomTypes, NativeTypes, OpTypes, Asked, Labels
<1>2. (OwnProducer /\ Fresh)'
  BY DEF Fresh
<1>3. (ClosedIsClosed /\ FailedIsDoomed)'
  BY DEF ClosedIsClosed, FailedIsDoomed, Fresh
<1>. QED
  BY <1>1, <1>2, <1>3

(* OpenSettle keeps soundness. *)
LEMMA OpenSettleSound == ASSUME Sound, NEW s \in Sessions, OpenSettle(s) PROVE Sound'
<1>. USE DEF Sound, Types, OpenSettle, Goto, At, room, native, admin, MadeTypes, CommandTypes,
             OwnProducer
<1>1. (RoomTypes /\ NativeTypes /\ MadeTypes /\ CommandTypes /\ OpTypes /\ Asked)'
  BY DEF RoomTypes, NativeTypes, OpTypes, Asked, Labels
<1>2. (OwnProducer /\ Fresh)'
  BY DEF Fresh
<1>3. (ClosedIsClosed /\ FailedIsDoomed)'
  BY DEF ClosedIsClosed, FailedIsDoomed, Fresh
<1>. QED
  BY <1>1, <1>2, <1>3

(* ProduceNative keeps soundness. *)
LEMMA ProduceNativeSound == ASSUME Sound, NEW s \in Sessions, ProduceNative(s) PROVE Sound'
<1>. USE DEF Sound, Types, ProduceNative, Goto, At, room, native, admin, MadeTypes,
             CommandTypes,
             OwnProducer
<1>1. (RoomTypes /\ NativeTypes /\ MadeTypes /\ CommandTypes /\ OpTypes /\ Asked)'
  BY DEF RoomTypes, NativeTypes, OpTypes, Asked, Labels
<1>2. (OwnProducer /\ Fresh)'
  BY DEF Fresh
<1>3. (ClosedIsClosed /\ FailedIsDoomed)'
  BY DEF ClosedIsClosed, FailedIsDoomed, Fresh
<1>. QED
  BY <1>1, <1>2, <1>3

(* ProduceRecord keeps soundness. *)
LEMMA ProduceRecordSound == ASSUME Sound, NEW s \in Sessions, ProduceRecord(s) PROVE Sound'
<1>. USE DEF Sound, Types, ProduceRecord, Goto, At, room, native, admin, MadeTypes,
             CommandTypes,
             OwnProducer
<1>1. (RoomTypes /\ NativeTypes /\ MadeTypes /\ CommandTypes /\ OpTypes /\ Asked)'
  BY DEF RoomTypes, NativeTypes, OpTypes, Asked, Labels
<1>2. (OwnProducer /\ Fresh)'
  BY DEF Fresh
<1>3. (ClosedIsClosed /\ FailedIsDoomed)'
  BY DEF ClosedIsClosed, FailedIsDoomed, Fresh
<1>. QED
  BY <1>1, <1>2, <1>3

(* ProduceRefused keeps soundness. *)
LEMMA ProduceRefusedSound == ASSUME Sound, NEW s \in Sessions, ProduceRefused(s) PROVE Sound'
<1>. USE DEF Sound, Types, ProduceRefused, Goto, At, room, native, admin, MadeTypes,
             CommandTypes,
             OwnProducer
<1>1. (RoomTypes /\ NativeTypes /\ MadeTypes /\ CommandTypes /\ OpTypes /\ Asked)'
  BY DEF RoomTypes, NativeTypes, OpTypes, Asked, Labels
<1>2. (OwnProducer /\ Fresh)'
  BY DEF Fresh
<1>3. (ClosedIsClosed /\ FailedIsDoomed)'
  BY DEF ClosedIsClosed, FailedIsDoomed, Fresh
<1>. QED
  BY <1>1, <1>2, <1>3

(* ProduceUndo keeps soundness. *)
LEMMA ProduceUndoSound == ASSUME Sound, NEW s \in Sessions, ProduceUndo(s) PROVE Sound'
<1>. USE DEF Sound, Types, ProduceUndo, Goto, At, room, native, admin, MadeTypes, CommandTypes,
             OwnProducer
<1>1. (RoomTypes /\ NativeTypes /\ MadeTypes /\ CommandTypes /\ OpTypes /\ Asked)'
  BY DEF RoomTypes, NativeTypes, OpTypes, Asked, Labels
<1>2. (OwnProducer /\ Fresh)'
  BY DEF Fresh
<1>3. (ClosedIsClosed /\ FailedIsDoomed)'
  BY DEF ClosedIsClosed, FailedIsDoomed, Fresh
<1>. QED
  BY <1>1, <1>2, <1>3

(* CloseBegin keeps soundness. *)
LEMMA CloseBeginSound == ASSUME Sound, NEW s \in Sessions, CloseBegin(s) PROVE Sound'
<1>. USE DEF Sound, Types, CloseBegin, Goto, At, room, native, admin, MadeTypes, CommandTypes,
             OwnProducer
<1>1. (RoomTypes /\ NativeTypes /\ MadeTypes /\ CommandTypes /\ OpTypes /\ Asked)'
  BY DEF RoomTypes, NativeTypes, OpTypes, Asked, Labels
<1>2. (OwnProducer /\ Fresh)'
  BY DEF Fresh
<1>3. (ClosedIsClosed /\ FailedIsDoomed)'
  BY DEF ClosedIsClosed, FailedIsDoomed, Fresh
<1>. QED
  BY <1>1, <1>2, <1>3

(* CloseNative keeps soundness. *)
LEMMA CloseNativeSound == ASSUME Sound, NEW s \in Sessions, CloseNative(s) PROVE Sound'
<1>. USE DEF Sound, Types, CloseNative, Goto, At, room, native, admin, MadeTypes, CommandTypes,
             OwnProducer
<1>1. (RoomTypes /\ NativeTypes /\ MadeTypes /\ CommandTypes /\ OpTypes /\ Asked)'
  BY DEF RoomTypes, NativeTypes, OpTypes, Asked, Labels
<1>2. (OwnProducer /\ Fresh)'
  BY DEF Fresh
<1>3. (ClosedIsClosed /\ FailedIsDoomed)'
  BY DEF ClosedIsClosed, FailedIsDoomed, Fresh
<1>. QED
  BY <1>1, <1>2, <1>3

(* CloseRecord keeps soundness. *)
LEMMA CloseRecordSound == ASSUME Sound, NEW s \in Sessions, CloseRecord(s) PROVE Sound'
<1>. USE DEF Sound, Types, CloseRecord, Goto, At, room, native, admin, MadeTypes, CommandTypes,
             OwnProducer
<1>1. (RoomTypes /\ NativeTypes /\ MadeTypes /\ CommandTypes /\ OpTypes /\ Asked)'
  BY DEF RoomTypes, NativeTypes, OpTypes, Asked, Labels
<1>2. (OwnProducer /\ Fresh)'
  BY DEF Fresh
<1>3. (ClosedIsClosed /\ FailedIsDoomed)'
  BY DEF ClosedIsClosed, FailedIsDoomed, Fresh
<1>. QED
  BY <1>1, <1>2, <1>3

(* CommandFails keeps soundness. *)
LEMMA CommandFailsSound == ASSUME Sound, NEW s \in Sessions, CommandFails(s) PROVE Sound'
<1>. USE DEF Sound, Types, CommandFails, Goto, At, room, native, admin, MadeTypes, CommandTypes,
             OwnProducer
<1>1. (RoomTypes /\ NativeTypes /\ MadeTypes /\ CommandTypes /\ OpTypes /\ Asked)'
  BY DEF RoomTypes, NativeTypes, OpTypes, Asked, Labels
<1>2. (OwnProducer /\ Fresh)'
  BY DEF Fresh
<1>3. (ClosedIsClosed /\ FailedIsDoomed)'
  BY DEF ClosedIsClosed, FailedIsDoomed, Fresh
<1>. QED
  BY <1>1, <1>2, <1>3

(* ProduceBegin keeps soundness. *)
LEMMA ProduceBeginSound ==
    ASSUME Sound, NEW s \in Sessions, NEW source \in Offers[Of(s)], ProduceBegin(s, source)
    PROVE  Sound'
<1>. DEFINE r == [session |-> s, source |-> source]
<1>. USE DEF Sound, Types, ProduceBegin, Goto, At, room, native, admin, MadeTypes, CommandTypes,
             OwnProducer
<1>0. r \in Producers
  BY DEF Producers
<1>1. (RoomTypes /\ NativeTypes /\ MadeTypes /\ CommandTypes /\ OpTypes /\ Asked)'
  BY <1>0 DEF RoomTypes, NativeTypes, OpTypes, Asked, Labels
<1>2. (OwnProducer /\ Fresh)'
  BY DEF Fresh
<1>3. (ClosedIsClosed /\ FailedIsDoomed)'
  BY DEF ClosedIsClosed, FailedIsDoomed
<1>. QED
  BY <1>1, <1>2, <1>3

(* Join keeps soundness. *)
LEMMA JoinSound == ASSUME Sound, NEW s \in Sessions, Join(s) PROVE Sound'
<1>. USE DEF Sound, Types, Join, room, native, admin, MadeTypes, CommandTypes, OwnProducer
<1>1. (RoomTypes /\ NativeTypes /\ MadeTypes /\ CommandTypes /\ OpTypes /\ Asked)'
  BY DEF RoomTypes, NativeTypes, OpTypes, Asked, Labels
<1>2. (OwnProducer /\ Fresh)'
  BY DEF Fresh
<1>3. (ClosedIsClosed /\ FailedIsDoomed)'
  BY DEF ClosedIsClosed, FailedIsDoomed
<1>. QED
  BY <1>1, <1>2, <1>3

(* Leave keeps soundness. *)
LEMMA LeaveSound == ASSUME Sound, NEW s \in Sessions, Leave(s) PROVE Sound'
<1>. USE DEF Sound, Types, Leave, Depart, room, native, admin, MadeTypes, CommandTypes,
             OwnProducer
<1>1. (RoomTypes /\ NativeTypes /\ MadeTypes /\ CommandTypes /\ OpTypes /\ Asked)'
  BY DEF RoomTypes, NativeTypes, OpTypes, Asked, Labels
<1>2. (OwnProducer /\ Fresh)'
  BY DEF Fresh
<1>3. (ClosedIsClosed /\ FailedIsDoomed)'
  BY DEF ClosedIsClosed, FailedIsDoomed
<1>. QED
  BY <1>1, <1>2, <1>3

(* RemoveMedia keeps soundness. *)
LEMMA RemoveMediaSound == ASSUME Sound, NEW s \in Sessions, RemoveMedia(s) PROVE Sound'
<1>. USE DEF Sound, Types, RemoveMedia, room, native, admin, MadeTypes, CommandTypes,
             OwnProducer
<1>1. (RoomTypes /\ NativeTypes /\ MadeTypes /\ CommandTypes /\ OpTypes /\ Asked)'
  BY DEF RoomTypes, NativeTypes, OpTypes, Asked, Labels
<1>2. (OwnProducer /\ Fresh)'
  BY DEF Fresh
<1>3. (ClosedIsClosed /\ FailedIsDoomed)'
  BY DEF ClosedIsClosed, FailedIsDoomed
<1>. QED
  BY <1>1, <1>2, <1>3

(* OpBegin keeps soundness. *)
LEMMA OpBeginSound == ASSUME Sound, NEW o \in Ops, OpBegin(o) PROVE Sound'
<1>. USE DEF Sound, Types, OpBegin, Advance, room, native, admin, MadeTypes, CommandTypes,
             OwnProducer, OpTypes
<1>1. (RoomTypes /\ NativeTypes /\ CommandTypes /\ OwnProducer)'
  BY DEF RoomTypes, NativeTypes
<1>2. (MadeTypes /\ OpTypes /\ Asked)'
  BY DEF Asked, Aims, RoomTypes
<1>3. (Fresh /\ ClosedIsClosed)'
  BY DEF Fresh, ClosedIsClosed
<1>4. FailedIsDoomed'
  BY DEF FailedIsDoomed
<1>. QED
  BY <1>1, <1>2, <1>3, <1>4

(* OpFails keeps soundness. *)
LEMMA OpFailsSound == ASSUME Sound, NEW o \in Ops, OpFails(o) PROVE Sound'
<1>. USE DEF Sound, Types, OpFails, Advance, Finish, room, native, admin, MadeTypes,
             CommandTypes,
             OwnProducer, OpTypes
<1>1. (RoomTypes /\ NativeTypes /\ CommandTypes /\ OwnProducer)'
  BY DEF RoomTypes, NativeTypes
<1>2. (MadeTypes /\ OpTypes /\ Asked)'
  BY DEF Asked, Aims, RoomTypes
<1>3. (Fresh /\ ClosedIsClosed)'
  BY DEF Fresh, ClosedIsClosed
<1>4. FailedIsDoomed'
  BY DEF FailedIsDoomed
<1>. QED
  BY <1>1, <1>2, <1>3, <1>4

(* OpRemove keeps soundness. *)
LEMMA OpRemoveSound == ASSUME Sound, NEW o \in Ops, OpRemove(o) PROVE Sound'
<1>. USE DEF Sound, Types, OpRemove, Advance, Finish, Depart, SessionsOf, room, native, admin,
             MadeTypes, CommandTypes,
             OwnProducer, OpTypes
<1>1. (RoomTypes /\ NativeTypes /\ CommandTypes /\ OwnProducer)'
  <2>1. Removed(aim[o]) \subseteq Sessions
    BY DEF Removed, RoomTypes
  <2>. QED
    BY <2>1 DEF RoomTypes, NativeTypes
<1>2. (MadeTypes /\ OpTypes /\ Asked)'
  BY DEF Asked, Aims, RoomTypes
<1>3. (Fresh /\ ClosedIsClosed)'
  BY DEF Fresh, ClosedIsClosed
<1>4. FailedIsDoomed'
  BY DEF FailedIsDoomed
<1>. QED
  BY <1>1, <1>2, <1>3, <1>4

(* OpClose keeps soundness. *)
LEMMA OpCloseSound == ASSUME Sound, NEW o \in Ops, OpClose(o) PROVE Sound'
<1>. USE DEF Sound, Types, OpClose, Fallback, room, MadeTypes, CommandTypes, OwnProducer,
             OpTypes
<1>1. \A r \in todo[o] : r.session \in Sessions
  BY ProducerSession
<1>2. (RoomTypes /\ NativeTypes /\ CommandTypes /\ OwnProducer)'
  BY <1>1 DEF RoomTypes, NativeTypes
<1>3. (MadeTypes /\ OpTypes /\ Asked)'
  BY <1>1 DEF Asked
<1>4. (Fresh /\ ClosedIsClosed)'
  BY DEF Fresh, ClosedIsClosed
<1>5. FailedIsDoomed'
  BY DEF FailedIsDoomed
<1>. QED
  BY <1>2, <1>3, <1>4, <1>5

(* OpEnd keeps soundness. *)
LEMMA OpEndSound == ASSUME Sound, NEW o \in Ops, OpEnd(o) PROVE Sound'
<1>. USE DEF Sound, Types, OpEnd, Advance, Finish, room, native, admin, MadeTypes, CommandTypes,
             OwnProducer, OpTypes
<1>1. (RoomTypes /\ NativeTypes /\ CommandTypes /\ OwnProducer)'
  BY DEF RoomTypes, NativeTypes
<1>2. (MadeTypes /\ OpTypes /\ Asked)'
  BY DEF Asked, Aims, RoomTypes
<1>3. (Fresh /\ ClosedIsClosed)'
  BY DEF Fresh, ClosedIsClosed
<1>4. FailedIsDoomed'
  BY DEF FailedIsDoomed
<1>. QED
  BY <1>1, <1>2, <1>3, <1>4

(* CamBegin keeps soundness. *)
LEMMA CamBeginSound == ASSUME Sound, NEW o \in Ops, CamBegin(o) PROVE Sound'
<1>. USE DEF Sound, Types, CamBegin, Advance, RecordsOf, room, native, admin, MadeTypes,
             CommandTypes,
             OwnProducer, OpTypes
<1>1. (RoomTypes /\ NativeTypes /\ CommandTypes /\ OwnProducer)'
  BY DEF RoomTypes, NativeTypes
<1>2. (MadeTypes /\ OpTypes /\ Asked)'
  BY DEF Asked, Aims, RoomTypes
<1>3. (Fresh /\ ClosedIsClosed)'
  BY DEF Fresh, ClosedIsClosed
<1>4. FailedIsDoomed'
  BY DEF FailedIsDoomed
<1>. QED
  BY <1>1, <1>2, <1>3, <1>4

(* CamClose keeps soundness. *)
LEMMA CamCloseSound == ASSUME Sound, NEW o \in Ops, CamClose(o) PROVE Sound'
<1>. USE DEF Sound, Types, CamClose, Advance, room, native, admin, MadeTypes, CommandTypes,
             OwnProducer, OpTypes
<1>1. (RoomTypes /\ NativeTypes /\ CommandTypes /\ OwnProducer)'
  BY DEF RoomTypes, NativeTypes
<1>2. (MadeTypes /\ OpTypes /\ Asked)'
  BY DEF Asked, Aims, RoomTypes
<1>3. (Fresh /\ ClosedIsClosed)'
  BY DEF Fresh, ClosedIsClosed
<1>4. FailedIsDoomed'
  BY DEF FailedIsDoomed
<1>. QED
  BY <1>1, <1>2, <1>3, <1>4

(* CamRecord keeps soundness. *)
LEMMA CamRecordSound == ASSUME Sound, NEW o \in Ops, CamRecord(o) PROVE Sound'
<1>. USE DEF Sound, Types, CamRecord, Advance, Finish, room, native, admin, MadeTypes,
             CommandTypes,
             OwnProducer, OpTypes
<1>1. (RoomTypes /\ NativeTypes /\ CommandTypes /\ OwnProducer)'
  BY DEF RoomTypes, NativeTypes
<1>2. (MadeTypes /\ OpTypes /\ Asked)'
  BY DEF Asked, Aims, RoomTypes
<1>3. (Fresh /\ ClosedIsClosed)'
  BY DEF Fresh, ClosedIsClosed
<1>4. FailedIsDoomed'
  BY DEF FailedIsDoomed
<1>. QED
  BY <1>1, <1>2, <1>3, <1>4

(* The policy a request asks for has the type of a policy. *)
LEMMA AmendedType ==
    ASSUME RoomTypes, NEW q \in Requests, q.kind \in {"settings", "role", "ban", "lift"}
    PROVE  Amended(q) \in PolicyStates
<1>. USE DEF RoomTypes, PolicyStates
<1>1. CASE q.kind = "settings"
  <2>1. q.to \in Settings
    BY <1>1, MediaAssumption DEF Requests
  <2>. QED
    BY <1>1, <2>1 DEF Amended
<1>2. CASE q.kind = "role"
  <2>1. q.to \in Roles
    BY <1>2 DEF Requests
  <2>2. Roles \subseteq Guest..Owner
    BY MediaAssumption DEF Guest, Owner
  <2>. QED
    BY <1>2, <2>1, <2>2 DEF Amended
<1>3. CASE q.kind \in {"ban", "lift"}
  <2>1. q.whom \in Members /\ Cohort[q.whom] \subseteq Members
    BY <1>3, MediaAssumption DEF Requests
  <2>2. CASE q.kind = "ban"
    BY <2>1, <2>2 DEF Amended
  <2>3. CASE q.kind = "lift"
    <3>1. Amended(q) = [policy EXCEPT !.banned = @ \ Cohort[q.whom]]
      BY <2>3 DEF Amended
    <3>. QED
      BY <3>1
  <2>. QED
    BY <1>3, <2>2, <2>3
<1>. QED
  BY <1>1, <1>2, <1>3

(* A change of policy keeps soundness; what it revokes is in its hands. *)
LEMMA OpAmendSound == ASSUME Sound, NEW o \in Ops, OpAmend(o) PROVE Sound'
<1>. USE DEF Sound, Types, OpAmend, Advance, native, MadeTypes, CommandTypes, OwnProducer,
             OpTypes
<1>1. policy' \in PolicyStates
  BY AmendedType DEF Asked
<1>2. (RoomTypes /\ NativeTypes /\ CommandTypes /\ OwnProducer)'
  BY <1>1 DEF RoomTypes, NativeTypes
<1>3. Revoked(policy', Examined(aim[o])) \subseteq records
  BY DEF Revoked
<1>4. (MadeTypes /\ OpTypes /\ Asked)'
  BY <1>3 DEF Asked, Aims
<1>5. (Fresh /\ ClosedIsClosed)'
  BY <1>3 DEF Fresh, ClosedIsClosed
<1>6. FailedIsDoomed'
  BY DEF FailedIsDoomed
<1>. QED
  BY <1>2, <1>4, <1>5, <1>6

(* Every step, and none. *)
LEMMA NextSound == Sound /\ [Next]_vars => Sound'
<1>. SUFFICES ASSUME Sound, [Next]_vars PROVE Sound'
  OBVIOUS
<1>1. ASSUME NEW s \in Sessions, Join(s) \/ Leave(s) \/ RemoveMedia(s) PROVE Sound'
  BY <1>1, JoinSound, LeaveSound, RemoveMediaSound
<1>2. ASSUME NEW s \in Sessions, OpenBegin(s) \/ CloseBegin(s) \/ Command(s) PROVE Sound'
  BY <1>2, OpenBeginSound, OpenNativeSound, OpenSettleSound, ProduceNativeSound,
     ProduceRecordSound, ProduceRefusedSound, ProduceUndoSound, CloseBeginSound,
     CloseNativeSound, CloseRecordSound, CommandFailsSound DEF Command
<1>3. ASSUME NEW s \in Sessions, NEW source \in Offers[Of(s)], ProduceBegin(s, source)
      PROVE  Sound'
  BY <1>3, ProduceBeginSound
<1>4. ASSUME NEW o \in Ops, OpBegin(o) \/ CamBegin(o) \/ Operation(o) PROVE Sound'
  BY <1>4, OpBeginSound, CamBeginSound, OpFailsSound, OpAmendSound, OpRemoveSound, OpCloseSound,
     OpEndSound, CamCloseSound, CamRecordSound DEF Operation
<1>5. CASE UNCHANGED vars
  BY <1>5 DEF vars, Sound, Types, RoomTypes, NativeTypes, MadeTypes, CommandTypes, OpTypes,
     OwnProducer, Fresh, ClosedIsClosed, FailedIsDoomed, Asked
<1>. QED
  BY <1>1, <1>2, <1>3, <1>4, <1>5 DEF Next

----------------------------------------------------------------------------
(* Permission and the limit. *)

(* While the policy stands, forgetting records is lawful. *)
Forgets ==
    /\ policy' = policy /\ records' \subseteq records
    /\ \A r \in records' : r.session \in present => r.session \in present'

(* Fewer records make no more broadcasters. *)
LEMMA FewerRecords ==
    ASSUME Types, Lawful, records' \subseteq records
    PROVE  /\ IsFiniteSet(Broadcasters') /\ Cardinality(Broadcasters') \in Nat
           /\ Cardinality(Broadcasters') <= Limit(policy)
<1>1. Broadcasters' \in SUBSET Broadcasters
  BY DEF Broadcasters, RecordsOf
<1>2. Limit(policy) \in Nat
  BY LimitType DEF Types, RoomTypes
<1>. QED
  BY <1>1, <1>2, FewBroadcasters DEF Lawful, WithinLimit

(* Forgetting records keeps both promises. *)
LEMMA ForgettingIsLawful == ASSUME Types, Lawful, Forgets PROVE Lawful'
<1>1. RecordsArePermitted'
  BY DEF Lawful, RecordsArePermitted, Forgets, Permitted
<1>2. WithinLimit'
  BY FewerRecords DEF WithinLimit, Forgets
<1>. QED
  BY <1>1, <1>2 DEF Lawful

(* A member who broadcasts already adds to no count, another one is below  *)
(* the limit.                                                              *)
LEMMA ProduceRecordLawful ==
    ASSUME Sound, Lawful, NEW s \in Sessions, ProduceRecord(s)
    PROVE  Lawful'
<1>. DEFINE r == cmd[s].producer
<1>1. r.session = s /\ Of(s) \in Members
  BY OfType DEF Sound, OwnProducer, ProduceRecord, At
<1>2. s \in present /\ CanProduce(Of(s), r.source)
  BY DEF ProduceRecord, StillAllowed, Current
<1>3. records' = records \cup {r} /\ policy' = policy /\ present' = present
  BY DEF ProduceRecord
<1>4. RecordsArePermitted'
  BY <1>1, <1>2, <1>3 DEF Lawful, RecordsArePermitted, Permitted, CanProduce
<1>5. Broadcasters' = Broadcasters \cup {Of(s)}
  BY <1>1, <1>3 DEF Broadcasters, RecordsOf
<1>6. Limit(policy) \in Nat
  BY LimitType DEF Sound, Types, RoomTypes
<1>7. CASE RecordsOf(Of(s)) # {}
  <2>1. Broadcasters' = Broadcasters
    BY <1>1, <1>5, <1>7 DEF Broadcasters
  <2>. QED
    BY <1>3, <1>4, <2>1 DEF Lawful, WithinLimit
<1>8. CASE RecordsOf(Of(s)) = {}
  <2>1. Cardinality(Broadcasters) < Limit(policy)
    BY <1>2, <1>8 DEF CanProduce
  <2>2. IsFiniteSet(Broadcasters) /\ Cardinality(Broadcasters) \in Nat
    BY FewBroadcasters
  <2>3. Of(s) \notin Broadcasters
    BY <1>8 DEF Broadcasters
  <2>4. Cardinality(Broadcasters') = Cardinality(Broadcasters) + 1
    BY <1>5, <2>2, <2>3, FS_AddElement
  <2>5. Cardinality(Broadcasters') <= Limit(policy)
    BY <1>6, <2>1, <2>2, <2>4
  <2>. QED
    BY <1>3, <1>4, <2>5 DEF Lawful, WithinLimit
<1>. QED
  BY <1>7, <1>8

(* Whom a request does not examine, it does not restrict. *)
LEMMA UnexaminedKeep ==
    ASSUME RoomTypes, NEW q \in Requests, q.kind \in {"settings", "role", "ban", "lift"},
           NEW m \in Members, m \notin Examined(q), NEW source, Allowed(policy, m, source)
    PROVE  Allowed(Amended(q), m, source)
<1>. USE DEF RoomTypes, PolicyStates
<1>1. CASE q.kind = "settings"
  BY <1>1 DEF Examined
<1>2. CASE q.kind = "role"
  <2>1. Amended(q) = [policy EXCEPT !.role[q.whom] = q.to] /\ m # q.whom
    BY <1>2 DEF Amended, Examined
  <2>. QED
    BY <2>1 DEF Allowed, MayProduce
<1>3. CASE q.kind = "ban"
  <2>1. Amended(q) = [policy EXCEPT !.banned = @ \cup Cohort[q.whom]] /\ m \notin Cohort[q.whom]
    BY <1>3 DEF Amended, Examined
  <2>. QED
    BY <2>1 DEF Allowed, MayProduce
<1>4. CASE q.kind = "lift"
  <2>1. Amended(q) = [policy EXCEPT !.banned = @ \ Cohort[q.whom]]
    BY <1>4 DEF Amended
  <2>. QED
    BY <2>1 DEF Allowed, MayProduce
<1>. QED
  BY <1>1, <1>2, <1>3, <1>4

(* A change of policy revokes what it forbids and, for settings, all beyond the limit. *)
LEMMA OpAmendLawful ==
    ASSUME Sound, Lawful, NEW o \in Ops, OpAmend(o)
    PROVE  Lawful'
<1>. DEFINE q == aim[o]
            p == policy'
<1>1. /\ q \in Requests /\ q.kind \in {"settings", "role", "ban", "lift"}
      /\ p = Amended(q) /\ records' = records \ Revoked(p, Examined(q)) /\ present' = present
  BY DEF Sound, Asked, OpAmend
<1>2. RoomTypes /\ p \in PolicyStates
  BY <1>1, AmendedType DEF Sound, Types
<1>3. \A r \in records' : r.session \in Sessions /\ Of(r.session) \in Members
  BY <1>1, ProducerSession DEF Sound, Types, MadeTypes
<1>4. RecordsArePermitted'
  <2>1. SUFFICES ASSUME NEW r \in records' PROVE r.session \in present' /\ Permitted(p, r)
    BY DEF RecordsArePermitted
  <2>2. r \in records /\ r \notin Revoked(p, Examined(q))
    BY <1>1
  <2>3. r.session \in present /\ Allowed(policy, Of(r.session), r.source)
    BY <2>2 DEF Lawful, RecordsArePermitted, Permitted
  <2>4. CASE Of(r.session) \in Examined(q)
    BY <1>1, <2>2, <2>3, <2>4 DEF Revoked
  <2>5. CASE Of(r.session) \notin Examined(q)
    <3>1. Allowed(p, Of(r.session), r.source)
      BY <1>1, <1>2, <1>3, <2>3, <2>5, UnexaminedKeep
    <3>. QED
      BY <1>1, <2>3, <3>1 DEF Permitted
  <2>. QED
    BY <2>4, <2>5
<1>5. CASE q.kind = "settings"
  <2>. DEFINE C == {m \in Members : \E r \in RecordsOf(m) : Permitted(p, r)}
              S == {m \in C : Cardinality({n \in C : Before(p, n, m)}) < Limit(p)}
  <2>1. IsFiniteSet(S) /\ Cardinality(S) <= Limit(p)
    BY <1>2, SeatsAreFew
  <2>2. \A m : Cardinality({n \in C : Before(p, n, m)}) \in Nat
    <3>1. TAKE m
    <3>2. {n \in C : Before(p, n, m)} \in SUBSET Members
      OBVIOUS
    <3>. QED
      BY <3>2, FS_Subset, FS_CardinalityType, MediaAssumption
  <2>3. Broadcasters' \in SUBSET S
    <3>1. SUFFICES ASSUME NEW r \in records' PROVE Of(r.session) \in S
      BY DEF Broadcasters, RecordsOf
    <3>2. r \in records /\ Of(r.session) \in Members /\ Permitted(p, r)
      BY <1>1, <1>3, <1>4 DEF RecordsArePermitted
    <3>3. Of(r.session) \in C
      BY <3>2 DEF RecordsOf
    <3>4. Of(r.session) \notin OverCapacity(p)
      BY <1>1, <1>5, <3>2 DEF Revoked, Examined
    <3>5. ~(Cardinality({n \in C : Before(p, n, Of(r.session))}) >= Limit(p))
      BY <3>3, <3>4 DEF OverCapacity
    <3>6. Limit(p) \in Nat
      BY <1>2, LimitType
    <3>7. \A c \in Nat : ~(c >= Limit(p)) => c < Limit(p)
      BY <3>6
    <3>8. Cardinality({n \in C : Before(p, n, Of(r.session))}) < Limit(p)
      BY <2>2, <3>5, <3>7
    <3>. QED
      BY <3>3, <3>8
  <2>4. Cardinality(Broadcasters') <= Cardinality(S)
    BY <2>1, <2>3, FS_Subset
  <2>5. Cardinality(S) \in Nat /\ Cardinality(Broadcasters') \in Nat /\ Limit(p) \in Nat
    BY <1>2, <2>1, <2>3, FS_Subset, FS_CardinalityType, LimitType
  <2>. QED
    BY <1>4, <2>1, <2>4, <2>5 DEF Lawful, WithinLimit
<1>6. CASE q.kind # "settings"
  <2>1. Limit(p) = Limit(policy)
    BY <1>1, <1>2, <1>6 DEF Limit, Amended, RoomTypes, PolicyStates
  <2>2. Cardinality(Broadcasters') <= Limit(policy)
    BY <1>1, FewerRecords DEF Sound
  <2>. QED
    BY <1>4, <2>1, <2>2 DEF Lawful, WithinLimit
<1>. QED
  BY <1>5, <1>6

(* Every step is lawful. *)
LEMMA NextLawful == Sound /\ Lawful /\ [Next]_vars => Lawful'
<1>. SUFFICES ASSUME Sound, Lawful, [Next]_vars PROVE Lawful'
  OBVIOUS
<1>. USE DEF Forgets, room
<1>0. Forgets => Lawful'
  BY ForgettingIsLawful DEF Sound
<1>1. ASSUME NEW s \in Sessions, Join(s) \/ Leave(s) \/ RemoveMedia(s) PROVE Forgets
  BY <1>1 DEF Join, Leave, RemoveMedia, Depart
<1>2. ASSUME NEW s \in Sessions, OpenBegin(s) \/ CloseBegin(s) \/ Command(s), ~ProduceRecord(s)
      PROVE  Forgets
  BY <1>2 DEF Command, OpenBegin, CloseBegin, OpenNative, OpenSettle, ProduceNative,
     ProduceRefused, ProduceUndo, CloseNative, CloseRecord, CommandFails
<1>3. ASSUME NEW s \in Sessions, NEW source \in Offers[Of(s)], ProduceBegin(s, source)
      PROVE  Forgets
  BY <1>3 DEF ProduceBegin
<1>4. ASSUME NEW o \in Ops, OpBegin(o) \/ CamBegin(o) \/ Operation(o), ~OpAmend(o)
      PROVE  Forgets
  BY <1>4 DEF OpBegin, CamBegin, Operation, OpFails, OpRemove, Depart, OpClose, OpEnd, CamClose,
     CamRecord
<1>5. CASE UNCHANGED vars
  BY <1>0, <1>5 DEF vars
<1>. QED
  BY <1>0, <1>1, <1>2, <1>3, <1>4, <1>5, ProduceRecordLawful, OpAmendLawful DEF Next

----------------------------------------------------------------------------
(* Streams nobody knows of. *)

(* What stands for a stream. *)
Known(r) ==
    \/ r \in records \/ r.session \in doomed
    \/ cmd[r.session].pc \in {"created", "undo"} /\ cmd[r.session].producer = r
    \/ \E o \in Ops : op[o] = "closing" /\ r \in todo[o]
StreamsKnown == \A r \in streams : Known(r)
MediaKnown == \A s \in media : s \in present \/ s \in doomed \/ At(s, "opened")

(* After OpenBegin every stream and media session is still known. *)
LEMMA OpenBeginKnown ==
    ASSUME Sound, StreamsKnown, MediaKnown, NEW s \in Sessions, OpenBegin(s)
    PROVE  StreamsKnown' /\ MediaKnown'
<1>. USE DEF Sound, Types, NativeTypes, MadeTypes, CommandTypes, OpTypes, OwnProducer,
             OpenBegin, Goto, At,
             room, native, admin
<1>0. \A r \in made : r.session \in Sessions
  BY ProducerSession
<1>1. StreamsKnown'
  BY <1>0 DEF StreamsKnown, Known
<1>2. MediaKnown'
  BY DEF MediaKnown
<1>. QED
  BY <1>1, <1>2

(* After OpenNative every stream and media session is still known. *)
LEMMA OpenNativeKnown ==
    ASSUME Sound, StreamsKnown, MediaKnown, NEW s \in Sessions, OpenNative(s)
    PROVE  StreamsKnown' /\ MediaKnown'
<1>. USE DEF Sound, Types, NativeTypes, MadeTypes, CommandTypes, OpTypes, OwnProducer,
             OpenNative, Goto, At,
             room, native, admin
<1>0. \A r \in made : r.session \in Sessions
  BY ProducerSession
<1>1. StreamsKnown'
  BY <1>0 DEF StreamsKnown, Known
<1>2. MediaKnown'
  BY DEF MediaKnown
<1>. QED
  BY <1>1, <1>2

(* After OpenSettle every stream and media session is still known. *)
LEMMA OpenSettleKnown ==
    ASSUME Sound, StreamsKnown, MediaKnown, NEW s \in Sessions, OpenSettle(s)
    PROVE  StreamsKnown' /\ MediaKnown'
<1>. USE DEF Sound, Types, NativeTypes, MadeTypes, CommandTypes, OpTypes, OwnProducer,
             OpenSettle, Goto, At, Current,
             room, native, admin
<1>0. \A r \in made : r.session \in Sessions
  BY ProducerSession
<1>1. StreamsKnown'
  BY <1>0 DEF StreamsKnown, Known
<1>2. MediaKnown'
  BY DEF MediaKnown
<1>. QED
  BY <1>1, <1>2

(* After ProduceNative every stream and media session is still known. *)
LEMMA ProduceNativeKnown ==
    ASSUME Sound, StreamsKnown, MediaKnown, NEW s \in Sessions, ProduceNative(s)
    PROVE  StreamsKnown' /\ MediaKnown'
<1>. USE DEF Sound, Types, NativeTypes, MadeTypes, CommandTypes, OpTypes, OwnProducer,
             ProduceNative, Goto, At,
             room, native, admin
<1>0. \A r \in made : r.session \in Sessions
  BY ProducerSession
<1>1. StreamsKnown'
  BY <1>0 DEF StreamsKnown, Known
<1>2. MediaKnown'
  BY DEF MediaKnown
<1>. QED
  BY <1>1, <1>2

(* After ProduceRecord every stream and media session is still known. *)
LEMMA ProduceRecordKnown ==
    ASSUME Sound, StreamsKnown, MediaKnown, NEW s \in Sessions, ProduceRecord(s)
    PROVE  StreamsKnown' /\ MediaKnown'
<1>. USE DEF Sound, Types, NativeTypes, MadeTypes, CommandTypes, OpTypes, OwnProducer,
             ProduceRecord, Goto, At,
             room, native, admin
<1>0. \A r \in made : r.session \in Sessions
  BY ProducerSession
<1>1. StreamsKnown'
  BY <1>0 DEF StreamsKnown, Known
<1>2. MediaKnown'
  BY DEF MediaKnown
<1>. QED
  BY <1>1, <1>2

(* After ProduceRefused every stream and media session is still known. *)
LEMMA ProduceRefusedKnown ==
    ASSUME Sound, StreamsKnown, MediaKnown, NEW s \in Sessions, ProduceRefused(s)
    PROVE  StreamsKnown' /\ MediaKnown'
<1>. USE DEF Sound, Types, NativeTypes, MadeTypes, CommandTypes, OpTypes, OwnProducer,
             ProduceRefused, Goto, At,
             room, native, admin
<1>0. \A r \in made : r.session \in Sessions
  BY ProducerSession
<1>1. StreamsKnown'
  BY <1>0 DEF StreamsKnown, Known
<1>2. MediaKnown'
  BY DEF MediaKnown
<1>. QED
  BY <1>1, <1>2

(* After ProduceUndo every stream and media session is still known. *)
LEMMA ProduceUndoKnown ==
    ASSUME Sound, StreamsKnown, MediaKnown, NEW s \in Sessions, ProduceUndo(s)
    PROVE  StreamsKnown' /\ MediaKnown'
<1>. USE DEF Sound, Types, NativeTypes, MadeTypes, CommandTypes, OpTypes, OwnProducer,
             ProduceUndo, Goto, At,
             room, native, admin
<1>0. \A r \in made : r.session \in Sessions
  BY ProducerSession
<1>1. StreamsKnown'
  BY <1>0 DEF StreamsKnown, Known
<1>2. MediaKnown'
  BY DEF MediaKnown
<1>. QED
  BY <1>1, <1>2

(* After CloseBegin every stream and media session is still known. *)
LEMMA CloseBeginKnown ==
    ASSUME Sound, StreamsKnown, MediaKnown, NEW s \in Sessions, CloseBegin(s)
    PROVE  StreamsKnown' /\ MediaKnown'
<1>. USE DEF Sound, Types, NativeTypes, MadeTypes, CommandTypes, OpTypes, OwnProducer,
             CloseBegin, Goto, At,
             room, native, admin
<1>0. \A r \in made : r.session \in Sessions
  BY ProducerSession
<1>1. StreamsKnown'
  BY <1>0 DEF StreamsKnown, Known
<1>2. MediaKnown'
  BY DEF MediaKnown
<1>. QED
  BY <1>1, <1>2

(* After CloseNative every stream and media session is still known. *)
LEMMA CloseNativeKnown ==
    ASSUME Sound, StreamsKnown, MediaKnown, NEW s \in Sessions, CloseNative(s)
    PROVE  StreamsKnown' /\ MediaKnown'
<1>. USE DEF Sound, Types, NativeTypes, MadeTypes, CommandTypes, OpTypes, OwnProducer,
             CloseNative, Goto, At,
             room, native, admin
<1>0. \A r \in made : r.session \in Sessions
  BY ProducerSession
<1>1. StreamsKnown'
  BY <1>0 DEF StreamsKnown, Known
<1>2. MediaKnown'
  BY DEF MediaKnown
<1>. QED
  BY <1>1, <1>2

(* After CloseRecord every stream and media session is still known. *)
LEMMA CloseRecordKnown ==
    ASSUME Sound, StreamsKnown, MediaKnown, NEW s \in Sessions, CloseRecord(s)
    PROVE  StreamsKnown' /\ MediaKnown'
<1>. USE DEF Sound, Types, NativeTypes, MadeTypes, CommandTypes, OpTypes, OwnProducer,
             CloseRecord, Goto, At, ClosedIsClosed,
             room, native, admin
<1>0. \A r \in made : r.session \in Sessions
  BY ProducerSession
<1>1. StreamsKnown'
  BY <1>0 DEF StreamsKnown, Known
<1>2. MediaKnown'
  BY DEF MediaKnown
<1>. QED
  BY <1>1, <1>2

(* After CommandFails every stream and media session is still known. *)
LEMMA CommandFailsKnown ==
    ASSUME Sound, StreamsKnown, MediaKnown, NEW s \in Sessions, CommandFails(s)
    PROVE  StreamsKnown' /\ MediaKnown'
<1>. USE DEF Sound, Types, NativeTypes, MadeTypes, CommandTypes, OpTypes, OwnProducer,
             CommandFails, Goto, At,
             room, native, admin
<1>0. \A r \in made : r.session \in Sessions
  BY ProducerSession
<1>1. StreamsKnown'
  BY <1>0 DEF StreamsKnown, Known
<1>2. MediaKnown'
  BY DEF MediaKnown
<1>. QED
  BY <1>1, <1>2

(* After Join every stream and media session is still known. *)
LEMMA JoinKnown ==
    ASSUME Sound, StreamsKnown, MediaKnown, NEW s \in Sessions, Join(s)
    PROVE  StreamsKnown' /\ MediaKnown'
<1>. USE DEF Sound, Types, NativeTypes, MadeTypes, CommandTypes, OpTypes, OwnProducer, Join, At,
             room, native, admin
<1>0. \A r \in made : r.session \in Sessions
  BY ProducerSession
<1>1. StreamsKnown'
  BY <1>0 DEF StreamsKnown, Known
<1>2. MediaKnown'
  BY DEF MediaKnown
<1>. QED
  BY <1>1, <1>2

(* After Leave every stream and media session is still known. *)
LEMMA LeaveKnown ==
    ASSUME Sound, StreamsKnown, MediaKnown, NEW s \in Sessions, Leave(s)
    PROVE  StreamsKnown' /\ MediaKnown'
<1>. USE DEF Sound, Types, NativeTypes, MadeTypes, CommandTypes, OpTypes, OwnProducer, Leave,
             Depart, At,
             room, native, admin
<1>0. \A r \in made : r.session \in Sessions
  BY ProducerSession
<1>1. StreamsKnown'
  BY <1>0 DEF StreamsKnown, Known
<1>2. MediaKnown'
  BY DEF MediaKnown
<1>. QED
  BY <1>1, <1>2

(* After RemoveMedia every stream and media session is still known. *)
LEMMA RemoveMediaKnown ==
    ASSUME Sound, StreamsKnown, MediaKnown, NEW s \in Sessions, RemoveMedia(s)
    PROVE  StreamsKnown' /\ MediaKnown'
<1>. USE DEF Sound, Types, NativeTypes, MadeTypes, CommandTypes, OpTypes, OwnProducer,
             RemoveMedia, At,
             room, native, admin
<1>0. \A r \in made : r.session \in Sessions
  BY ProducerSession
<1>1. StreamsKnown'
  BY <1>0 DEF StreamsKnown, Known
<1>2. MediaKnown'
  BY DEF MediaKnown
<1>. QED
  BY <1>1, <1>2

(* After OpBegin every stream and media session is still known. *)
LEMMA OpBeginKnown ==
    ASSUME Sound, StreamsKnown, MediaKnown, NEW o \in Ops, OpBegin(o)
    PROVE  StreamsKnown' /\ MediaKnown'
<1>. USE DEF Sound, Types, NativeTypes, MadeTypes, CommandTypes, OpTypes, OwnProducer,
             OpBegin, Advance, At,
             room, native, admin
<1>0. \A r \in made : r.session \in Sessions
  BY ProducerSession
<1>1. StreamsKnown'
  BY <1>0 DEF StreamsKnown, Known
<1>2. MediaKnown'
  BY DEF MediaKnown
<1>. QED
  BY <1>1, <1>2

(* After OpFails every stream and media session is still known. *)
LEMMA OpFailsKnown ==
    ASSUME Sound, StreamsKnown, MediaKnown, NEW o \in Ops, OpFails(o)
    PROVE  StreamsKnown' /\ MediaKnown'
<1>. USE DEF Sound, Types, NativeTypes, MadeTypes, CommandTypes, OpTypes, OwnProducer,
             OpFails, Finish, Advance, At,
             room, native, admin
<1>0. \A r \in made : r.session \in Sessions
  BY ProducerSession
<1>1. StreamsKnown'
  BY <1>0 DEF StreamsKnown, Known
<1>2. MediaKnown'
  BY DEF MediaKnown
<1>. QED
  BY <1>1, <1>2

(* After OpAmend every stream and media session is still known. *)
LEMMA OpAmendKnown ==
    ASSUME Sound, StreamsKnown, MediaKnown, NEW o \in Ops, OpAmend(o)
    PROVE  StreamsKnown' /\ MediaKnown'
<1>. USE DEF Sound, Types, NativeTypes, MadeTypes, CommandTypes, OpTypes, OwnProducer,
             OpAmend, Advance, At,
             room, native, admin
<1>0. \A r \in made : r.session \in Sessions
  BY ProducerSession
<1>1. StreamsKnown'
  BY <1>0 DEF StreamsKnown, Known, Revoked
<1>2. MediaKnown'
  BY DEF MediaKnown
<1>. QED
  BY <1>1, <1>2

(* After OpRemove every stream and media session is still known. *)
LEMMA OpRemoveKnown ==
    ASSUME Sound, StreamsKnown, MediaKnown, NEW o \in Ops, OpRemove(o)
    PROVE  StreamsKnown' /\ MediaKnown'
<1>. USE DEF Sound, Types, NativeTypes, MadeTypes, CommandTypes, OpTypes, OwnProducer,
             OpRemove, Finish, Advance, Depart, At,
             room, native, admin
<1>0. \A r \in made : r.session \in Sessions
  BY ProducerSession
<1>1. StreamsKnown'
  BY <1>0 DEF StreamsKnown, Known
<1>2. MediaKnown'
  BY DEF MediaKnown
<1>. QED
  BY <1>1, <1>2

(* After OpClose every stream and media session is still known. *)
LEMMA OpCloseKnown ==
    ASSUME Sound, StreamsKnown, MediaKnown, NEW o \in Ops, OpClose(o)
    PROVE  StreamsKnown' /\ MediaKnown'
<1>. USE DEF Sound, Types, NativeTypes, MadeTypes, CommandTypes, OpTypes, OwnProducer,
             OpClose, Fallback, At,
             room, native, admin
<1>0. \A r \in made : r.session \in Sessions
  BY ProducerSession
<1>1. StreamsKnown'
  BY <1>0 DEF StreamsKnown, Known, FailedIsDoomed
<1>2. MediaKnown'
  BY DEF MediaKnown
<1>. QED
  BY <1>1, <1>2

(* After OpEnd every stream and media session is still known. *)
LEMMA OpEndKnown ==
    ASSUME Sound, StreamsKnown, MediaKnown, NEW o \in Ops, OpEnd(o)
    PROVE  StreamsKnown' /\ MediaKnown'
<1>. USE DEF Sound, Types, NativeTypes, MadeTypes, CommandTypes, OpTypes, OwnProducer, OpEnd,
             Finish, Advance, At,
             room, native, admin
<1>0. \A r \in made : r.session \in Sessions
  BY ProducerSession
<1>1. StreamsKnown'
  BY <1>0 DEF StreamsKnown, Known
<1>2. MediaKnown'
  BY DEF MediaKnown
<1>. QED
  BY <1>1, <1>2

(* After CamBegin every stream and media session is still known. *)
LEMMA CamBeginKnown ==
    ASSUME Sound, StreamsKnown, MediaKnown, NEW o \in Ops, CamBegin(o)
    PROVE  StreamsKnown' /\ MediaKnown'
<1>. USE DEF Sound, Types, NativeTypes, MadeTypes, CommandTypes, OpTypes, OwnProducer,
             CamBegin, Advance, At,
             room, native, admin
<1>0. \A r \in made : r.session \in Sessions
  BY ProducerSession
<1>1. StreamsKnown'
  BY <1>0 DEF StreamsKnown, Known
<1>2. MediaKnown'
  BY DEF MediaKnown
<1>. QED
  BY <1>1, <1>2

(* After CamClose every stream and media session is still known. *)
LEMMA CamCloseKnown ==
    ASSUME Sound, StreamsKnown, MediaKnown, NEW o \in Ops, CamClose(o)
    PROVE  StreamsKnown' /\ MediaKnown'
<1>. USE DEF Sound, Types, NativeTypes, MadeTypes, CommandTypes, OpTypes, OwnProducer,
             CamClose, At,
             room, native, admin
<1>0. \A r \in made : r.session \in Sessions
  BY ProducerSession
<1>1. StreamsKnown'
  BY <1>0 DEF StreamsKnown, Known
<1>2. MediaKnown'
  BY DEF MediaKnown
<1>. QED
  BY <1>1, <1>2

(* After CamRecord every stream and media session is still known. *)
LEMMA CamRecordKnown ==
    ASSUME Sound, StreamsKnown, MediaKnown, NEW o \in Ops, CamRecord(o)
    PROVE  StreamsKnown' /\ MediaKnown'
<1>. USE DEF Sound, Types, NativeTypes, MadeTypes, CommandTypes, OpTypes, OwnProducer,
             CamRecord, Finish, Advance, At,
             room, native, admin
<1>0. \A r \in made : r.session \in Sessions
  BY ProducerSession
<1>1. StreamsKnown'
  BY <1>0 DEF StreamsKnown, Known
<1>2. MediaKnown'
  BY DEF MediaKnown
<1>. QED
  BY <1>1, <1>2

(* After ProduceBegin every stream and media session is still known. *)
LEMMA ProduceBeginKnown ==
    ASSUME Sound, StreamsKnown, MediaKnown, NEW s \in Sessions, NEW source \in Offers[Of(s)],
           ProduceBegin(s, source)
    PROVE  StreamsKnown' /\ MediaKnown'
<1>. USE DEF Sound, Types, NativeTypes, MadeTypes, CommandTypes, ProduceBegin, Goto, At, room,
             native, admin
<1>0. \A r \in made : r.session \in Sessions
  BY ProducerSession
<1>1. StreamsKnown'
  BY <1>0 DEF StreamsKnown, Known
<1>2. MediaKnown'
  BY DEF MediaKnown
<1>. QED
  BY <1>1, <1>2

(* Every step leaves streams and media known. *)
LEMMA NextKnown ==
    Sound /\ StreamsKnown /\ MediaKnown /\ [Next]_vars => StreamsKnown' /\ MediaKnown'
<1>. SUFFICES ASSUME Sound, StreamsKnown, MediaKnown, [Next]_vars
              PROVE  StreamsKnown' /\ MediaKnown'
  OBVIOUS
<1>1. ASSUME NEW s \in Sessions, Join(s) \/ Leave(s) \/ RemoveMedia(s)
      PROVE  StreamsKnown' /\ MediaKnown'
  BY <1>1, JoinKnown, LeaveKnown, RemoveMediaKnown
<1>2. ASSUME NEW s \in Sessions, OpenBegin(s) \/ CloseBegin(s) \/ Command(s)
      PROVE  StreamsKnown' /\ MediaKnown'
  BY <1>2, OpenBeginKnown, OpenNativeKnown, OpenSettleKnown, ProduceNativeKnown,
     ProduceRecordKnown, ProduceRefusedKnown, ProduceUndoKnown, CloseBeginKnown,
     CloseNativeKnown, CloseRecordKnown, CommandFailsKnown DEF Command
<1>3. ASSUME NEW s \in Sessions, NEW source \in Offers[Of(s)], ProduceBegin(s, source)
      PROVE  StreamsKnown' /\ MediaKnown'
  BY <1>3, ProduceBeginKnown
<1>4. ASSUME NEW o \in Ops, OpBegin(o) \/ CamBegin(o) \/ Operation(o)
      PROVE  StreamsKnown' /\ MediaKnown'
  BY <1>4, OpBeginKnown, CamBeginKnown, OpFailsKnown, OpAmendKnown, OpRemoveKnown, OpCloseKnown,
     OpEndKnown, CamCloseKnown, CamRecordKnown DEF Operation
<1>5. CASE UNCHANGED vars
  BY <1>5 DEF vars, StreamsKnown, MediaKnown, Known, At
<1>. QED
  BY <1>1, <1>2, <1>3, <1>4, <1>5 DEF Next

----------------------------------------------------------------------------
(* Theorems. *)

(* The inductive invariant: types, what a command has in hand, and that    *)
(* permission, limit and knowledge of streams survive every step.          *)
THEOREM SoundHolds == Spec => [](Sound /\ Lawful /\ StreamsKnown /\ MediaKnown)
<1>1. Init => Lawful /\ StreamsKnown /\ MediaKnown
  <2>1. SUFFICES ASSUME Init PROVE Lawful /\ StreamsKnown /\ MediaKnown
    OBVIOUS
  <2>2. RecordsArePermitted /\ StreamsKnown /\ MediaKnown
    BY <2>1 DEF Init, RecordsArePermitted, StreamsKnown, MediaKnown
  <2>3. Broadcasters = {}
    BY <2>1 DEF Init, Broadcasters, RecordsOf
  <2>4. policy \in PolicyStates
    BY <2>1, InitSound DEF Sound, Types, RoomTypes
  <2>5. Cardinality(Broadcasters) <= Limit(policy)
    BY <2>3, <2>4, FS_EmptySet, LimitType
  <2>. QED
    BY <2>2, <2>5 DEF Lawful, WithinLimit
<1>. QED
  BY <1>1, InitSound, NextSound, NextLawful, NextKnown, PTL DEF Spec

(* Every variable keeps its type: what is recorded, open or still to be    *)
(* closed is a producer that was asked for.                                *)
THEOREM TypeCorrect == Spec => []TypeOK
<1>1. Sound => TypeOK
  <2>1. SUFFICES ASSUME Sound PROVE TypeOK
    OBVIOUS
  <2>2. \A s \in Sessions : cmd[s].pc \in Labels /\ cmd[s].producer \in Producers \cup {None}
    BY <2>1 DEF Sound, Types, CommandTypes
  <2>. QED
    BY <2>1, <2>2 DEF Sound, Types, RoomTypes, NativeTypes, MadeTypes, OpTypes, PolicyStates,
       Labels, TypeOK
<1>. QED
  BY <1>1, SoundHolds, PTL

(* Whatever the room records is permitted by the policy of the moment, for *)
(* any number of members, settings and administrators                      *)
(* (media_ops.rs:266-286).                                                 *)
THEOREM RecordsStayPermitted == Spec => []RecordsArePermitted
<1>1. Lawful => RecordsArePermitted
  BY DEF Lawful
<1>. QED
  BY <1>1, SoundHolds, PTL

(* The number of broadcasters never exceeds the limit of the moment: the   *)
(* order in which seats are kept leaves that many (media_ops.rs:1045).     *)
THEOREM LimitHolds == Spec => []WithinLimit
<1>1. Lawful => WithinLimit
  BY DEF Lawful
<1>. QED
  BY <1>1, SoundHolds, PTL

(* No stream, and no media session, is left that nobody records or is      *)
(* about to close (media_ops.rs:241-284, 1170-1203).                       *)
THEOREM NothingStaysUnseen == Spec => []NothingUnseen
<1>1. StreamsKnown /\ MediaKnown => NothingUnseen
  BY DEF StreamsKnown, MediaKnown, Known, NothingUnseen
<1>. QED
  BY <1>1, SoundHolds, PTL
=============================================================================
