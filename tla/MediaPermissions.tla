-------------------------- MODULE MediaPermissions --------------------------
(***************************************************************************)
(* Who may send what in one room: the room's records of producers, kept    *)
(* under its lock, against the streams themselves, which are created and   *)
(* closed in the media server while no room lock is held.                  *)
(*                                                                         *)
(* A session is one membership of one participant: a media_session_id and  *)
(* the socket that owns it.  A socket runs one command at a time, and may  *)
(* still be inside one when its membership is over and the participant has *)
(* returned on another.  Administration runs beside it; room control       *)
(* orders the administrators among themselves, not against the sockets.    *)
(***************************************************************************)
EXTENDS Naturals, FiniteSets

CONSTANTS
    Members,        \* participant ids; numbers, since they are ordered
    Sessions,       \* of a member each: <<member, number>>
    Offers,         \* the sources each member tries to send
    Ops,            \* administrative requests
    Policies,       \* settings an administrator may choose
    Roles,          \* roles an administrator may give
    FirstPolicy, FirstRole,
    Cohort,         \* whom a sanction on a member binds: the guests of one address
    Ceiling,        \* MAX_BROADCASTERS_PER_ROOM
    ProducerCap,    \* MAX_PRODUCERS_PER_PARTICIPANT
    None

Guest == 0
Member == 2
Owner == 5
VideoSources == {"camera", "screen"}
ScreenSources == {"screen", "screen-audio"}
Settings ==
    [guests : BOOLEAN, screen : BOOLEAN, video : BOOLEAN, moderated : BOOLEAN, max : Nat]

ASSUME MediaAssumption ==
    /\ Members \subseteq Nat /\ IsFiniteSet(Members) /\ Sessions \subseteq Members \X Nat
    /\ Offers \in [Members -> SUBSET (VideoSources \cup {"microphone", "screen-audio"})]
    /\ Policies \subseteq Settings /\ FirstPolicy \in Settings
    /\ Roles \subseteq Guest..Owner - 1 /\ FirstRole \in [Members -> Guest..Owner - 1]
    /\ Cohort \in [Members -> SUBSET Members] /\ \A m \in Members : m \in Cohort[m]
    /\ Ceiling \in Nat /\ ProducerCap \in Nat

Of(s) == s[1]
Producers == UNION {[session : {s}, source : Offers[Of(s)]] : s \in Sessions}

VARIABLES
    policy,         \* settings, roles and camera bans
    present,        \* sessions that are the room's participants
    past,           \* sessions that were
    live,           \* ensure_live
    records,        \* Participant.producers and producer_to_participant
    media,          \* sessions the media server holds, with a send transport
    streams,        \* producers open in the media server
    made,           \* producers whose creation was asked for
    cmd,            \* the command each socket runs, and the producer it is about
    control,        \* who holds room control
    op, aim,        \* progress of each administrative request, and what it asks
    todo, failed,   \* producers it has still to close, sessions where one failed
    doomed          \* sessions somebody is about to remove from the media server

vars == <<policy, present, past, live, records, media, streams, made, cmd, control, op, aim,
          todo, failed, doomed>>
room == <<policy, present, past, live, records>>
native == <<media, streams>>
admin == <<control, op, aim, todo, failed>>

Idle == [pc |-> "idle", producer |-> None]

Init ==
    /\ policy = [settings |-> FirstPolicy, role |-> FirstRole, banned |-> {}]
    /\ present = {} /\ past = {} /\ live = TRUE /\ records = {}
    /\ media = {} /\ streams = {} /\ made = {}
    /\ cmd = [s \in Sessions |-> Idle]
    /\ control = None
    /\ op = [o \in Ops |-> "new"] /\ aim = [o \in Ops |-> None]
    /\ todo = [o \in Ops |-> {}] /\ failed = [o \in Ops |-> {}]
    /\ doomed = {}

----------------------------------------------------------------------------
(* Policy. *)

(* moderation::can_produce: a camera ban holds for any video. *)
MayProduce(p, m, source) ==
    /\ source \in VideoSources => m \notin p.banned
    /\ p.settings.moderated => p.role[m] >= Member

(* producer_allowed_without_capacity *)
Allowed(p, m, source) ==
    /\ p.role[m] = Guest => p.settings.guests
    /\ source \in ScreenSources => p.settings.screen
    /\ source = "camera" => p.settings.video
    /\ MayProduce(p, m, source)

Limit(p) == IF p.settings.max < Ceiling THEN p.settings.max ELSE Ceiling

RecordsOf(m) == {r \in records : Of(r.session) = m}
Broadcasters == {m \in Members : RecordsOf(m) # {}}

(* participant_can_produce *)
CanProduce(m, source) ==
    /\ Allowed(policy, m, source)
    /\ RecordsOf(m) # {} \/ Cardinality(Broadcasters) < Limit(policy)

(* The broadcasters that stay keep their seat by role, then by id. *)
Before(p, m, n) == p.role[m] > p.role[n] \/ (p.role[m] = p.role[n] /\ m < n)

Permitted(p, r) == Allowed(p, Of(r.session), r.source)

(* Mutant of OverCapacity: a lower limit binds only newcomers. *)
OverCapacityNever(p) == {}

OverCapacity(p) ==
    LET candidates == {m \in Members : \E r \in RecordsOf(m) : Permitted(p, r)}
    IN  {m \in candidates :
            Cardinality({n \in candidates : Before(p, n, m)}) >= Limit(p)}

(* revoke_unauthorized_producers under policy p, for the members of whom.  *)
Revoked(p, whom) ==
    {r \in records :
        /\ Of(r.session) \in whom
        /\ ~Permitted(p, r) \/ Of(r.session) \in OverCapacity(p)}

----------------------------------------------------------------------------
(* Membership. *)

(* A member joins, or returns when its last session is over. *)
Join(s) ==
    /\ live /\ control = None
    /\ s \notin past /\ \A t \in present : Of(t) # Of(s)
    /\ present' = present \cup {s}
    /\ UNCHANGED <<policy, past, live, records, native, made, cmd, admin, doomed>>

(* The sessions leave the room with their records, in one hold of its      *)
(* lock; their media is removed afterwards.                                *)
Depart(gone) ==
    /\ present' = present \ gone
    /\ past' = past \cup gone
    /\ records' = {r \in records : r.session \notin gone}
    /\ doomed' = doomed \cup gone

(* remove_participant_inner *)
Leave(s) ==
    /\ s \in present /\ control = None
    /\ Depart({s})
    /\ UNCHANGED <<policy, live, native, made, cmd, admin>>

(* TransportManager::remove_participant; it may find nothing. *)
RemoveMedia(s) ==
    /\ s \in doomed /\ doomed' = doomed \ {s}
    /\ media' = media \ {s}
    /\ streams' = {r \in streams : r.session # s}
    /\ UNCHANGED <<room, made, cmd, admin>>

----------------------------------------------------------------------------
(* A socket's commands.  Each may also fail wherever it waits. *)

Goto(s, pc, r) == cmd' = [cmd EXCEPT ![s] = [pc |-> pc, producer |-> r]]
At(s, pc) == cmd[s].pc = pc

(* participant_for_sender, before anything native. *)
Current(s) == live /\ s \in present

OpenBegin(s) ==
    /\ At(s, "idle") /\ Current(s) /\ Goto(s, "opening", None)
    /\ UNCHANGED <<room, native, made, admin, doomed>>

(* create_send_transport makes the session's entry if there is none.       *)
OpenNative(s) ==
    /\ At(s, "opening") /\ s \notin media
    /\ media' = media \cup {s}
    /\ Goto(s, "opened", None)
    /\ UNCHANGED <<room, streams, made, admin, doomed>>

(* is_current_media_session, after the native step. *)
OpenSettle(s) ==
    /\ At(s, "opened") /\ Goto(s, "idle", None)
    /\ doomed' = IF Current(s) THEN doomed ELSE doomed \cup {s}
    /\ UNCHANGED <<room, native, made, admin>>

(* create_producer: the first look at the policy. *)
ProduceBegin(s, source) ==
    LET r == [session |-> s, source |-> source] IN
    /\ At(s, "idle") /\ Current(s) /\ r \notin made
    /\ CanProduce(Of(s), source)
    /\ made' = made \cup {r}
    /\ Goto(s, "producing", r)
    /\ UNCHANGED <<room, native, admin, doomed>>

ProduceNative(s) ==
    /\ At(s, "producing") /\ s \in media
    /\ Cardinality({r \in streams : r.session = s}) < ProducerCap
    /\ streams' = streams \cup {cmd[s].producer}
    /\ Goto(s, "created", cmd[s].producer)
    /\ UNCHANGED <<room, media, made, admin, doomed>>

(* Mutant of StillAllowed: what was allowed at first is recorded. *)
StillAllowedAtFirst(s) == Current(s)

(* The second look, with the room's lock held until the record is made.    *)
StillAllowed(s) == Current(s) /\ CanProduce(Of(s), cmd[s].producer.source)

ProduceRecord(s) ==
    /\ At(s, "created") /\ StillAllowed(s)
    /\ records' = records \cup {cmd[s].producer}
    /\ Goto(s, "idle", None)
    /\ UNCHANGED <<policy, present, past, live, native, made, admin, doomed>>

ProduceRefused(s) ==
    /\ At(s, "created") /\ ~StillAllowed(s) /\ Goto(s, "undo", cmd[s].producer)
    /\ UNCHANGED <<room, native, made, admin, doomed>>

ProduceUndo(s) ==
    /\ At(s, "undo")
    /\ streams' = streams \ {cmd[s].producer}
    /\ Goto(s, "idle", None)
    /\ UNCHANGED <<room, media, made, admin, doomed>>

(* close_producer of the member's own producer. *)
CloseBegin(s) ==
    /\ At(s, "idle") /\ Current(s)
    /\ \E r \in records : r.session = s /\ Goto(s, "closing", r)
    /\ UNCHANGED <<room, native, made, admin, doomed>>

(* A producer that is not there fails the command, and its record stays.   *)
CloseNative(s) ==
    /\ At(s, "closing")
    /\ streams' = streams \ {cmd[s].producer}
    /\ IF cmd[s].producer \in streams THEN Goto(s, "closed", cmd[s].producer)
                                      ELSE Goto(s, "idle", None)
    /\ UNCHANGED <<room, media, made, admin, doomed>>

CloseRecord(s) ==
    /\ At(s, "closed") /\ Goto(s, "idle", None)
    /\ records' = IF Current(s) THEN records \ {cmd[s].producer} ELSE records
    /\ UNCHANGED <<policy, present, past, live, native, made, admin, doomed>>

(* The rate limit, the media server or a lookup refuses. *)
CommandFails(s) ==
    /\ cmd[s].pc \in {"opening", "producing"} /\ Goto(s, "idle", None)
    /\ UNCHANGED <<room, native, made, admin, doomed>>

----------------------------------------------------------------------------
(* Administrators: moderators in the room, and the REST interface. *)

Requests ==
    [kind : {"ban", "lift", "kick", "expel"}, whom : Members]
    \cup [kind : {"role"}, whom : Members, to : Roles]
    \cup [kind : {"settings"}, to : Policies]
    \cup [kind : {"teardown"}]

SessionsOf(whom) == {s \in present : Of(s) \in whom}

Advance(o, pc) == op' = [op EXCEPT ![o] = pc]
Finish(o) ==
    /\ Advance(o, "done")
    /\ aim' = [aim EXCEPT ![o] = None]
    /\ todo' = [todo EXCEPT ![o] = {}] /\ failed' = [failed EXCEPT ![o] = {}]

(* The request is authorized with control held, and is written down        *)
(* without the room's lock.                                                *)
OpBegin(o) ==
    /\ op[o] = "new" /\ control = None /\ live
    /\ \E q \in Requests :
         /\ q.kind \notin {"settings", "teardown"} => SessionsOf({q.whom}) # {}
         /\ aim' = [aim EXCEPT ![o] = q]
    /\ control' = o
    /\ Advance(o, "saving")
    /\ UNCHANGED <<room, native, made, cmd, todo, failed, doomed>>

(* Persistence fails: nothing is published. *)
OpFails(o) ==
    /\ op[o] = "saving"
    /\ control' = None
    /\ Finish(o)
    /\ UNCHANGED <<room, native, made, cmd, doomed>>

(* The policy a request asks for, and whose producers it looks at.  (A mute *)
(* also spreads a camera ban over its cohort, where all have it already.)  *)
Amended(q) ==
    CASE q.kind = "settings" -> [policy EXCEPT !.settings = q.to]
      [] q.kind = "role" -> [policy EXCEPT !.role[q.whom] = q.to]
      [] q.kind = "ban" -> [policy EXCEPT !.banned = @ \cup Cohort[q.whom]]
      [] OTHER -> [policy EXCEPT !.banned = @ \ Cohort[q.whom]]

Examined(q) ==
    CASE q.kind = "settings" -> Members
      [] q.kind = "role" -> {q.whom}
      [] q.kind = "ban" -> Cohort[q.whom]
      [] OTHER -> {}

(* update_punitive_state, set_participant_role and update_room_settings:   *)
(* policy and records change in one hold of the room's lock.               *)
OpAmend(o) ==
    /\ op[o] = "saving" /\ aim[o].kind \in {"settings", "role", "ban", "lift"}
    /\ policy' = Amended(aim[o])
    /\ LET gone == Revoked(policy', Examined(aim[o])) IN
         /\ records' = records \ gone
         /\ todo' = [todo EXCEPT ![o] = gone]
    /\ control' = None
    /\ aim' = [aim EXCEPT ![o] = None]
    /\ Advance(o, "closing")
    /\ UNCHANGED <<present, past, live, native, made, cmd, failed, doomed>>

(* publish_removal removes a kicked member, or a whole cohort for a ban    *)
(* from the room (which may expire at any time, so a return is no surprise *)
(* later); a deletion, a recovery or a quarantine empties the room.        *)
Removed(q) ==
    CASE q.kind = "kick" -> SessionsOf({q.whom})
      [] q.kind = "expel" -> SessionsOf(Cohort[q.whom])
      [] OTHER -> present

OpRemove(o) ==
    /\ op[o] = "saving" /\ aim[o].kind \in {"kick", "expel", "teardown"}
    /\ Depart(Removed(aim[o]))
    /\ live' = (aim[o].kind # "teardown")
    /\ control' = None
    /\ Finish(o)
    /\ UNCHANGED <<policy, native, made, cmd>>

(* Mutant of Fallback: a failed close is logged and left. *)
FallbackNone(r) == {}

(* The whole media session goes when a producer could not be closed.       *)
Fallback(r) == {r.session}

(* close_revoked_producers, one producer at a time. *)
OpClose(o) ==
    /\ op[o] = "closing"
    /\ \E r \in todo[o] :
         /\ todo' = [todo EXCEPT ![o] = @ \ {r}]
         /\ \/ r.session \in failed[o] /\ UNCHANGED <<streams, failed, doomed>>
            \/ /\ r.session \notin failed[o] /\ r \in streams
               /\ streams' = streams \ {r} /\ UNCHANGED <<failed, doomed>>
            \/ /\ r.session \notin failed[o] /\ r \notin streams
               /\ failed' = [failed EXCEPT ![o] = @ \cup {r.session}]
               /\ doomed' = doomed \cup Fallback(r)
               /\ UNCHANGED streams
    /\ UNCHANGED <<room, media, made, cmd, control, op, aim>>

OpEnd(o) ==
    /\ op[o] = "closing" /\ todo[o] = {}
    /\ Finish(o)
    /\ UNCHANGED <<room, native, made, cmd, control, doomed>>

(* close_cam collects with control held for that long. *)
CamBegin(o) ==
    /\ op[o] = "new" /\ control = None /\ live
    /\ \E m \in Members :
         /\ SessionsOf({m}) # {}
         /\ aim' = [aim EXCEPT ![o] = [kind |-> "closecam", whom |-> m]]
         /\ todo' = [todo EXCEPT ![o] = {r \in RecordsOf(m) : r.source \in VideoSources}]
    /\ todo'[o] # {}
    /\ Advance(o, "dimming")
    /\ UNCHANGED <<room, native, made, cmd, control, failed, doomed>>

(* A failed close is only logged. *)
CamClose(o) ==
    /\ op[o] = "dimming" /\ todo[o] \cap streams # {}
    /\ \E r \in todo[o] : r \in streams /\ streams' = streams \ {r}
    /\ UNCHANGED <<room, media, made, cmd, admin, doomed>>

CamRecord(o) ==
    /\ op[o] = "dimming" /\ todo[o] \cap streams = {}
    /\ records' = records \ todo[o]
    /\ Finish(o)
    /\ UNCHANGED <<policy, present, past, live, native, made, cmd, control, doomed>>

----------------------------------------------------------------------------

Command(s) ==
    \/ OpenNative(s) \/ OpenSettle(s) \/ ProduceNative(s) \/ ProduceRecord(s)
    \/ ProduceRefused(s) \/ ProduceUndo(s) \/ CloseNative(s) \/ CloseRecord(s)
    \/ CommandFails(s)

Operation(o) ==
    OpFails(o) \/ OpAmend(o) \/ OpRemove(o) \/ OpClose(o) \/ OpEnd(o) \/ CamClose(o)
    \/ CamRecord(o)

Next ==
    \/ \E s \in Sessions :
         \/ Join(s) \/ Leave(s) \/ RemoveMedia(s)
         \/ OpenBegin(s) \/ CloseBegin(s) \/ Command(s)
         \/ \E source \in Offers[Of(s)] : ProduceBegin(s, source)
    \/ \E o \in Ops : OpBegin(o) \/ CamBegin(o) \/ Operation(o)

Spec == Init /\ [][Next]_vars

----------------------------------------------------------------------------
(* Properties. *)

(* Records and streams are of producers somebody asked for.                *)
TypeOK ==
    /\ policy \in [settings : Settings, role : [Members -> Guest..Owner],
                   banned : SUBSET Members]
    /\ present \subseteq Sessions /\ past \subseteq Sessions /\ live \in BOOLEAN
    /\ media \subseteq Sessions /\ doomed \subseteq Sessions
    /\ records \subseteq made /\ streams \subseteq made /\ made \subseteq Producers
    /\ \A s \in Sessions :
         /\ cmd[s].pc \in {"idle", "opening", "opened", "producing", "created", "undo",
                           "closing", "closed"}
         /\ cmd[s].producer \in Producers \cup {None}
    /\ control \in Ops \cup {None}
    /\ op \in [Ops -> {"new", "saving", "closing", "dimming", "done"}]
    /\ \A o \in Ops : todo[o] \subseteq Producers /\ failed[o] \subseteq Sessions

(* Every producer the room advertises is one its current policy permits,   *)
(* by a member who is there: also when the policy, the role or a sanction  *)
(* changed between a command's two looks (media_ops.rs:266-286).           *)
RecordsArePermitted == \A r \in records : r.session \in present /\ Permitted(policy, r)

(* No more members broadcast than the room and the deployment allow, after *)
(* a lower limit as well as between racing newcomers (media_ops.rs:1045).  *)
WithinLimit == Cardinality(Broadcasters) <= Limit(policy)

(* A stream open in the media server that the room does not know of has    *)
(* somebody who is about to record or to close it, and so has a media      *)
(* session whose member is gone: nothing is left sending unseen            *)
(* (media_ops.rs:241-284, 1170-1203).                                      *)
NothingUnseen ==
    /\ \A r \in streams :
         \/ r \in records \/ r.session \in doomed
         \/ cmd[r.session].pc \in {"created", "undo"} /\ cmd[r.session].producer = r
         \/ \E o \in Ops : op[o] = "closing" /\ r \in todo[o]
    /\ \A s \in media : s \in present \/ s \in doomed \/ At(s, "opened")
=============================================================================
