------------------------- MODULE AccountCapabilities -------------------------
(***************************************************************************)
(* What one account's bearers are turned into inside the process, and how  *)
(* long it outlives them: WebSocket tickets, which admit one upgrade, and  *)
(* streams of account updates, which are told to ask the database again    *)
(* when sessions are revoked.                                              *)
(*                                                                         *)
(* Sessions behave as SessionAuthority says; a ticket or a stream keeps    *)
(* the claims of the session its bearer named.  Validation is a query that *)
(* is sent, answered and read in separate steps.  Time is abstract: a      *)
(* deadline may pass at any moment.                                        *)
(***************************************************************************)
EXTENDS SessionAuthority, Sequences, FiniteSets

CONSTANTS
    Seeds,          \* sessions signed in at the start
    Streams,        \* GET requests for the account's update stream
    Issues,         \* POST /api/auth/ws-ticket; a ticket is named by its request
    Redeems,        \* upgrades that present a ticket
    MaxStreams,     \* ACCOUNT_STREAMS, or the hub's capacity if that is less
    MaxTickets,     \* MAX_PENDING
    Queue,          \* QUEUE, of one receiver
    MaxVersion,     \* bound on credential changes
    Drain,          \* whether the server may start to drain
    None

Claims == [sid : Sids, version : Nat]

ASSUME CapabilityAssumption ==
    /\ Seeds \subseteq Sids /\ None \notin Issues /\ None \notin Claims
    /\ Streams \cap Issues = {}
    /\ MaxStreams \in Nat /\ MaxTickets \in Nat \ {0} /\ Queue \in Nat \ {0}
    /\ MaxVersion \in Nat /\ Drain \in BOOLEAN

VARIABLES
    draining,       \* DrainSignal
    owed,           \* a revocation has committed and is still to be announced
    subscribers, generation,    \* the hub's entry for the account
    pc,             \* each stream's next step
    claims,         \* the session and version of a stream's or a ticket's bearer
    inbox,          \* its broadcast receiver
    due,            \* next_validation has passed
    loaded, validated,          \* generations
    update,         \* what it will deliver if its claims hold
    told,           \* its claims were dead when a revocation was announced
    tickets, stale, \* TicketStore.entries, and those past their deadline
    ask,            \* progress of the requests for tickets
    use, paper,     \* progress of the upgrades, and the ticket each one took
    dead            \* upgrades whose session had ended when they took it

hub == <<subscribers, generation>>
streamVars == <<pc, inbox, due, loaded, validated, update, told>>
ticketVars == <<tickets, stale, ask, use, paper, dead>>
vars == <<authority, draining, owed, hub, streamVars, claims, ticketVars>>

Holders == Streams \cup Issues

Init ==
    /\ status = [s \in Sids |-> IF s \in Seeds THEN "live" ELSE "new"]
    /\ stamp = [s \in Sids |-> 0] /\ version = 0
    /\ draining = FALSE /\ owed = FALSE
    /\ subscribers = 0 /\ generation = 0
    /\ pc = [c \in Streams |-> "new"]
    /\ claims = [h \in Holders |-> None]
    /\ inbox = [c \in Streams |-> <<>>]
    /\ due = [c \in Streams |-> FALSE]
    /\ loaded = [c \in Streams |-> 0] /\ validated = [c \in Streams |-> 0]
    /\ update = [c \in Streams |-> "none"]
    /\ told = [c \in Streams |-> FALSE]
    /\ tickets = {} /\ stale = {}
    /\ ask = [i \in Issues |-> "new"]
    /\ use = [u \in Redeems |-> "new"]
    /\ paper = [u \in Redeems |-> None]
    /\ dead = {}

Holds(h) == Valid(claims[h].sid, claims[h].version)
Gone(h) == status[claims[h].sid] = "ended"

(* authenticated_claims, for the bearer of some session. *)
Authenticate(h) ==
    \E s \in Sids :
        /\ Valid(s, stamp[s])
        /\ claims' = [claims EXCEPT ![h] = [sid |-> s, version |-> stamp[s]]]

----------------------------------------------------------------------------
(* The database, the hub's callers and time. *)

Revocation ==
    /\ \/ \E s \in Sids : End({s})
       \/ version < MaxVersion /\ Bump
    /\ owed' = TRUE
    /\ UNCHANGED <<draining, hub, streamVars, claims, ticketVars>>

SessionMoves ==
    /\ \/ \E s \in Sids : SignIn(s, {})
       \/ \E s \in Sids : Lapse({s})
       \/ \E s \in Sids : Renew(s)
    /\ UNCHANGED <<draining, owed, hub, streamVars, claims, ticketVars>>

Leased ==
    {"loading", "querying", "answered", "current", "refused", "delivering", "waiting"}
Notices == {"revalidate", "change", "lagged"}
Push(q, notice) == IF Len(q) < Queue THEN Append(q, notice) ELSE <<"lagged">>
Broadcast(notice) ==
    inbox' = [c \in Streams |-> IF pc[c] \in Leased THEN Push(inbox[c], notice) ELSE inbox[c]]

(* Hub::revalidate, after the commit.  An account without subscribers has  *)
(* no entry.                                                               *)
Announce ==
    /\ owed /\ owed' = FALSE
    /\ generation' = IF subscribers = 0 THEN generation ELSE generation + 1
    /\ Broadcast("revalidate")
    /\ told' = [c \in Streams |-> told[c] \/ (claims[c] # None /\ Gone(c))]
    /\ UNCHANGED <<authority, draining, subscribers, pc, due, loaded, validated, update,
                   claims, ticketVars>>

(* A logout announces nothing, and a request that is dropped after its     *)
(* commit does not either.                                                 *)
AnnouncementLost ==
    /\ owed /\ owed' = FALSE
    /\ UNCHANGED <<authority, draining, hub, streamVars, claims, ticketVars>>

(* Hub::changed *)
Changed ==
    /\ Broadcast("change")
    /\ UNCHANGED <<authority, draining, owed, hub, pc, due, loaded, validated, update, told,
                   claims, ticketVars>>

StartDrain ==
    /\ Drain /\ ~draining /\ draining' = TRUE
    /\ UNCHANGED <<authority, owed, hub, streamVars, claims, ticketVars>>

----------------------------------------------------------------------------
(* Update streams. *)

Goto(c, label) == pc' = [pc EXCEPT ![c] = label]

StreamOpen(c) ==
    /\ pc[c] = "new" /\ Authenticate(c) /\ Goto(c, "authenticated")
    /\ UNCHANGED <<authority, draining, owed, hub, inbox, due, loaded, validated, update, told,
                   ticketVars>>

(* Hub::subscribe; an entry made now starts at generation 0, and the first *)
(* validation is due at once.                                              *)
Subscribe(c) ==
    /\ pc[c] = "authenticated"
    /\ IF subscribers < MaxStreams
       THEN /\ subscribers' = subscribers + 1
            /\ due' = [due EXCEPT ![c] = TRUE]
            /\ update' = [update EXCEPT ![c] = "ready"]
            /\ Goto(c, "loading")
       ELSE Goto(c, "ended") /\ UNCHANGED <<subscribers, due, update>>
    /\ UNCHANGED <<authority, draining, owed, generation, inbox, loaded, validated, told,
                   claims, ticketVars>>

(* The end of the stream drops its lease, and the last lease the entry.    *)
Close(c) ==
    /\ pc[c] \in Leased
    /\ Goto(c, "ended")
    /\ subscribers' = subscribers - 1
    /\ generation' = IF subscribers = 1 THEN 0 ELSE generation
    /\ inbox' = [inbox EXCEPT ![c] = <<>>]
    /\ UNCHANGED <<authority, draining, owed, due, loaded, validated, update, told, claims,
                   ticketVars>>

(* The client leaves, the stream's lifetime or its bearer's expiry passes. *)
Leave(c) == pc[c] # "delivering" /\ Close(c)

(* Mutant of NeedsQuery: only an announcement makes a stream ask. *)
NeedsQueryIfTold(c) == generation # validated[c]

NeedsQuery(c) == due[c] \/ generation # validated[c]

(* Connection::valid, up to its query. *)
Load(c) ==
    /\ pc[c] = "loading" /\ ~draining
    /\ loaded' = [loaded EXCEPT ![c] = generation]
    /\ Goto(c, IF NeedsQuery(c) THEN "querying" ELSE "current")
    /\ UNCHANGED <<authority, draining, owed, hub, inbox, due, validated, update, told, claims,
                   ticketVars>>

(* validate_current_claims reads the database; it may also fail or be late.*)
Query(c) ==
    /\ pc[c] = "querying"
    /\ \/ Holds(c) /\ Goto(c, "answered")
       \/ Goto(c, "refused")
    /\ UNCHANGED <<authority, draining, owed, hub, inbox, due, loaded, validated, update, told,
                   claims, ticketVars>>

(* Mutant of Unmoved: the generation is not read a second time. *)
UnmovedAssumed(c) == TRUE

Unmoved(c) == generation = loaded[c]

(* Its answer, or the one before it, is accepted if nothing was announced  *)
(* meanwhile.                                                              *)
Accept(c) ==
    /\ pc[c] \in {"answered", "current"} /\ ~draining /\ Unmoved(c)
    /\ validated' = [validated EXCEPT ![c] = loaded[c]]
    /\ due' = [due EXCEPT ![c] = due[c] /\ pc[c] = "current"]
    /\ Goto(c, IF update[c] = "none" THEN "waiting" ELSE "delivering")
    /\ UNCHANGED <<authority, draining, owed, hub, inbox, loaded, update, told, claims,
                   ticketVars>>

Reject(c) ==
    /\ \/ pc[c] = "refused"
       \/ pc[c] \in {"answered", "current"} /\ (draining \/ ~Unmoved(c))
       \/ pc[c] \in {"loading", "waiting"} /\ draining
    /\ Close(c)

(* The update has left; next() is called again. *)
Delivered(c) ==
    /\ pc[c] = "delivering" /\ Goto(c, "loading")
    /\ update' = [update EXCEPT ![c] = "none"]
    /\ UNCHANGED <<authority, draining, owed, hub, inbox, due, loaded, validated, told, claims,
                   ticketVars>>

(* REVALIDATE seconds have passed since the last validation. *)
Due(c) ==
    /\ pc[c] \in Leased /\ ~due[c]
    /\ due' = [due EXCEPT ![c] = TRUE]
    /\ UNCHANGED <<authority, draining, owed, hub, pc, inbox, loaded, validated, update, told,
                   claims, ticketVars>>

(* The biased select: a validation that is due comes before the receiver.  *)
Wake(c) ==
    /\ pc[c] = "waiting" /\ due[c] /\ Goto(c, "loading")
    /\ UNCHANGED <<authority, draining, owed, hub, inbox, due, loaded, validated, update, told,
                   claims, ticketVars>>

Receive(c) ==
    /\ pc[c] = "waiting" /\ ~due[c] /\ inbox[c] # <<>> /\ Head(inbox[c]) # "lagged"
    /\ inbox' = [inbox EXCEPT ![c] = Tail(@)]
    /\ Goto(c, "loading")
    /\ IF Head(inbox[c]) = "change"
       THEN update' = [update EXCEPT ![c] = "change"] /\ UNCHANGED due
       ELSE due' = [due EXCEPT ![c] = TRUE] /\ UNCHANGED update
    /\ UNCHANGED <<authority, draining, owed, hub, loaded, validated, told, claims, ticketVars>>

(* A lagging receiver ends the stream: the client resynchronises. *)
Lagged(c) ==
    /\ pc[c] = "waiting" /\ ~due[c] /\ inbox[c] # <<>> /\ Head(inbox[c]) = "lagged"
    /\ Close(c)

Poll(c) ==
    \/ Subscribe(c) \/ Load(c) \/ Query(c) \/ Accept(c) \/ Reject(c) \/ Delivered(c)
    \/ Wake(c) \/ Receive(c) \/ Lagged(c)

----------------------------------------------------------------------------
(* WebSocket tickets. *)

TicketAsk(i) ==
    /\ ask[i] = "new" /\ Authenticate(i)
    /\ ask' = [ask EXCEPT ![i] = "authenticated"]
    /\ UNCHANGED <<authority, draining, owed, hub, streamVars, tickets, stale, use, paper, dead>>

(* issue_at: only a full store is cleared of what has expired, and one     *)
(* that is still full refuses.                                             *)
Admits(i, after) ==
    LET kept == IF Cardinality(tickets) = MaxTickets THEN tickets \ stale ELSE tickets
    IN  Cardinality(kept) < MaxTickets /\ after = kept \cup {i}

TicketIssue(i) ==
    /\ ask[i] = "authenticated"
    /\ Admits(i, tickets')
    /\ stale' = stale \cap tickets'
    /\ ask' = [ask EXCEPT ![i] = "issued"]
    /\ UNCHANGED <<authority, draining, owed, hub, streamVars, claims, use, paper, dead>>

(* ServiceBusy, or the bearer expired meanwhile. *)
TicketRefused(i) ==
    /\ ask[i] = "authenticated"
    /\ ask' = [ask EXCEPT ![i] = "refused"]
    /\ UNCHANGED <<authority, draining, owed, hub, streamVars, claims, tickets, stale, use,
                   paper, dead>>

TicketExpires ==
    /\ \E i \in tickets \ stale : stale' = stale \cup {i}
    /\ UNCHANGED <<authority, draining, owed, hub, streamVars, claims, tickets, ask, use, paper,
                   dead>>

(* Mutant of Spent: the entry is read and left. *)
SpentLater(i) == tickets

Spent(i) == tickets \ {i}

(* take_at: the entry goes whatever it is worth. *)
TicketTake(u) ==
    /\ use[u] = "new"
    /\ \E i \in tickets :
         /\ tickets' = Spent(i) /\ stale' = stale \ {i}
         /\ paper' = [paper EXCEPT ![u] = i]
         /\ use' = [use EXCEPT ![u] = IF i \in stale THEN "refused" ELSE "taken"]
         /\ dead' = IF Gone(i) THEN dead \cup {u} ELSE dead
    /\ UNCHANGED <<authority, draining, owed, hub, streamVars, claims, ask>>

(* redeem: the database, then the deadlines again. *)
TicketRedeem(u) ==
    /\ use[u] = "taken"
    /\ \/ Holds(paper[u]) /\ use' = [use EXCEPT ![u] = "admitted"]
       \/ use' = [use EXCEPT ![u] = "refused"]
    /\ UNCHANGED <<authority, draining, owed, hub, streamVars, claims, tickets, stale, ask,
                   paper, dead>>

----------------------------------------------------------------------------

Next ==
    \/ Revocation \/ SessionMoves \/ Announce \/ AnnouncementLost \/ Changed \/ StartDrain
    \/ \E c \in Streams : StreamOpen(c) \/ Leave(c) \/ Due(c) \/ Poll(c)
    \/ \E i \in Issues : TicketAsk(i) \/ TicketIssue(i) \/ TicketRefused(i)
    \/ TicketExpires
    \/ \E u \in Redeems : TicketTake(u) \/ TicketRedeem(u)

Spec == Init /\ [][Next]_vars

(* The response body is polled as long as its connection takes data, and   *)
(* the five seconds of a validation pass.                                  *)
FairSpec == Spec /\ \A c \in Streams : WF_vars(Poll(c)) /\ WF_vars(Due(c))

----------------------------------------------------------------------------
(* Properties. *)

(* No lease is dropped twice: the hub's count of subscribers stays in      *)
(* range.                                                                  *)
TypeOK ==
    /\ status \in [Sids -> Statuses] /\ stamp \in [Sids -> Nat] /\ version \in Nat
    /\ draining \in BOOLEAN /\ owed \in BOOLEAN
    /\ subscribers \in 0..MaxStreams /\ generation \in Nat
    /\ pc \in [Streams -> Leased \cup {"new", "authenticated", "ended"}]
    /\ claims \in [Holders -> Claims \cup {None}]
    /\ inbox \in [Streams -> Seq(Notices)] /\ \A c \in Streams : Len(inbox[c]) <= Queue
    /\ due \in [Streams -> BOOLEAN] /\ told \in [Streams -> BOOLEAN]
    /\ loaded \in [Streams -> Nat] /\ validated \in [Streams -> Nat]
    /\ update \in [Streams -> {"none", "ready", "change"}]
    /\ tickets \subseteq Issues /\ stale \subseteq tickets
    /\ ask \in [Issues -> {"new", "authenticated", "issued", "refused"}]
    /\ use \in [Redeems -> {"new", "taken", "admitted", "refused"}]
    /\ paper \in [Redeems -> Issues \cup {None}] /\ dead \subseteq Redeems

(* Once a revocation has been announced, no stream of a session it ended   *)
(* delivers another update: not one that was being validated, nor one that *)
(* subscribed just afterwards, nor with a notice still in its queue        *)
(* (updates.rs:231-249, Connection::valid).                                *)
SilentOnceTold ==
    [][\A c \in Streams : pc[c] # "delivering" /\ pc'[c] = "delivering" => ~told[c]]_vars

(* A ticket admits once, and never with a session that had ended when it   *)
(* was presented (ws_tickets.rs:146-147).                                  *)
TicketsAdmitOnce ==
    /\ \A u \in dead : use[u] # "admitted"
    /\ \A u, w \in Redeems :
         use[u] = "admitted" /\ use[w] = "admitted" /\ paper[u] = paper[w] => u = w

(* A stream whose session has ended closes, even if nobody announces it    *)
(* (the five seconds of REVALIDATE).                                       *)
RevokedStreamsClose ==
    \A c \in Streams : (pc[c] \in Leased /\ Gone(c)) ~> pc[c] = "ended"
=============================================================================
