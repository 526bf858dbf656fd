----------------------- MODULE AccountCapabilitiesProofs -----------------------
(* Theorems about AccountCapabilities, for any number of streams, tickets and  *)
(* upgrades and any limits.                                                   *)
EXTENDS AccountCapabilities, FiniteSetTheorems, TLAPS

(* The hub counts the streams that hold a lease. *)
Subscribed == {c \in Streams : pc[c] \in Leased}
Counted == IsFiniteSet(Subscribed) /\ subscribers = Cardinality(Subscribed)

(* A stream has claims once its bearer was accepted; until it subscribes it   *)
(* has read no generation, and afterwards none that is still to come.         *)
Opened ==
    \A c \in Streams :
        /\ pc[c] = "new" <=> claims[c] = None
        /\ pc[c] \in {"new", "authenticated"} => loaded[c] = 0 /\ validated[c] = 0
        /\ loaded[c] \in Nat /\ validated[c] \in Nat
        /\ pc[c] \in Leased => loaded[c] <= generation /\ validated[c] <= generation

(* A stream that was told has to ask again, and an answer it already has is   *)
(* too old to be accepted.                                                    *)
Warned ==
    \A c \in Streams : told[c] =>
        /\ pc[c] # "new" /\ Gone(c)
        /\ pc[c] \in Leased => due[c] \/ validated[c] # generation
        /\ pc[c] \in {"answered", "current"} => loaded[c] # generation

(* A ticket was issued to the claims of its request; one that was taken is    *)
(* not in the store again, nor with two upgrades.                             *)
Issued ==
    /\ \A i \in Issues : ask[i] = "new" <=> claims[i] = None
    /\ \A i \in tickets : ask[i] = "issued"
    /\ \A u \in Redeems :
         /\ use[u] = "new" <=> paper[u] = None
         /\ paper[u] # None => ask[paper[u]] = "issued" /\ paper[u] \notin tickets
    /\ \A u, w \in Redeems : paper[u] # None /\ paper[u] = paper[w] => u = w

(* An upgrade that came too late stays too late. *)
Late == \A u \in dead : paper[u] # None /\ Gone(paper[u]) /\ use[u] # "admitted"

Inv == TypeOK /\ Counted /\ Opened /\ Warned /\ Issued /\ Late

----------------------------------------------------------------------------
(* Sessions, leases and queues. *)

(* A session that has ended does not return. *)
LEMMA EndedStays ==
    ASSUME TypeOK, NEW s \in Sids, status[s] = "ended",
           \/ \E t \in Sids : SignIn(t, {}) \/ Renew(t) \/ Lapse({t}) \/ End({t})
           \/ Bump
    PROVE  status'[s] = "ended"
  BY DEF TypeOK, SignIn, Renew, Lapse, End, Bump, Present

(* A step that moves no stream into or out of a lease leaves the count. *)
LEMMA LeasesKept ==
    ASSUME Counted, UNCHANGED subscribers,
           \A c \in Streams : pc'[c] \in Leased <=> pc[c] \in Leased
    PROVE  Counted'
<1>1. Subscribed' = Subscribed
  BY DEF Subscribed
<1>. QED
  BY <1>1 DEF Counted

(* A stream with a lease is counted. *)
LEMMA LeaseCounts ==
    ASSUME Counted, NEW c \in Streams, pc[c] \in Leased
    PROVE  subscribers \in Nat /\ subscribers >= 1
<1>1. Subscribed # {} /\ Cardinality(Subscribed) \in Nat
  BY FS_CardinalityType DEF Counted, Subscribed
<1>2. Cardinality(Subscribed) # 0
  BY <1>1, FS_EmptySet DEF Counted
<1>. QED
  BY <1>1, <1>2 DEF Counted

(* Two streams are counted twice: the last lease is nobody else's. *)
LEMMA LastLease ==
    ASSUME Counted, NEW c \in Streams, NEW d \in Streams, c # d,
           pc[c] \in Leased, pc[d] \in Leased
    PROVE  subscribers # 1
<1>1. IsFiniteSet(Subscribed \ {c})
      /\ Cardinality(Subscribed \ {c}) = Cardinality(Subscribed) - 1
  BY FS_RemoveElement DEF Counted, Subscribed
<1>2. d \in Subscribed \ {c} /\ Cardinality(Subscribed \ {c}) \in Nat
  BY <1>1, FS_CardinalityType DEF Subscribed
<1>3. Cardinality(Subscribed \ {c}) # 0
  BY <1>1, <1>2, FS_EmptySet
<1>4. Cardinality(Subscribed) \in Nat
  BY FS_CardinalityType DEF Counted
<1>. QED
  BY <1>1, <1>2, <1>3, <1>4 DEF Counted

(* A queue of notices stays one, within its bound. *)
LEMMA PushTyped ==
    ASSUME NEW q \in Seq(Notices), Len(q) <= Queue, NEW n \in {"revalidate", "change"}
    PROVE  Push(q, n) \in Seq(Notices) /\ Len(Push(q, n)) <= Queue
<1>1. CASE Len(q) < Queue
  <2>1. Push(q, n) = Append(q, n) /\ n \in Notices
    BY <1>1 DEF Push, Notices
  <2>. QED
    BY <1>1, <2>1, CapabilityAssumption
<1>2. CASE ~(Len(q) < Queue)
  <2>1. Push(q, n) = <<"lagged">> /\ "lagged" \in Notices
    BY <1>2 DEF Push, Notices
  <2>2. Len(<<"lagged">>) = 1 /\ <<"lagged">> \in Seq(Notices)
    BY <2>1
  <2>. QED
    BY <2>1, <2>2, CapabilityAssumption
<1>. QED
  BY <1>1, <1>2

(* Every receiver's queue stays one when a notice is broadcast. *)
LEMMA BroadcastTyped ==
    ASSUME TypeOK, NEW n \in {"revalidate", "change"}, Broadcast(n)
    PROVE  inbox' \in [Streams -> Seq(Notices)] /\ \A c \in Streams : Len(inbox'[c]) <= Queue
<1>1. \A c \in Streams : inbox'[c] \in Seq(Notices) /\ Len(inbox'[c]) <= Queue
  <2>. TAKE c \in Streams
  <2>1. inbox[c] \in Seq(Notices) /\ Len(inbox[c]) <= Queue
    BY DEF TypeOK
  <2>2. inbox'[c] = IF pc[c] \in Leased THEN Push(inbox[c], n) ELSE inbox[c]
    BY DEF Broadcast
  <2>. QED
    BY <2>1, <2>2, PushTyped
<1>. QED
  BY <1>1 DEF Broadcast

(* A session is signed in with claims. *)
LEMMA AuthenticateTyped ==
    ASSUME TypeOK, NEW h \in Holders, Authenticate(h)
    PROVE  /\ claims' \in [Holders -> Claims \cup {None}] /\ claims'[h] # None
           /\ \A g \in Holders : g # h => claims'[g] = claims[g]
  BY CapabilityAssumption DEF TypeOK, Authenticate, Claims

----------------------------------------------------------------------------
(* Every step keeps Inv. *)

(* Sessions are revoked. *)
LEMMA RevocationInv ==
    ASSUME Inv, Revocation
    PROVE  Inv'
<1>. USE CapabilityAssumption DEF Inv, Revocation
<1>a. /\ status' \in [Sids -> Statuses] /\ stamp' \in [Sids -> Nat] /\ version' \in Nat
  BY DEF TypeOK, Statuses, End, Bump
<1>b. \A s \in Sids : status[s] = "ended" => status'[s] = "ended"
  BY EndedStays
<1>1. TypeOK'
  BY <1>a DEF TypeOK, hub, streamVars, ticketVars, Leased
<1>2. Counted'
  BY LeasesKept DEF TypeOK, Leased, hub, streamVars
<1>3. Opened'
  BY DEF TypeOK, Opened, Leased, Holders, hub, streamVars
<1>4. Warned'
  BY <1>b DEF TypeOK, streamVars, hub, Opened, Warned, Gone, Holders, Claims
<1>5. Issued'
  BY DEF TypeOK, Issued, Holders, ticketVars
<1>6. Late'
  <2>1. ASSUME NEW u \in dead
        PROVE  claims[paper[u]].sid \in Sids
    <3>1. paper[u] \in Issues /\ claims[paper[u]] # None
      BY DEF TypeOK, Issued, Late
    <3>. QED
      BY <3>1 DEF TypeOK, Holders, Claims
  <2>. QED
    BY <1>b, <2>1 DEF ticketVars, Late, Gone
<1>. QED
  BY <1>1, <1>2, <1>3, <1>4, <1>5, <1>6

(* Sessions come, lapse and are renewed. *)
LEMMA SessionMovesInv ==
    ASSUME Inv, SessionMoves
    PROVE  Inv'
<1>. USE CapabilityAssumption DEF Inv, SessionMoves
<1>a. /\ status' \in [Sids -> Statuses] /\ stamp' \in [Sids -> Nat] /\ version' \in Nat
  BY DEF TypeOK, Statuses, SignIn, Lapse, Renew, Present
<1>b. \A s \in Sids : status[s] = "ended" => status'[s] = "ended"
  BY EndedStays
<1>1. TypeOK'
  BY <1>a DEF TypeOK, hub, streamVars, ticketVars, Leased
<1>2. Counted'
  BY LeasesKept DEF TypeOK, Leased, hub, streamVars
<1>3. Opened'
  BY DEF TypeOK, Opened, Leased, Holders, hub, streamVars
<1>4. Warned'
  BY <1>b DEF TypeOK, streamVars, hub, Opened, Warned, Gone, Holders, Claims
<1>5. Issued'
  BY DEF TypeOK, Issued, Holders, ticketVars
<1>6. Late'
  <2>1. ASSUME NEW u \in dead
        PROVE  claims[paper[u]].sid \in Sids
    <3>1. paper[u] \in Issues /\ claims[paper[u]] # None
      BY DEF TypeOK, Issued, Late
    <3>. QED
      BY <3>1 DEF TypeOK, Holders, Claims
  <2>. QED
    BY <1>b, <2>1 DEF ticketVars, Late, Gone
<1>. QED
  BY <1>1, <1>2, <1>3, <1>4, <1>5, <1>6

(* A revocation is announced: whoever holds a lease has a generation to catch up with. *)
LEMMA AnnounceInv ==
    ASSUME Inv, Announce
    PROVE  Inv'
<1>. USE CapabilityAssumption DEF Inv, Announce
<1>1. TypeOK'
  <2>1. inbox' \in [Streams -> Seq(Notices)] /\ \A c \in Streams : Len(inbox'[c]) <= Queue
    BY BroadcastTyped
  <2>2. generation' \in Nat /\ told' \in [Streams -> BOOLEAN]
    BY DEF TypeOK
  <2>. QED
    BY <2>1, <2>2 DEF TypeOK, authority, hub, ticketVars, Leased
<1>2. Counted'
  BY LeasesKept DEF TypeOK, Leased, hub, streamVars
<1>3. Opened'
  BY DEF TypeOK, Opened, Leased, Holders, hub, streamVars
<1>4. Warned'
  <2>1. ASSUME NEW c \in Streams, told'[c]
        PROVE  /\ pc[c] # "new" /\ Gone(c)
               /\ pc[c] \in Leased => validated[c] # generation' /\ loaded[c] # generation'
    <3>1. pc[c] # "new" /\ Gone(c)
      BY <2>1 DEF TypeOK, Opened, Warned
    <3>2. ASSUME pc[c] \in Leased
          PROVE  validated[c] # generation' /\ loaded[c] # generation'
      <4>1. subscribers # 0 /\ generation' = generation + 1
        BY <3>2, LeaseCounts
      <4>2. /\ validated[c] <= generation /\ loaded[c] <= generation
            /\ validated[c] \in Nat /\ loaded[c] \in Nat /\ generation \in Nat
        BY <3>2 DEF Opened, TypeOK
      <4>. QED
        BY <4>1, <4>2
    <3>. QED
      BY <3>1, <3>2
  <2>. QED
    BY <2>1 DEF Warned, Gone, Leased, authority
<1>5. Issued'
  BY DEF TypeOK, Issued, Holders, ticketVars
<1>6. Late'
  BY DEF TypeOK, Issued, Late, Gone, authority, ticketVars
<1>. QED
  BY <1>1, <1>2, <1>3, <1>4, <1>5, <1>6

(* It is not. *)
LEMMA LostInv ==
    ASSUME Inv, AnnouncementLost
    PROVE  Inv'
<1>. USE CapabilityAssumption DEF Inv, AnnouncementLost
<1>1. TypeOK'
  BY DEF TypeOK, Leased, authority, hub, streamVars, ticketVars
<1>2. Counted'
  BY LeasesKept DEF TypeOK, Leased, hub, streamVars
<1>3. Opened'
  BY DEF TypeOK, Opened, Leased, Holders, hub, streamVars
<1>4. Warned'
  BY DEF TypeOK, Opened, Warned, Gone, Leased, Holders, authority, hub, streamVars
<1>5. Issued'
  BY DEF TypeOK, Issued, Holders, ticketVars
<1>6. Late'
  BY DEF TypeOK, Issued, Late, Gone, authority, ticketVars
<1>. QED
  BY <1>1, <1>2, <1>3, <1>4, <1>5, <1>6

(* A change is announced. *)
LEMMA ChangedInv ==
    ASSUME Inv, Changed
    PROVE  Inv'
<1>. USE CapabilityAssumption DEF Inv, Changed
<1>1. TypeOK'
  BY BroadcastTyped DEF TypeOK, authority, hub, ticketVars, Leased
<1>2. Counted'
  BY LeasesKept DEF TypeOK, Leased, hub, streamVars
<1>3. Opened'
  BY DEF TypeOK, Opened, Leased, Holders, hub, streamVars
<1>4. Warned'
  BY DEF TypeOK, Opened, Warned, Gone, Leased, Holders, authority, hub, streamVars
<1>5. Issued'
  BY DEF TypeOK, Issued, Holders, ticketVars
<1>6. Late'
  BY DEF TypeOK, Issued, Late, Gone, authority, ticketVars
<1>. QED
  BY <1>1, <1>2, <1>3, <1>4, <1>5, <1>6

(* The server drains. *)
LEMMA StartDrainInv ==
    ASSUME Inv, StartDrain
    PROVE  Inv'
<1>. USE CapabilityAssumption DEF Inv, StartDrain
<1>1. TypeOK'
  BY DEF TypeOK, Leased, authority, hub, streamVars, ticketVars
<1>2. Counted'
  BY LeasesKept DEF TypeOK, Leased, hub, streamVars
<1>3. Opened'
  BY DEF TypeOK, Opened, Leased, Holders, hub, streamVars
<1>4. Warned'
  BY DEF TypeOK, Opened, Warned, Gone, Leased, Holders, authority, hub, streamVars
<1>5. Issued'
  BY DEF TypeOK, Issued, Holders, ticketVars
<1>6. Late'
  BY DEF TypeOK, Issued, Late, Gone, authority, ticketVars
<1>. QED
  BY <1>1, <1>2, <1>3, <1>4, <1>5, <1>6

(* A stream's bearer is accepted. *)
LEMMA StreamOpenInv ==
    ASSUME Inv, NEW c \in Streams, StreamOpen(c)
    PROVE  Inv'
<1>. USE CapabilityAssumption DEF Inv, StreamOpen, Goto
<1>a. /\ claims' \in [Holders -> Claims \cup {None}] /\ claims'[c] # None
      /\ \A g \in Holders : g # c => claims'[g] = claims[g]
  BY AuthenticateTyped DEF Holders
<1>. HIDE DEF Authenticate
<1>1. TypeOK'
  BY <1>a DEF TypeOK, Leased, authority, hub, streamVars, ticketVars
<1>2. Counted'
  <2>1. \A d \in Streams : pc'[d] \in Leased <=> pc[d] \in Leased
    BY DEF TypeOK, Leased
  <2>. QED
    BY <2>1, LeasesKept DEF hub
<1>3. Opened'
  BY <1>a DEF TypeOK, Opened, Leased, Holders, hub, streamVars
<1>4. Warned'
  BY <1>a DEF TypeOK, Opened, Warned, Gone, Leased, Holders, authority, hub, streamVars
<1>5. Issued'
  <2>1. \A i \in Issues : claims'[i] = claims[i]
    BY <1>a DEF Holders
  <2>. QED
    BY <2>1 DEF Issued, ticketVars
<1>6. Late'
  <2>1. ASSUME NEW u \in dead
        PROVE  paper[u] \in Issues /\ claims'[paper[u]] = claims[paper[u]]
    <3>1. paper[u] \in Issues /\ ask[paper[u]] = "issued"
      BY DEF TypeOK, Issued, Late
    <3>2. paper[u] # c
      BY <3>1
    <3>. QED
      BY <1>a, <3>1, <3>2 DEF Holders
  <2>. QED
    BY <2>1 DEF Late, Gone, authority, ticketVars
<1>. QED
  BY <1>1, <1>2, <1>3, <1>4, <1>5, <1>6

(* It subscribes, and must ask at once. *)
LEMMA SubscribeInv ==
    ASSUME Inv, NEW c \in Streams, Subscribe(c)
    PROVE  Inv'
<1>. USE CapabilityAssumption DEF Inv, Subscribe, Goto
<1>1. TypeOK'
  <2>1. subscribers' \in 0..MaxStreams
    BY DEF TypeOK
  <2>. QED
    BY <2>1 DEF TypeOK, authority, ticketVars, Leased
<1>2. Counted'
  <2>1. CASE pc'[c] = "loading"
    <3>1. Subscribed' = Subscribed \cup {c} /\ c \notin Subscribed /\ subscribers' = subscribers + 1
      BY <2>1 DEF Subscribed, TypeOK, Leased
    <3>2. /\ IsFiniteSet(Subscribed \cup {c})
          /\ Cardinality(Subscribed \cup {c}) = Cardinality(Subscribed) + 1
      BY <3>1, FS_AddElement DEF Counted
    <3>. QED
      BY <3>1, <3>2 DEF Counted
  <2>2. CASE pc'[c] = "ended"
    <3>1. \A d \in Streams : pc'[d] \in Leased <=> pc[d] \in Leased
      BY <2>2 DEF TypeOK, Leased
    <3>2. UNCHANGED subscribers
      BY <2>2 DEF TypeOK
    <3>. QED
      BY <3>1, <3>2, LeasesKept
  <2>. QED
    BY <2>1, <2>2 DEF TypeOK
<1>3. Opened'
  BY DEF TypeOK, Opened, Leased, Holders, hub, streamVars
<1>4. Warned'
  BY DEF TypeOK, Opened, Warned, Gone, Leased, Holders, authority, hub, streamVars
<1>5. Issued'
  BY DEF TypeOK, Issued, Holders, ticketVars
<1>6. Late'
  BY DEF TypeOK, Issued, Late, Gone, authority, ticketVars
<1>. QED
  BY <1>1, <1>2, <1>3, <1>4, <1>5, <1>6

(* A stream ends and drops its lease. *)
LEMMA CloseInv ==
    ASSUME Inv, NEW c \in Streams, Close(c)
    PROVE  Inv'
<1>. USE CapabilityAssumption DEF Inv, Close, Goto
<1>a. subscribers \in Nat /\ subscribers >= 1
  BY LeaseCounts
<1>b. \A d \in Streams : d # c /\ pc[d] \in Leased => UNCHANGED generation
  BY LastLease
<1>1. TypeOK'
  BY <1>a, <1>b DEF TypeOK, Leased, authority, hub, streamVars, ticketVars
<1>2. Counted'
  <2>1. Subscribed' = Subscribed \ {c} /\ c \in Subscribed
    BY DEF Subscribed, TypeOK, Leased
  <2>2. /\ IsFiniteSet(Subscribed \ {c})
        /\ Cardinality(Subscribed \ {c}) = Cardinality(Subscribed) - 1
    BY <2>1, FS_RemoveElement DEF Counted
  <2>. QED
    BY <2>1, <2>2 DEF Counted
<1>3. Opened'
  BY <1>a, <1>b DEF TypeOK, Opened, Leased, Holders, hub, streamVars
<1>4. Warned'
  BY <1>a, <1>b DEF TypeOK, Opened, Warned, Gone, Leased, Holders, authority, hub,
     streamVars
<1>5. Issued'
  BY <1>a, <1>b DEF TypeOK, Issued, Holders, ticketVars
<1>6. Late'
  BY <1>a, <1>b DEF TypeOK, Issued, Late, Gone, authority, ticketVars
<1>. QED
  BY <1>1, <1>2, <1>3, <1>4, <1>5, <1>6

(* It reads the generation. *)
LEMMA LoadInv ==
    ASSUME Inv, NEW c \in Streams, Load(c)
    PROVE  Inv'
<1>. USE CapabilityAssumption DEF Inv, Load, NeedsQuery, Goto
<1>1. TypeOK'
  BY DEF TypeOK, Leased, authority, hub, streamVars, ticketVars
<1>2. Counted'
  <2>1. \A d \in Streams : pc'[d] \in Leased <=> pc[d] \in Leased
    BY DEF TypeOK, Leased
  <2>. QED
    BY <2>1, LeasesKept DEF hub
<1>3. Opened'
  BY DEF TypeOK, Opened, Leased, Holders, hub, streamVars
<1>4. Warned'
  BY DEF TypeOK, Opened, Warned, Gone, Leased, Holders, authority, hub, streamVars
<1>5. Issued'
  BY DEF TypeOK, Issued, Holders, ticketVars
<1>6. Late'
  BY DEF TypeOK, Issued, Late, Gone, authority, ticketVars
<1>. QED
  BY <1>1, <1>2, <1>3, <1>4, <1>5, <1>6

(* The database answers. *)
LEMMA QueryInv ==
    ASSUME Inv, NEW c \in Streams, Query(c)
    PROVE  Inv'
<1>. USE CapabilityAssumption DEF Inv, Query, Holds, Valid, Goto
<1>1. TypeOK'
  BY DEF TypeOK, Leased, authority, hub, streamVars, ticketVars
<1>2. Counted'
  <2>1. \A d \in Streams : pc'[d] \in Leased <=> pc[d] \in Leased
    BY DEF TypeOK, Leased
  <2>. QED
    BY <2>1, LeasesKept DEF hub
<1>3. Opened'
  BY DEF TypeOK, Opened, Leased, Holders, hub, streamVars
<1>4. Warned'
  BY DEF TypeOK, Opened, Warned, Gone, Leased, Holders, authority, hub, streamVars
<1>5. Issued'
  BY DEF TypeOK, Issued, Holders, ticketVars
<1>6. Late'
  BY DEF TypeOK, Issued, Late, Gone, authority, ticketVars
<1>. QED
  BY <1>1, <1>2, <1>3, <1>4, <1>5, <1>6

(* The answer is accepted: nobody told has one. *)
LEMMA AcceptInv ==
    ASSUME Inv, NEW c \in Streams, Accept(c)
    PROVE  Inv'
<1>. USE CapabilityAssumption DEF Inv, Accept, Unmoved, Goto
<1>1. TypeOK'
  BY DEF TypeOK, Leased, authority, hub, streamVars, ticketVars
<1>2. Counted'
  <2>1. \A d \in Streams : pc'[d] \in Leased <=> pc[d] \in Leased
    BY DEF TypeOK, Leased
  <2>. QED
    BY <2>1, LeasesKept DEF hub
<1>3. Opened'
  BY DEF TypeOK, Opened, Leased, Holders, hub, streamVars
<1>4. Warned'
  BY DEF TypeOK, Opened, Warned, Gone, Leased, Holders, authority, hub, streamVars
<1>5. Issued'
  BY DEF TypeOK, Issued, Holders, ticketVars
<1>6. Late'
  BY DEF TypeOK, Issued, Late, Gone, authority, ticketVars
<1>. QED
  BY <1>1, <1>2, <1>3, <1>4, <1>5, <1>6

(* An update is delivered. *)
LEMMA DeliveredInv ==
    ASSUME Inv, NEW c \in Streams, Delivered(c)
    PROVE  Inv'
<1>. USE CapabilityAssumption DEF Inv, Delivered, Goto
<1>1. TypeOK'
  BY DEF TypeOK, Leased, authority, hub, streamVars, ticketVars
<1>2. Counted'
  <2>1. \A d \in Streams : pc'[d] \in Leased <=> pc[d] \in Leased
    BY DEF TypeOK, Leased
  <2>. QED
    BY <2>1, LeasesKept DEF hub
<1>3. Opened'
  BY DEF TypeOK, Opened, Leased, Holders, hub, streamVars
<1>4. Warned'
  BY DEF TypeOK, Opened, Warned, Gone, Leased, Holders, authority, hub, streamVars
<1>5. Issued'
  BY DEF TypeOK, Issued, Holders, ticketVars
<1>6. Late'
  BY DEF TypeOK, Issued, Late, Gone, authority, ticketVars
<1>. QED
  BY <1>1, <1>2, <1>3, <1>4, <1>5, <1>6

(* A validation falls due. *)
LEMMA DueInv ==
    ASSUME Inv, NEW c \in Streams, Due(c)
    PROVE  Inv'
<1>. USE CapabilityAssumption DEF Inv, Due
<1>1. TypeOK'
  BY DEF TypeOK, Leased, authority, hub, streamVars, ticketVars
<1>2. Counted'
  <2>1. \A d \in Streams : pc'[d] \in Leased <=> pc[d] \in Leased
    BY DEF TypeOK, Leased
  <2>. QED
    BY <2>1, LeasesKept DEF hub
<1>3. Opened'
  BY DEF TypeOK, Opened, Leased, Holders, hub, streamVars
<1>4. Warned'
  BY DEF TypeOK, Opened, Warned, Gone, Leased, Holders, authority, hub, streamVars
<1>5. Issued'
  BY DEF TypeOK, Issued, Holders, ticketVars
<1>6. Late'
  BY DEF TypeOK, Issued, Late, Gone, authority, ticketVars
<1>. QED
  BY <1>1, <1>2, <1>3, <1>4, <1>5, <1>6

(* It wakes to validate. *)
LEMMA WakeInv ==
    ASSUME Inv, NEW c \in Streams, Wake(c)
    PROVE  Inv'
<1>. USE CapabilityAssumption DEF Inv, Wake, Goto
<1>1. TypeOK'
  BY DEF TypeOK, Leased, authority, hub, streamVars, ticketVars
<1>2. Counted'
  <2>1. \A d \in Streams : pc'[d] \in Leased <=> pc[d] \in Leased
    BY DEF TypeOK, Leased
  <2>. QED
    BY <2>1, LeasesKept DEF hub
<1>3. Opened'
  BY DEF TypeOK, Opened, Leased, Holders, hub, streamVars
<1>4. Warned'
  BY DEF TypeOK, Opened, Warned, Gone, Leased, Holders, authority, hub, streamVars
<1>5. Issued'
  BY DEF TypeOK, Issued, Holders, ticketVars
<1>6. Late'
  BY DEF TypeOK, Issued, Late, Gone, authority, ticketVars
<1>. QED
  BY <1>1, <1>2, <1>3, <1>4, <1>5, <1>6

(* It receives a notice. *)
LEMMA ReceiveInv ==
    ASSUME Inv, NEW c \in Streams, Receive(c)
    PROVE  Inv'
<1>. USE CapabilityAssumption DEF Inv, Receive, Goto
<1>1. TypeOK'
  <2>1. inbox' \in [Streams -> Seq(Notices)] /\ \A d \in Streams : Len(inbox'[d]) <= Queue
    BY DEF TypeOK
  <2>. QED
    BY <2>1 DEF TypeOK, authority, hub, ticketVars, Leased
<1>2. Counted'
  <2>1. \A d \in Streams : pc'[d] \in Leased <=> pc[d] \in Leased
    BY DEF TypeOK, Leased
  <2>. QED
    BY <2>1, LeasesKept DEF hub
<1>3. Opened'
  BY DEF TypeOK, Opened, Leased, Holders, hub, streamVars
<1>4. Warned'
  BY DEF TypeOK, Opened, Warned, Gone, Leased, Holders, authority, hub, streamVars
<1>5. Issued'
  BY DEF TypeOK, Issued, Holders, ticketVars
<1>6. Late'
  BY DEF TypeOK, Issued, Late, Gone, authority, ticketVars
<1>. QED
  BY <1>1, <1>2, <1>3, <1>4, <1>5, <1>6

(* A ticket's bearer is accepted. *)
LEMMA TicketAskInv ==
    ASSUME Inv, NEW i \in Issues, TicketAsk(i)
    PROVE  Inv'
<1>. USE CapabilityAssumption DEF Inv, TicketAsk
<1>a. /\ claims' \in [Holders -> Claims \cup {None}] /\ claims'[i] # None
      /\ \A g \in Holders : g # i => claims'[g] = claims[g]
  BY AuthenticateTyped DEF Holders
<1>. HIDE DEF Authenticate
<1>1. TypeOK'
  BY <1>a DEF TypeOK, Leased, authority, hub, streamVars, ticketVars
<1>2. Counted'
  BY LeasesKept DEF TypeOK, Leased, hub, streamVars
<1>3. Opened'
  BY <1>a DEF TypeOK, Opened, Leased, Holders, hub, streamVars
<1>4. Warned'
  <2>1. \A c \in Streams : claims'[c] = claims[c]
    BY <1>a DEF Holders
  <2>. QED
    BY <2>1 DEF Warned, Gone, authority, hub, streamVars
<1>5. Issued'
  BY <1>a DEF TypeOK, Issued, Holders, ticketVars
<1>6. Late'
  <2>1. ASSUME NEW u \in dead
        PROVE  paper[u] \in Issues /\ claims'[paper[u]] = claims[paper[u]]
    <3>1. paper[u] \in Issues /\ ask[paper[u]] = "issued"
      BY DEF TypeOK, Issued, Late
    <3>2. paper[u] # i
      BY <3>1
    <3>. QED
      BY <1>a, <3>1, <3>2 DEF Holders
  <2>. QED
    BY <2>1 DEF Late, Gone, authority, ticketVars
<1>. QED
  BY <1>1, <1>2, <1>3, <1>4, <1>5, <1>6

(* A ticket is issued. *)
LEMMA TicketIssueInv ==
    ASSUME Inv, NEW i \in Issues, TicketIssue(i)
    PROVE  Inv'
<1>. USE CapabilityAssumption DEF Inv, TicketIssue, Admits
<1>1. TypeOK'
  BY DEF TypeOK, Leased, authority, hub, streamVars, ticketVars
<1>2. Counted'
  BY LeasesKept DEF TypeOK, Leased, hub, streamVars
<1>3. Opened'
  BY DEF TypeOK, Opened, Leased, Holders, hub, streamVars
<1>4. Warned'
  BY DEF TypeOK, Opened, Warned, Gone, Leased, Holders, authority, hub, streamVars
<1>5. Issued'
  BY DEF TypeOK, Issued, Holders, ticketVars
<1>6. Late'
  BY DEF TypeOK, Issued, Late, Gone, authority, ticketVars
<1>. QED
  BY <1>1, <1>2, <1>3, <1>4, <1>5, <1>6

(* A ticket is refused. *)
LEMMA TicketRefusedInv ==
    ASSUME Inv, NEW i \in Issues, TicketRefused(i)
    PROVE  Inv'
<1>. USE CapabilityAssumption DEF Inv, TicketRefused
<1>1. TypeOK'
  BY DEF TypeOK, Leased, authority, hub, streamVars, ticketVars
<1>2. Counted'
  BY LeasesKept DEF TypeOK, Leased, hub, streamVars
<1>3. Opened'
  BY DEF TypeOK, Opened, Leased, Holders, hub, streamVars
<1>4. Warned'
  BY DEF TypeOK, Opened, Warned, Gone, Leased, Holders, authority, hub, streamVars
<1>5. Issued'
  BY DEF TypeOK, Issued, Holders, ticketVars
<1>6. Late'
  BY DEF TypeOK, Issued, Late, Gone, authority, ticketVars
<1>. QED
  BY <1>1, <1>2, <1>3, <1>4, <1>5, <1>6

(* A ticket expires. *)
LEMMA TicketExpiresInv ==
    ASSUME Inv, TicketExpires
    PROVE  Inv'
<1>. USE CapabilityAssumption DEF Inv, TicketExpires
<1>1. TypeOK'
  BY DEF TypeOK, Leased, authority, hub, streamVars, ticketVars
<1>2. Counted'
  BY LeasesKept DEF TypeOK, Leased, hub, streamVars
<1>3. Opened'
  BY DEF TypeOK, Opened, Leased, Holders, hub, streamVars
<1>4. Warned'
  BY DEF TypeOK, Opened, Warned, Gone, Leased, Holders, authority, hub, streamVars
<1>5. Issued'
  BY DEF TypeOK, Issued, Holders, ticketVars
<1>6. Late'
  BY DEF TypeOK, Issued, Late, Gone, authority, ticketVars
<1>. QED
  BY <1>1, <1>2, <1>3, <1>4, <1>5, <1>6

(* An upgrade takes its ticket. *)
LEMMA TicketTakeInv ==
    ASSUME Inv, NEW u \in Redeems, TicketTake(u)
    PROVE  Inv'
<1>. USE CapabilityAssumption DEF Inv, TicketTake, Spent
<1>1. TypeOK'
  BY DEF TypeOK, Leased, authority, hub, streamVars, ticketVars
<1>2. Counted'
  BY LeasesKept DEF TypeOK, Leased, hub, streamVars
<1>3. Opened'
  BY DEF TypeOK, Opened, Leased, Holders, hub, streamVars
<1>4. Warned'
  BY DEF TypeOK, Opened, Warned, Gone, Leased, Holders, authority, hub, streamVars
<1>5. Issued'
  BY DEF TypeOK, Issued, Holders, ticketVars
<1>6. Late'
  BY DEF TypeOK, Issued, Late, Gone, authority, ticketVars
<1>. QED
  BY <1>1, <1>2, <1>3, <1>4, <1>5, <1>6

(* The database judges its claims. *)
LEMMA TicketRedeemInv ==
    ASSUME Inv, NEW u \in Redeems, TicketRedeem(u)
    PROVE  Inv'
<1>. USE CapabilityAssumption DEF Inv, TicketRedeem, Holds, Valid
<1>1. TypeOK'
  BY DEF TypeOK, Leased, authority, hub, streamVars, ticketVars
<1>2. Counted'
  BY LeasesKept DEF TypeOK, Leased, hub, streamVars
<1>3. Opened'
  BY DEF TypeOK, Opened, Leased, Holders, hub, streamVars
<1>4. Warned'
  BY DEF TypeOK, Opened, Warned, Gone, Leased, Holders, authority, hub, streamVars
<1>5. Issued'
  BY DEF TypeOK, Issued, Holders, ticketVars
<1>6. Late'
  BY DEF TypeOK, Issued, Late, Gone, authority, ticketVars
<1>. QED
  BY <1>1, <1>2, <1>3, <1>4, <1>5, <1>6

----------------------------------------------------------------------------
(* The invariant. *)

(* Inv holds at the start. *)
LEMMA InitInv == Init => Inv
<1>. SUFFICES ASSUME Init
              PROVE  Inv
  OBVIOUS
<1>. USE CapabilityAssumption DEF Init
<1>1. TypeOK
  <2>1. inbox \in [Streams -> Seq(Notices)] /\ \A c \in Streams : Len(inbox[c]) <= Queue
    OBVIOUS
  <2>2. subscribers \in 0..MaxStreams
    OBVIOUS
  <2>. QED
    BY <2>1, <2>2 DEF TypeOK, Statuses, Holders, Leased
<1>2. Counted
  <2>1. Subscribed = {}
    BY DEF Subscribed, Leased
  <2>. QED
    BY <2>1, FS_EmptySet DEF Counted
<1>3. Opened /\ Warned /\ Issued /\ Late
  BY DEF Opened, Warned, Issued, Late, Leased, Holders
<1>. QED
  BY <1>1, <1>2, <1>3 DEF Inv

(* Every step of the system keeps Inv, and so does a step of none of it. *)
LEMMA NextInv ==
    ASSUME Inv, [Next]_vars
    PROVE  Inv'
<1>1. ASSUME NEW c \in Streams, StreamOpen(c) \/ Leave(c) \/ Due(c) \/ Poll(c)
      PROVE  Inv'
  BY <1>1, StreamOpenInv, DueInv, SubscribeInv, LoadInv, QueryInv, AcceptInv, DeliveredInv,
     WakeInv, ReceiveInv, CloseInv DEF Leave, Poll, Reject, Lagged
<1>2. ASSUME NEW i \in Issues, TicketAsk(i) \/ TicketIssue(i) \/ TicketRefused(i)
      PROVE  Inv'
  BY <1>2, TicketAskInv, TicketIssueInv, TicketRefusedInv
<1>3. ASSUME NEW u \in Redeems, TicketTake(u) \/ TicketRedeem(u)
      PROVE  Inv'
  BY <1>3, TicketTakeInv, TicketRedeemInv
<1>4. CASE UNCHANGED vars
  <2>1. TypeOK'
    BY <1>4 DEF vars, authority, hub, streamVars, ticketVars, Inv, TypeOK
  <2>2. Counted'
    BY <1>4, LeasesKept DEF vars, hub, streamVars, Inv
  <2>3. Opened' /\ Warned' /\ Issued' /\ Late'
    BY <1>4 DEF vars, authority, hub, streamVars, ticketVars, Inv, Opened, Warned, Issued,
       Late, Gone
  <2>. QED
    BY <2>1, <2>2, <2>3 DEF Inv
<1>. QED
  BY <1>1, <1>2, <1>3, <1>4, RevocationInv, SessionMovesInv, AnnounceInv, LostInv,
     ChangedInv,
     StartDrainInv, TicketExpiresInv DEF Next

(* The inductive invariant holds of every reachable state: a stream that was  *)
(* told has to ask again, and a ticket that was taken is with one upgrade.    *)
THEOREM InvHolds == Spec => []Inv
<1>1. Init => Inv
  BY InitInv
<1>2. Inv /\ [Next]_vars => Inv'
  BY NextInv
<1>. QED
  BY <1>1, <1>2, PTL DEF Spec

(* No lease is dropped twice: the hub's count of subscribers stays in range,  *)
(* and so do the queues of the receivers (updates.rs, Hub and Lease).         *)
THEOREM TypeCorrect == Spec => []TypeOK
<1>1. Inv => TypeOK
  BY DEF Inv
<1>. QED
  BY <1>1, InvHolds, PTL

(* A ticket admits once, and never with a session that had ended when it was  *)
(* presented (ws_tickets.rs:146-147).                                         *)
THEOREM TicketsAreUsedOnce == Spec => []TicketsAdmitOnce
<1>1. Inv => TicketsAdmitOnce
  BY DEF Inv, TypeOK, Issued, Late, TicketsAdmitOnce
<1>. QED
  BY <1>1, InvHolds, PTL

----------------------------------------------------------------------------
(* The action property. *)

(* A stream starts to deliver by accepting an answer. *)
LEMMA OnlyAcceptDelivers ==
    ASSUME Inv, [Next]_vars, NEW c \in Streams,
           pc[c] # "delivering", pc'[c] = "delivering"
    PROVE  Accept(c)
<1>. USE DEF Inv, TypeOK, Goto
<1>1. PICK d \in Streams : StreamOpen(d) \/ Leave(d) \/ Due(d) \/ Poll(d)
  BY DEF Next, Revocation, SessionMoves, Announce, AnnouncementLost, Changed, StartDrain,
     TicketAsk, TicketIssue, TicketRefused, TicketExpires, TicketTake, TicketRedeem, vars,
     streamVars
<1>2. CASE Accept(d)
  BY <1>2 DEF Accept
<1>3. CASE Subscribe(d) \/ Load(d) \/ Query(d)
  BY <1>3 DEF Subscribe, Load, Query
<1>4. CASE StreamOpen(d) \/ Due(d) \/ Delivered(d) \/ Wake(d) \/ Receive(d)
  BY <1>4 DEF StreamOpen, Due, Delivered, Wake, Receive
<1>5. CASE Leave(d) \/ Reject(d) \/ Lagged(d)
  BY <1>5 DEF Leave, Reject, Lagged, Close
<1>. QED
  BY <1>1, <1>2, <1>3, <1>4, <1>5 DEF Poll

(* Once a revocation has been announced no stream of a session it ended       *)
(* begins another delivery: neither one that was being validated, nor one     *)
(* that subscribed just afterwards (updates.rs:231-249).                      *)
THEOREM ToldStreamsAreSilent == Spec => SilentOnceTold
<1>1. Inv /\ [Next]_vars
        => [\A c \in Streams :
              pc[c] # "delivering" /\ pc'[c] = "delivering" => ~told[c]]_vars
  <2>. SUFFICES ASSUME Inv, [Next]_vars, NEW c \in Streams,
                       pc[c] # "delivering", pc'[c] = "delivering"
                PROVE  ~told[c]
    OBVIOUS
  <2>1. Accept(c)
    BY OnlyAcceptDelivers
  <2>. QED
    BY <2>1 DEF Accept, Unmoved, Inv, Warned
<1>. QED
  BY <1>1, InvHolds, PTL DEF Spec, SilentOnceTold
==============================================================================
