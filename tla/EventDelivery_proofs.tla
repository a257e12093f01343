-------------------------- MODULE EventDelivery_proofs --------------------------
(***************************************************************************)
(* Proofs about EventDelivery, for any objects, contents, requests,        *)
(* capacity and number of changes.                                         *)
(***************************************************************************)
EXTENDS EventDelivery, TLAPS

DeliveryInv == DeliveryTypeOK /\ OwedIsPending

-----------------------------------------------------------------------------
\* Each helper maps an object to a sequence of requests.
LEMMA RequestsType ==
    ASSUME helper \in {"mapFunc", "selector", "owner"}, NEW v \in Contents
    PROVE  RequestsOf(v) \in Seq(Owners) /\ Asked(v) \subseteq Owners
  <1>1. RequestsOf(v) \in Seq(Owners)
    <2>1. MapFunc[v] \in Seq(Owners) /\ OwnerOf[v] \in Owners \cup {None} /\ <<>> \in Seq(Owners)
      BY DeliveryAssumption
    <2>2. OwnerOf[v] # None => <<OwnerOf[v]>> \in Seq(Owners)
      BY <2>1
    <2>3. QED  BY <2>1, <2>2 DEF RequestsOf, SelectedRequests, OwnerRequests
  <1>2. QED  BY <1>1 DEF Asked, ElementsOf

\* A sequence's elements are its head and those of its tail.
LEMMA HeadAndTail ==
    ASSUME NEW S, NEW s \in Seq(S), s # <<>>
    PROVE  /\ Head(s) \in S /\ Tail(s) \in Seq(S) /\ Len(Tail(s)) = Len(s) - 1
           /\ \A n \in 1..Len(s) : s[n] = Head(s) \/ \E m \in 1..Len(Tail(s)) : Tail(s)[m] = s[n]
  <1>1. Head(s) \in S /\ Tail(s) \in Seq(S) /\ Len(Tail(s)) = Len(s) - 1 /\ Len(s) \in Nat
    OBVIOUS
  <1>2. ASSUME NEW n \in 1..Len(s), n # 1
        PROVE  n - 1 \in 1..Len(Tail(s)) /\ Tail(s)[n - 1] = s[n]
    BY <1>1, <1>2
  <1>3. QED  BY <1>1, <1>2

\* What is appended is among the elements, and so is what was there.
LEMMA Appended ==
    ASSUME NEW S, NEW s \in Seq(S), NEW e \in S
    PROVE  /\ Append(s, e) \in Seq(S) /\ Len(Append(s, e)) = Len(s) + 1
           /\ Append(s, e)[Len(s) + 1] = e
           /\ \A n \in 1..Len(s) : Append(s, e)[n] = s[n]
  OBVIOUS

-----------------------------------------------------------------------------
\* Nothing is owed at first.
LEMMA DeliveryInvInit == DeliveryInit => DeliveryInv
  BY DeliveryAssumption DEF DeliveryInit, DeliveryInv, DeliveryTypeOK, OwedIsPending

\* The informer queues the event that asks for what becomes owed.
LEMMA SyncKeeps ==
    ASSUME DeliveryInv, NEW o \in Objects, Sync(o)
    PROVE  DeliveryInv'
  <1> USE DEF DeliveryInv
  <1> DEFINE kind == IF cluster[o] = None THEN "delete"
                     ELSE IF cache[o] = None THEN "add" ELSE "update"
             v == IF cluster[o] = None THEN cache[o] ELSE cluster[o]
             event(t) == [kind |-> kind, content |-> v, tombstone |-> t]
  <1>1. v \in Contents
    BY DEF Sync, DeliveryTypeOK
  <1>2. PICK t \in BOOLEAN : inbox' = Append(inbox, event(t)) /\ owed' = owed \cup Asked(v)
    BY DEF Sync
  <1>3. event(t) \in Events
    BY <1>1 DEF Events
  <1> HIDE DEF kind, v
  <1>4. /\ inbox' \in Seq(Events) /\ Len(inbox') = Len(inbox) + 1 /\ Len(inbox) \in Nat
        /\ inbox'[Len(inbox) + 1] = event(t)
        /\ \A n \in 1..Len(inbox) : inbox'[n] = inbox[n]
    BY <1>2, <1>3, Appended DEF DeliveryTypeOK
  <1>5. DeliveryTypeOK'
    BY <1>1, <1>2, <1>4, RequestsType DEF Sync, DeliveryTypeOK
  <1>6. \A x : Asked(x)' = Asked(x)
    BY DEF Sync, Asked, RequestsOf
  <1>7. PendingEvents \cup Asked(v) \subseteq PendingEvents'
    <2>1. event(t).content = v
      OBVIOUS
    <2>2. ASSUME NEW w \in PendingEvents
          PROVE  w \in PendingEvents'
      <3>1. PICK n \in 1..Len(inbox) : w \in Asked(inbox[n].content)
        BY DEF PendingEvents
      <3>2. n \in 1..Len(inbox') /\ w \in Asked(inbox[n].content)'
        BY <3>1, <1>4, <1>6
      <3>3. QED  BY <3>2 DEF PendingEvents
    <2>3. ASSUME NEW w \in Asked(v)
          PROVE  w \in PendingEvents'
      <3>1. Len(inbox) + 1 \in 1..Len(inbox')
        BY <1>4
      <3>2. QED  BY <3>1, <1>4, <1>6, <2>1 DEF PendingEvents
    <2>4. QED  BY <2>2, <2>3
  <1>8. OwedIsPending'
    BY <1>2, <1>7 DEF Sync, OwedIsPending
  <1>9. QED  BY <1>5, <1>8

\* A resync finds no event queued, so it can only add to them.
LEMMA ResyncKeeps ==
    ASSUME DeliveryInv, NEW walk \in ResyncWalks, Resync(walk)
    PROVE  DeliveryInv'
  <1> USE DEF DeliveryInv
  <1> DEFINE stored == {o \in Objects : cache[o] # None}
             present == walk[stored]
  <1>1. present \in Seq(stored)
    BY DeliveryAssumption
  <1>2. ASSUME NEW n \in 1..Len(present)
        PROVE  [kind |-> "update", content |-> cache[present[n]], tombstone |-> FALSE] \in Events
    <2>1. present[n] \in stored
      BY <1>1
    <2>2. cache[present[n]] \in Contents
      BY <2>1 DEF DeliveryTypeOK
    <2>3. QED  BY <2>2 DEF Events
  <1>3. inbox' \in Seq(Events)
    <2>1. inbox' = [n \in 1..Len(present) |->
                      [kind |-> "update", content |-> cache[present[n]], tombstone |-> FALSE]]
      BY DEF Resync
    <2>2. Len(present) \in Nat
      BY <1>1
    <2> HIDE DEF stored, present
    <2>3. QED  BY <1>2, <2>1, <2>2
  <1>4. PendingEvents = {}
    BY DEF Resync, PendingEvents
  <1>5. QED  BY <1>3, <1>4 DEF Resync, DeliveryTypeOK, OwedIsPending

\* What an event asked for moves from the queue to the requests being sent.
LEMMA HandleEventKeeps ==
    ASSUME DeliveryInv, HandleEvent
    PROVE  DeliveryInv'
  <1> USE DEF DeliveryInv
  <1>1. /\ Head(inbox) \in Events /\ Tail(inbox) \in Seq(Events)
        /\ \A n \in 1..Len(inbox) :
              \/ inbox[n] = Head(inbox)
              \/ \E m \in 1..Len(Tail(inbox)) : Tail(inbox)[m] = inbox[n]
    BY HeadAndTail DEF HandleEvent, DeliveryTypeOK
  <1> DEFINE u == Head(inbox).content
  <1>2. u \in Contents /\ u # None
    BY <1>1, DeliveryAssumption DEF Events
  <1>3. sending' = RequestsOf(u) /\ inbox' = Tail(inbox)
    BY <1>2 DEF HandleEvent, ExtractObject
  <1>4. DeliveryTypeOK'
    BY <1>1, <1>2, <1>3, RequestsType DEF HandleEvent, DeliveryTypeOK
  <1>5. \A x : Asked(x)' = Asked(x)
    BY DEF HandleEvent, Asked, RequestsOf
  <1>6. PendingEvents \subseteq PendingEvents' \cup ElementsOf(sending')
    <2>1. SUFFICES ASSUME NEW n \in 1..Len(inbox), NEW w \in Asked(inbox[n].content)
                   PROVE  w \in PendingEvents' \cup ElementsOf(sending')
      BY DEF PendingEvents
    <2>2. CASE inbox[n] = Head(inbox)
      BY <2>2, <1>3 DEF Asked
    <2>3. CASE inbox[n] # Head(inbox)
      <3>1. PICK m \in 1..Len(Tail(inbox)) : Tail(inbox)[m] = inbox[n]
        BY <2>3, <1>1
      <3>2. m \in 1..Len(inbox') /\ w \in Asked(inbox[m].content)'
        BY <3>1, <1>3, <1>5
      <3>3. QED  BY <3>2 DEF PendingEvents
    <2>4. QED  BY <2>2, <2>3
  <1>7. ElementsOf(sending)' = ElementsOf(sending') /\ ElementsOf(channel)' = ElementsOf(channel)
    BY DEF HandleEvent, ElementsOf
  <1>8. ElementsOf(sending) = {}
    BY DEF HandleEvent, ElementsOf
  <1>9. OwedIsPending'
    BY <1>6, <1>7, <1>8 DEF HandleEvent, OwedIsPending
  <1>10. QED  BY <1>4, <1>9

\* A request is sent, or remembered as lost.
LEMMA SendKeeps ==
    ASSUME DeliveryInv, Send
    PROVE  DeliveryInv'
  <1> USE DEF DeliveryInv
  <1>1. /\ Head(sending) \in Owners /\ Tail(sending) \in Seq(Owners)
        /\ \A n \in 1..Len(sending) :
              \/ sending[n] = Head(sending)
              \/ \E m \in 1..Len(Tail(sending)) : Tail(sending)[m] = sending[n]
    BY HeadAndTail DEF Send, DeliveryTypeOK
  <1>2. ElementsOf(sending) \subseteq ElementsOf(Tail(sending)) \cup {Head(sending)}
    BY <1>1 DEF ElementsOf
  <1>3. PendingEvents' = PendingEvents
    BY DEF Send, PendingEvents, Asked, RequestsOf
  <1>4. CASE Len(channel) < Capacity
    <2>1. /\ channel' \in Seq(Owners) /\ Len(channel') = Len(channel) + 1 /\ Len(channel) \in Nat
          /\ channel'[Len(channel) + 1] = Head(sending)
          /\ \A n \in 1..Len(channel) : channel'[n] = channel[n]
      <3>1. channel' = Append(channel, Head(sending)) /\ channel \in Seq(Owners)
        BY <1>4 DEF Send, DeliveryTypeOK
      <3>2. QED  BY <3>1, <1>1, Appended
    <2>2. ElementsOf(channel) \cup {Head(sending)} \subseteq ElementsOf(channel')
      BY <2>1 DEF ElementsOf
    <2>3. DeliveryTypeOK'
      BY <1>1, <1>4, <2>1, DeliveryAssumption DEF Send, DeliveryTypeOK
    <2>4. OwedIsPending'
      BY <1>2, <1>3, <1>4, <2>2 DEF Send, OwedIsPending, ElementsOf
    <2>5. QED  BY <2>3, <2>4
  <1>5. CASE ~(Len(channel) < Capacity)
    <2>1. DeliveryTypeOK'
      BY <1>1, <1>5 DEF Send, DeliveryTypeOK
    <2>2. lost' = lost \cup {Head(sending)} /\ channel' = channel /\ owed' = owed
          /\ sending' = Tail(sending)
      BY <1>5 DEF Send
    <2>3. ElementsOf(channel)' = ElementsOf(channel) /\ ElementsOf(sending)' = ElementsOf(Tail(sending))
      BY <2>2 DEF ElementsOf
    <2>4. OwedIsPending'
      BY <1>2, <1>3, <2>2, <2>3 DEF OwedIsPending
    <2>5. QED  BY <2>1, <2>4
  <1>6. QED  BY <1>4, <1>5

\* A reconcile settles what it received.
LEMMA ReconcileKeeps ==
    ASSUME DeliveryInv, Reconcile
    PROVE  DeliveryInv'
  <1> USE DEF DeliveryInv
  <1>1. /\ Head(channel) \in Owners /\ Tail(channel) \in Seq(Owners)
        /\ Len(Tail(channel)) = Len(channel) - 1
        /\ \A n \in 1..Len(channel) :
              \/ channel[n] = Head(channel)
              \/ \E m \in 1..Len(Tail(channel)) : Tail(channel)[m] = channel[n]
    BY HeadAndTail DEF Reconcile, DeliveryTypeOK
  <1>2. ElementsOf(channel) \subseteq ElementsOf(Tail(channel)) \cup {Head(channel)}
    BY <1>1 DEF ElementsOf
  <1>3. PendingEvents' = PendingEvents
    BY DEF Reconcile, PendingEvents, Asked, RequestsOf
  <1>4. View(Head(channel)) \in SUBSET (Objects \X Contents)
    BY DEF View
  <1>5. Len(channel) \in Nat
    BY DEF DeliveryTypeOK
  <1>6. DeliveryTypeOK'
    <2>1. seen' \in [Owners -> SUBSET (Objects \X Contents)]
      BY <1>1, <1>4 DEF Reconcile, DeliveryTypeOK
    <2>2. Len(channel') <= Capacity
      BY <1>1, <1>5, DeliveryAssumption DEF Reconcile, DeliveryTypeOK
    <2>3. QED  BY <1>1, <2>1, <2>2 DEF Reconcile, DeliveryTypeOK
  <1>7. OwedIsPending'
    BY <1>2, <1>3 DEF Reconcile, OwedIsPending, ElementsOf
  <1>8. QED  BY <1>6, <1>7

\* Every step keeps the invariant; a change in the cluster concerns nobody yet.
LEMMA DeliveryInvStep == DeliveryInv /\ [DeliveryNext]_deliveryVars => DeliveryInv'
  <1> SUFFICES ASSUME DeliveryInv, [DeliveryNext]_deliveryVars
               PROVE  DeliveryInv'
    OBVIOUS
  <1>1. ASSUME NEW o \in Objects, NEW v \in Contents \cup {None}, Change(o, v)
        PROVE  DeliveryInv'
    <2>1. PendingEvents' = PendingEvents
      BY <1>1 DEF Change, PendingEvents, Asked, RequestsOf
    <2>2. DeliveryTypeOK'
      BY <1>1, DeliveryAssumption DEF Change, DeliveryInv, DeliveryTypeOK
    <2>3. OwedIsPending'
      BY <1>1, <2>1 DEF Change, DeliveryInv, OwedIsPending, ElementsOf
    <2>4. QED  BY <2>2, <2>3 DEF DeliveryInv
  <1>2. CASE UNCHANGED deliveryVars
    <2>1. PendingEvents' = PendingEvents
      BY <1>2 DEF deliveryVars, PendingEvents, Asked, RequestsOf
    <2>2. QED
      BY <1>2, <2>1 DEF deliveryVars, DeliveryInv, DeliveryTypeOK, OwedIsPending, ElementsOf
  <1>3. QED
    BY <1>1, <1>2, SyncKeeps, ResyncKeeps, HandleEventKeeps, SendKeeps, ReconcileKeeps
    DEF DeliveryNext

\* Nothing an event asked for is lost but at the full channel.
THEOREM NothingElseLost == DeliverySpec => []OwedIsPending
  <1>1. DeliveryInv => OwedIsPending
    BY DEF DeliveryInv
  <1>2. QED  BY <1>1, DeliveryInvInit, DeliveryInvStep, PTL DEF DeliverySpec
=============================================================================
