---------------------------- MODULE EventDelivery ----------------------------
(***************************************************************************)
(* From a change in the cluster to the reconcile it asks for: the informer *)
(* (external), callbackToHandler and extractObject of                      *)
(* dynamicinformer/registry.go, the callback helpers of callbacks.go, the  *)
(* channel they send to without blocking, and the controller at its other  *)
(* end, which reads the informer's cache.                                  *)
(*                                                                         *)
(* One watch and one consumer.  A consumer that joins a synced informer is *)
(* given an add event for each cached object, as the first is by the       *)
(* initial list, so every behaviour starts with nothing seen.              *)
(***************************************************************************)
EXTENDS Integers, Sequences

CONSTANTS
    Objects,      \* the objects of the watch's kind
    Contents,     \* what an object can look like
    Shapes,       \* those of them a given object takes
    Owners,       \* the reconcile requests
    MapFunc,      \* the consumer's mapFunc: content -> sequence of requests
    Matching,     \* contents whose labels the selector matches
    OwnerOf,      \* the request the owner annotations name, or None
    Capacity,     \* of the event channel
    ResyncWalks,  \* walks: the order in which a resync takes each set of objects
    MaxChanges,   \* bound: changes made to the cluster
    None

ASSUME DeliveryAssumption ==
    /\ None \notin Contents \cup Owners
    /\ Shapes \in [Objects -> SUBSET Contents]
    /\ MapFunc \in [Contents -> Seq(Owners)]
    /\ Matching \subseteq Contents
    /\ OwnerOf \in [Contents -> Owners \cup {None}]
    /\ Capacity \in Nat \ {0}
    /\ MaxChanges \in Nat
    /\ \A walk \in ResyncWalks, S \in SUBSET Objects : walk[S] \in Seq(S)

VARIABLES
    helper,   \* which helper built the callback
    cluster,  \* the objects in the API server
    cache,    \* the informer's store
    inbox,    \* events the informer has yet to hand to the handler
    sending,  \* requests of the event being handled, not yet sent
    channel,  \* the event channel
    seen,     \* what the consumer found at its last reconcile, per request
    owed,     \* requests some event asked for since their last reconcile
    lost,     \* requests dropped at the full channel since their last reconcile
    changes   \* changes made to the cluster (bounded by MaxChanges)

deliveryVars == <<helper, cluster, cache, inbox, sending, channel, seen, owed, lost, changes>>

Events == [kind : {"add", "update", "delete"}, content : Contents, tombstone : BOOLEAN]

\* The shape of the chain from cluster to controller; the channel keeps its capacity.
DeliveryTypeOK ==
    /\ helper \in {"mapFunc", "selector", "owner"}
    /\ cluster \in [Objects -> Contents \cup {None}]
    /\ cache \in [Objects -> Contents \cup {None}]
    /\ inbox \in Seq(Events)
    /\ sending \in Seq(Owners)
    /\ channel \in Seq(Owners) /\ Len(channel) <= Capacity
    /\ seen \in [Owners -> SUBSET (Objects \X Contents)]
    /\ owed \subseteq Owners
    /\ lost \subseteq Owners
    /\ changes \in 0..MaxChanges

ElementsOf(s) == {s[n] : n \in 1..Len(s)}

\* LabelSelectorCallback wraps the mapFunc.
SelectedRequests(v) == IF v \in Matching THEN MapFunc[v] ELSE <<>>

\* EnqueueByOwnerAnnotationCallback: one request, or none without annotations.
OwnerRequests(v) == IF OwnerOf[v] = None THEN <<>> ELSE <<OwnerOf[v]>>

\* The requests the consumer's callback maps an object to.
RequestsOf(v) ==
    CASE helper = "mapFunc"  -> MapFunc[v]
      [] helper = "selector" -> SelectedRequests(v)
      [] helper = "owner"    -> OwnerRequests(v)

Asked(v) == ElementsOf(RequestsOf(v))

\* What a reconcile of w finds in the informer's cache.
View(w) == {x \in Objects \X Contents : cache[x[1]] = x[2] /\ w \in Asked(x[2])}

DeliveryInit ==
    /\ helper \in {"mapFunc", "selector", "owner"}
    /\ cluster = [o \in Objects |-> None]
    /\ cache = [o \in Objects |-> None]
    /\ inbox = <<>> /\ sending = <<>> /\ channel = <<>>
    /\ seen = [w \in Owners |-> {}]
    /\ owed = {} /\ lost = {}
    /\ changes = 0

-----------------------------------------------------------------------------
(* The cluster and the informer (external).                                *)

\* Somebody creates, changes or deletes an object.
Change(o, v) ==
    /\ v \in Shapes[o] \cup {None}
    /\ changes < MaxChanges
    /\ v # cluster[o]
    /\ cluster' = [cluster EXCEPT ![o] = v]
    /\ changes' = changes + 1
    /\ UNCHANGED <<helper, cache, inbox, sending, channel, seen, owed, lost>>

\* The informer learns the object's state from its watch or from a relist: the
\* store is updated first, then the handler's event queued.  A deletion that fell
\* into a gap of the watch arrives as a tombstone with the last known state.
Sync(o) ==
    /\ cache[o] # cluster[o]
    /\ cache' = [cache EXCEPT ![o] = cluster[o]]
    /\ \E t \in BOOLEAN :
          LET kind == IF cluster[o] = None THEN "delete"
                      ELSE IF cache[o] = None THEN "add" ELSE "update"
              v == IF cluster[o] = None THEN cache[o] ELSE cluster[o]
          IN /\ t => kind = "delete"
             /\ inbox' = Append(inbox, [kind |-> kind, content |-> v, tombstone |-> t])
             /\ owed' = owed \cup Asked(v)
    /\ UNCHANGED <<helper, cluster, sending, channel, seen, lost, changes>>

\* Every resyncPeriod the objects of the store are handed out again as updates, in
\* no particular order.  (Bound: not while the handler still has work.)
Resync(walk) ==
    /\ inbox = <<>> /\ sending = <<>>
    /\ \E o \in Objects : cache[o] # None
    /\ LET present == walk[{o \in Objects : cache[o] # None}]
       IN inbox' = [n \in 1..Len(present) |->
              [kind |-> "update", content |-> cache[present[n]], tombstone |-> FALSE]]
    /\ UNCHANGED <<helper, cluster, cache, sending, channel, seen, owed, lost, changes>>

-----------------------------------------------------------------------------
(* The handler: callbackToHandler around the helper's callback.            *)

\* (slip) Only plain objects are recognised.
ExtractPlainObject(e) == IF e.tombstone THEN None ELSE e.content

\* extractObject: the object itself, or the one inside the tombstone.
ExtractObject(e) == e.content

\* (slip) OnUpdate is left nil, so no UpdateFunc is registered.
HandleEventButUpdates ==
    /\ inbox # <<>> /\ sending = <<>>
    /\ LET u == ExtractObject(Head(inbox))
       IN sending' = IF u = None \/ Head(inbox).kind = "update" THEN <<>> ELSE RequestsOf(u)
    /\ inbox' = Tail(inbox)
    /\ UNCHANGED <<helper, cluster, cache, channel, seen, owed, lost, changes>>

\* The next event reaches OnAdd, OnUpdate (the new object only) or OnDelete, which
\* are all enqueue; what extractObject does not recognise is ignored.
HandleEvent ==
    /\ inbox # <<>> /\ sending = <<>>
    /\ LET u == ExtractObject(Head(inbox))
       IN sending' = IF u = None THEN <<>> ELSE RequestsOf(u)
    /\ inbox' = Tail(inbox)
    /\ UNCHANGED <<helper, cluster, cache, channel, seen, owed, lost, changes>>

\* The select in enqueue: send, or drop the request if the channel is full.
Send ==
    /\ sending # <<>>
    /\ sending' = Tail(sending)
    /\ IF Len(channel) < Capacity
       THEN channel' = Append(channel, Head(sending)) /\ UNCHANGED lost
       ELSE lost' = lost \cup {Head(sending)} /\ UNCHANGED channel
    /\ UNCHANGED <<helper, cluster, cache, inbox, seen, owed, changes>>

\* The controller receives a request and reconciles it against the cache (external).
Reconcile ==
    /\ channel # <<>>
    /\ LET w == Head(channel)
       IN /\ seen' = [seen EXCEPT ![w] = View(w)]
          /\ owed' = owed \ {w}
          /\ lost' = lost \ {w}
    /\ channel' = Tail(channel)
    /\ UNCHANGED <<helper, cluster, cache, inbox, sending, changes>>

-----------------------------------------------------------------------------
DeliveryNext ==
    \/ \E o \in Objects, v \in Contents \cup {None} : Change(o, v)
    \/ \E o \in Objects : Sync(o)
    \/ \E walk \in ResyncWalks : Resync(walk)
    \/ HandleEvent \/ Send \/ Reconcile

DeliverySpec == DeliveryInit /\ [][DeliveryNext]_deliveryVars

(***************************************************************************)
(* Fairness: the informer follows the cluster, its handler and the         *)
(* controller run on, and resyncs keep coming.  A resync walks the store   *)
(* in Go's random map order, so among the resyncs that find the channel    *)
(* drained every order turns up.                                           *)
(***************************************************************************)
FairDeliverySpec ==
    /\ DeliverySpec
    /\ \A o \in Objects : WF_deliveryVars(Sync(o))
    /\ WF_deliveryVars(HandleEvent) /\ WF_deliveryVars(Send) /\ WF_deliveryVars(Reconcile)
    /\ \A walk \in ResyncWalks : SF_deliveryVars(channel = <<>> /\ Resync(walk))

-----------------------------------------------------------------------------
PendingEvents == UNION {Asked(inbox[n].content) : n \in 1..Len(inbox)}

\* Whatever an event asked for is on its way to a reconcile, or was dropped at the
\* full channel: the full channel is the only place where the chain from informer to
\* controller loses anything.
OwedIsPending ==
    owed \subseteq PendingEvents \cup ElementsOf(sending) \cup ElementsOf(channel) \cup lost

\* The consumer catches up with its events again and again.
ConsumerKeepsUp == []<>(inbox = <<>> /\ sending = <<>> /\ channel = <<>>)

\* "The non-zero resync period recovers dropped events": an object that exists is
\* in the end known to every owner it maps to, whatever was dropped on the way.
PresentObjectsSeen ==
    ConsumerKeepsUp =>
        \A o \in Objects, v \in Contents, w \in Owners :
            <>[](cluster[o] = v /\ w \in Asked(v)) => <>[](<<o, v>> \in seen[w])

\* "Channel full - resync will recover": an owner whose request was dropped does not
\* go on believing in objects that are gone.  But no resync hands out an object that
\* left the store, so a dropped deletion stays dropped.  (Where each object has one
\* shape, an owner can only be left behind by a deletion.)
DroppedRecovered ==
    ConsumerKeepsUp =>
        \A w \in Owners :
            (w \in lost /\ ~(seen[w] \subseteq View(w))) ~> seen[w] \subseteq View(w)
=============================================================================
