---------------------------- MODULE WatchRegistry ----------------------------
(***************************************************************************)
(* The WatchRegistry of dynamicinformer/registry.go: informers shared by   *)
(* consumers, one per watch key, with a reference-counted client behind    *)
(* each.                                                                   *)
(*                                                                         *)
(* EnsureWatchSet and ReleaseAll run under the registry's mutex, so one    *)
(* call is in progress at a time and its local variables are variables of  *)
(* the model; what does not take the mutex (the informers' Run goroutines, *)
(* the cancellation of a parent context, and GetIndexer, which             *)
(* WatchReaders.tla adds) interleaves with every step of the call.  The    *)
(* client provider and the InformerFunc are the caller's and may fail at   *)
(* any call, by an error or by a panic: both roll the call back.           *)
(*                                                                         *)
(* A Go map without an entry is a function with the value None; a pointer  *)
(* to a new WatchEntry is an unused member of Informers, a new             *)
(* handlerRegistration (and its released channel) one of Handles.  A call  *)
(* starts only while enough of both are left: that bounds the model.       *)
(***************************************************************************)
EXTENDS Integers, Sequences, FiniteSets

CONSTANTS
    Keys,        \* WatchKey values
    Identities,  \* the identities of the keys
    IdentityOf,  \* WatchKey.Identity
    Consumers,   \* consumer IDs
    Contexts,    \* the parent contexts callers pass
    Informers,   \* names for the WatchEntry objects created
    Handles,     \* names for the handlerRegistration objects created
    Slices,      \* the []WatchRequest arguments, as sequences of keys
    None

ASSUME ConstantsAssumption ==
    /\ IsFiniteSet(Keys)
    /\ IsFiniteSet(Informers)
    /\ IsFiniteSet(Handles)
    /\ IdentityOf \in [Keys -> Identities]
    /\ Slices \subseteq Seq(Keys)
    /\ None \notin Keys \cup Consumers \cup Contexts \cup Informers \cup Handles
    /\ None \notin [key : Keys, consumer : Consumers, informer : Informers]

VARIABLES
    \* the registry (guarded by its mutex)
    watches,      \* WatchRegistry.watches: key -> entry
    consumerKeys, \* WatchRegistry.consumerKeys: consumer -> set of keys
    handlers,     \* WatchEntry.handlers: entry -> consumer -> handle
    keyOf,        \* the key an entry was created for
    ctxOf,        \* the parent of the entry's context
    cancelled,    \* entries whose cancel was called
    registration, \* what a handle was created for
    released,     \* handles whose released channel is closed
    refs,         \* ClientFor successes minus Releases, per identity
    \* outside the mutex
    run,          \* the informer's Run goroutine: none, running, stopped
    doneCtx,      \* cancelled parent contexts
    \* the call that holds the mutex
    pc, caller, parentCtx, slice, at, newlyAdded, work, regs

entryVars == <<watches, handlers, keyOf, ctxOf, cancelled>>
handleVars == <<consumerKeys, registration, released>>
callArgs == <<caller, parentCtx, slice>>
callVars == <<pc, caller, parentCtx, slice, at, newlyAdded, work, regs>>
vars == <<watches, consumerKeys, handlers, keyOf, ctxOf, cancelled, registration,
          released, refs, run, doneCtx, pc, caller, parentCtx, slice, at, newlyAdded,
          work, regs>>

KeysIn(s) == {s[n] : n \in 1..Len(s)}
Registrations == [key : Keys, consumer : Consumers, informer : Informers]

\* The shape of the registry, its entries and handles, and of the running call.
TypeOK ==
    /\ watches \in [Keys -> Informers \cup {None}]
    /\ consumerKeys \in [Consumers -> SUBSET Keys]
    /\ handlers \in [Informers -> [Consumers -> Handles \cup {None}]]
    /\ keyOf \in [Informers -> Keys \cup {None}]
    /\ ctxOf \in [Informers -> Contexts \cup {None}]
    /\ cancelled \subseteq Informers
    /\ registration \in [Handles -> Registrations \cup {None}]
    /\ released \subseteq Handles
    /\ refs \in [Identities -> Int]
    /\ run \in [Informers -> {"none", "running", "stopped"}]
    /\ doneCtx \subseteq Contexts
    /\ pc \in {"idle", "ensure", "build", "rollback", "releaseAll"}
    /\ caller \in Consumers \cup {None}
    /\ parentCtx \in Contexts \cup {None}
    /\ slice \in Seq(Keys)
    /\ at \in Nat \ {0}
    /\ newlyAdded \subseteq Keys
    /\ work \subseteq Keys
    /\ regs \in Seq(Handles)

-----------------------------------------------------------------------------
FreshInformers == {i \in Informers : run[i] = "none"}
FreshHandles == {h \in Handles : registration[h] = None}
NewInformer == CHOOSE i \in Informers : run[i] = "none"
NewHandle == CHOOSE h \in Handles : registration[h] = None

\* The bound on the length of a behaviour: a call starts only with a name at hand
\* for every informer and every handler it may create.
RoomFor(s) ==
    /\ Cardinality(FreshInformers) >= Len(s)
    /\ Cardinality(FreshHandles) >= Len(s)

\* entry.done is closed.
Done(i) == i \in cancelled \/ ctxOf[i] \in doneCtx

HandleOf(c, k) == IF watches[k] = None THEN None ELSE handlers[watches[k]][c]

\* Keys the loop of EnsureWatchSet has passed, and those it has still to visit.
newCurrent == {slice[n] : n \in 1..(at - 1)}
todo == {slice[n] : n \in at..Len(slice)}
LoopAtEnd == at > Len(slice)

Init ==
    /\ watches = [k \in Keys |-> None]
    /\ consumerKeys = [c \in Consumers |-> {}]
    /\ handlers = [i \in Informers |-> [c \in Consumers |-> None]]
    /\ keyOf = [i \in Informers |-> None]
    /\ ctxOf = [i \in Informers |-> None]
    /\ cancelled = {}
    /\ registration = [h \in Handles |-> None]
    /\ released = {}
    /\ refs = [id \in Identities |-> 0]
    /\ run = [i \in Informers |-> "none"]
    /\ doneCtx = {}
    /\ pc = "idle" /\ caller = None /\ parentCtx = None
    /\ slice = <<>> /\ at = 1 /\ newlyAdded = {} /\ work = {} /\ regs = <<>>

\* The call returns and unlocks the mutex; its locals are gone.
Return ==
    /\ pc' = "idle" /\ caller' = None /\ parentCtx' = None
    /\ slice' = <<>> /\ at' = 1 /\ newlyAdded' = {} /\ work' = {} /\ regs' = <<>>

-----------------------------------------------------------------------------
(* Steps shared by the calls.                                              *)

\* (slip) The informer is forgotten but its context never cancelled.
StopWatchUncancelled(k) ==
    /\ watches' = [watches EXCEPT ![k] = None]
    /\ refs' = [refs EXCEPT ![IdentityOf[k]] = @ - 1]
    /\ UNCHANGED cancelled

\* stopWatchLocked
StopWatch(k) ==
    /\ cancelled' = cancelled \cup {watches[k]}
    /\ watches' = [watches EXCEPT ![k] = None]
    /\ refs' = [refs EXCEPT ![IdentityOf[k]] = @ - 1]

\* (slip) The first consumer to leave takes the shared informer with it.
AnyHandler(i, c) == TRUE

\* Every other consumer's handler is gone from entry i.
LastHandler(i, c) == \A d \in Consumers \ {c} : handlers[i][d] = None

\* (slip) The released channel is not closed.
ReleaseWatchUnclosed(k, c) ==
    IF HandleOf(c, k) = None
    THEN UNCHANGED <<watches, handlers, cancelled, refs, consumerKeys, released>>
    ELSE /\ handlers' = [handlers EXCEPT ![watches[k]] = [@ EXCEPT ![c] = None]]
         /\ consumerKeys' = [consumerKeys EXCEPT ![c] = @ \ {k}]
         /\ UNCHANGED released
         /\ IF LastHandler(watches[k], c)
            THEN StopWatch(k)
            ELSE UNCHANGED <<watches, cancelled, refs>>

\* (slip) consumerKeys is not kept in sync.
ReleaseWatchUnsynced(k, c) ==
    IF HandleOf(c, k) = None
    THEN UNCHANGED <<watches, handlers, cancelled, refs, consumerKeys, released>>
    ELSE /\ handlers' = [handlers EXCEPT ![watches[k]] = [@ EXCEPT ![c] = None]]
         /\ released' = released \cup {handlers[watches[k]][c]}
         /\ UNCHANGED consumerKeys
         /\ IF LastHandler(watches[k], c)
            THEN StopWatch(k)
            ELSE UNCHANGED <<watches, cancelled, refs>>

\* (slip) The entry is forgotten whoever leaves; only the last cancels it.
ReleaseWatchForgets(k, c) ==
    IF HandleOf(c, k) = None
    THEN UNCHANGED <<watches, handlers, cancelled, refs, consumerKeys, released>>
    ELSE /\ handlers' = [handlers EXCEPT ![watches[k]] = [@ EXCEPT ![c] = None]]
         /\ released' = released \cup {handlers[watches[k]][c]}
         /\ consumerKeys' = [consumerKeys EXCEPT ![c] = @ \ {k}]
         /\ watches' = [watches EXCEPT ![k] = None]
         /\ IF LastHandler(watches[k], c)
            THEN /\ cancelled' = cancelled \cup {watches[k]}
                 /\ refs' = [refs EXCEPT ![IdentityOf[k]] = @ - 1]
            ELSE UNCHANGED <<cancelled, refs>>

\* releaseWatchLocked: a missing entry or handler is a no-op; the last handler
\* takes the informer with it.
ReleaseWatchLocked(k, c) ==
    IF HandleOf(c, k) = None
    THEN UNCHANGED <<watches, handlers, cancelled, refs, consumerKeys, released>>
    ELSE LET i == watches[k] IN
         /\ handlers' = [handlers EXCEPT ![i] = [@ EXCEPT ![c] = None]]
         /\ released' = released \cup {handlers[i][c]}
         /\ consumerKeys' = [consumerKeys EXCEPT ![c] = @ \ {k}]
         /\ IF LastHandler(i, c)
            THEN StopWatch(k)
            ELSE UNCHANGED <<watches, cancelled, refs>>

\* (slip) The rollback takes every key the loop has passed, not only the new ones.
StartRollbackOfAll ==
    /\ pc' = "rollback"
    /\ work' = newCurrent
    /\ UNCHANGED <<caller, parentCtx, slice, at, newlyAdded, regs>>

\* rollbackNewlyAddedLocked is entered: the keys added by this call are released
\* one by one (RollbackRelease), the ones held before are left alone.
StartRollback ==
    /\ pc' = "rollback"
    /\ work' = newlyAdded
    /\ UNCHANGED <<caller, parentCtx, slice, at, newlyAdded, regs>>

-----------------------------------------------------------------------------
(* EnsureWatchSet                                                          *)

\* (slip) Nothing is ever stale.
EnsureWatchSetKeepsStale(c, x, s) ==
    /\ pc = "idle"
    /\ s # <<>>
    /\ RoomFor(s)
    /\ pc' = "ensure"
    /\ caller' = c
    /\ parentCtx' = x
    /\ slice' = s
    /\ UNCHANGED <<work, at, newlyAdded, regs>>
    /\ UNCHANGED <<entryVars, handleVars, refs, run, doneCtx>>

\* Lock; compute the stale keys before anything changes.
EnsureWatchSet(c, x, s) ==
    /\ pc = "idle"
    /\ s # <<>>
    /\ RoomFor(s)
    /\ pc' = "ensure"
    /\ caller' = c
    /\ parentCtx' = x
    /\ slice' = s
    /\ work' = consumerKeys[c] \ KeysIn(s)
    /\ UNCHANGED <<at, newlyAdded, regs>>
    /\ UNCHANGED <<entryVars, handleVars, refs, run, doneCtx>>

\* startWatchLocked: the provider gives a client ...
ClientFor ==
    /\ pc = "ensure" /\ ~LoopAtEnd
    /\ watches[slice[at]] = None
    /\ pc' = "build"
    /\ refs' = [refs EXCEPT ![IdentityOf[slice[at]]] = @ + 1]
    /\ UNCHANGED <<callArgs, at, newlyAdded, work, regs>>
    /\ UNCHANGED <<entryVars, handleVars, run, doneCtx>>

\* ... or does not (an error, a nil client, a panic).
ClientForFails ==
    /\ pc = "ensure" /\ ~LoopAtEnd
    /\ watches[slice[at]] = None
    /\ StartRollback
    /\ UNCHANGED <<entryVars, handleVars, refs, run, doneCtx>>

\* (slip) The client of a failed InformerFunc is never given back.
InformerFuncFailsUnreleased ==
    /\ pc = "build"
    /\ StartRollback
    /\ UNCHANGED <<entryVars, handleVars, refs, run, doneCtx>>

\* The InformerFunc fails, returns nil or panics: the deferred Release runs.
InformerFuncFails ==
    /\ pc = "build"
    /\ refs' = [refs EXCEPT ![IdentityOf[slice[at]]] = @ - 1]
    /\ StartRollback
    /\ UNCHANGED <<entryVars, handleVars, run, doneCtx>>

\* The informer is built: a new entry is stored and its Run goroutine started.
StartInformer ==
    /\ pc = "build"
    /\ FreshInformers # {}    \* RoomFor sees to it
    /\ LET i == NewInformer IN
       /\ watches' = [watches EXCEPT ![slice[at]] = i]
       /\ keyOf' = [keyOf EXCEPT ![i] = slice[at]]
       /\ ctxOf' = [ctxOf EXCEPT ![i] = parentCtx]
       /\ run' = [run EXCEPT ![i] = "running"]
    /\ pc' = "ensure"
    /\ UNCHANGED <<callArgs, at, newlyAdded, work, regs>>
    /\ UNCHANGED <<handlers, cancelled, handleVars, refs, doneCtx>>

\* (slip) The registration of a watch already held is not returned.
DeduplicateUnreturned ==
    /\ pc = "ensure" /\ ~LoopAtEnd
    /\ HandleOf(caller, slice[at]) # None
    /\ at' = at + 1
    /\ UNCHANGED <<pc, callArgs, newlyAdded, work, regs>>
    /\ UNCHANGED <<entryVars, handleVars, refs, run, doneCtx>>

\* The consumer's handler is already on the entry: its registration is returned.
Deduplicate ==
    /\ pc = "ensure" /\ ~LoopAtEnd
    /\ HandleOf(caller, slice[at]) # None
    /\ regs' = Append(regs, HandleOf(caller, slice[at]))
    /\ at' = at + 1
    /\ UNCHANGED <<pc, callArgs, newlyAdded, work>>
    /\ UNCHANGED <<entryVars, handleVars, refs, run, doneCtx>>

\* The entry to which the loop is about to add a handler exists, and lacks it.
NeedsHandler ==
    /\ pc = "ensure" /\ ~LoopAtEnd
    /\ watches[slice[at]] # None
    /\ HandleOf(caller, slice[at]) = None

\* AddEventHandler succeeds; it cannot once the informer's Run has returned.
AddEventHandler ==
    /\ NeedsHandler
    /\ run[watches[slice[at]]] # "stopped"
    /\ FreshHandles # {}      \* RoomFor sees to it
    /\ LET i == watches[slice[at]]
           h == NewHandle
       IN /\ handlers' = [handlers EXCEPT ![i] = [@ EXCEPT ![caller] = h]]
          /\ registration' = [registration EXCEPT
                ![h] = [key |-> slice[at], consumer |-> caller, informer |-> i]]
          /\ regs' = Append(regs, h)
    /\ newlyAdded' = newlyAdded \cup {slice[at]}
    /\ at' = at + 1
    /\ UNCHANGED <<pc, callArgs, work>>
    /\ UNCHANGED <<watches, keyOf, ctxOf, cancelled, consumerKeys, released, refs,
                   run, doneCtx>>

\* (slip) The informer started in this iteration is left behind.
AddEventHandlerFailsLingering ==
    /\ NeedsHandler
    /\ StartRollback
    /\ UNCHANGED <<entryVars, handleVars, refs, run, doneCtx>>

\* AddEventHandler fails, as a stopped informer does and a caller's informer
\* may: an informer without handlers is stopped here, then the call rolls back.
AddEventHandlerFails ==
    /\ NeedsHandler
    /\ IF \A d \in Consumers : handlers[watches[slice[at]]][d] = None
       THEN StopWatch(slice[at])
       ELSE UNCHANGED <<watches, cancelled, refs>>
    /\ StartRollback
    /\ UNCHANGED <<handlers, keyOf, ctxOf, handleVars, run, doneCtx>>

\* All handlers are on: the stale keys are released, in any order (map order) ...
ReleaseStale(k) ==
    /\ pc = "ensure" /\ LoopAtEnd
    /\ k \in work
    /\ ReleaseWatchLocked(k, caller)
    /\ work' = work \ {k}
    /\ UNCHANGED <<pc, callArgs, at, newlyAdded, regs>>
    /\ UNCHANGED <<keyOf, ctxOf, registration, run, doneCtx>>

\* ... and the new set recorded.
Commit ==
    /\ pc = "ensure" /\ LoopAtEnd
    /\ work = {}
    /\ consumerKeys' = [consumerKeys EXCEPT ![caller] = newCurrent]
    /\ Return
    /\ UNCHANGED <<entryVars, registration, released, refs, run, doneCtx>>

\* One iteration of rollbackNewlyAddedLocked.
RollbackRelease(k) ==
    /\ pc = "rollback"
    /\ k \in work
    /\ ReleaseWatchLocked(k, caller)
    /\ work' = work \ {k}
    /\ UNCHANGED <<pc, callArgs, at, newlyAdded, regs>>
    /\ UNCHANGED <<keyOf, ctxOf, registration, run, doneCtx>>

\* (slip) The error path returns with the mutex held.
RollbackReturnLocked ==
    /\ pc = "rollback"
    /\ work = {}
    /\ UNCHANGED vars

\* The call returns its error, or re-panics.
RollbackReturn ==
    /\ pc = "rollback"
    /\ work = {}
    /\ Return
    /\ UNCHANGED <<entryVars, handleVars, refs, run, doneCtx>>

-----------------------------------------------------------------------------
(* ReleaseAll, and EnsureWatchSet of the empty slice: releaseAllLocked on a *)
(* copy of the consumer's keys.                                             *)

ReleaseAll(c) ==
    /\ pc = "idle"
    /\ pc' = "releaseAll"
    /\ caller' = c
    /\ work' = consumerKeys[c]
    /\ UNCHANGED <<parentCtx, slice, at, newlyAdded, regs>>
    /\ UNCHANGED <<entryVars, handleVars, refs, run, doneCtx>>

ReleaseAllRelease(k) ==
    /\ pc = "releaseAll"
    /\ k \in work
    /\ ReleaseWatchLocked(k, caller)
    /\ work' = work \ {k}
    /\ UNCHANGED <<pc, callArgs, at, newlyAdded, regs>>
    /\ UNCHANGED <<keyOf, ctxOf, registration, run, doneCtx>>

ReleaseAllReturn ==
    /\ pc = "releaseAll"
    /\ work = {}
    /\ Return
    /\ UNCHANGED <<entryVars, handleVars, refs, run, doneCtx>>

-----------------------------------------------------------------------------
(* Outside the mutex.                                                      *)

CancelContext(x) ==
    /\ x \notin doneCtx
    /\ doneCtx' = doneCtx \cup {x}
    /\ UNCHANGED <<entryVars, handleVars, callVars, refs, run>>

\* informer.Run(ctx.Done()) notices that its context is done, and returns.
RunReturns(i) ==
    /\ run[i] = "running"
    /\ Done(i)
    /\ run' = [run EXCEPT ![i] = "stopped"]
    /\ UNCHANGED <<entryVars, handleVars, callVars, refs, doneCtx>>

-----------------------------------------------------------------------------
\* A step of the call that holds the mutex.
CallStep ==
    \/ ClientFor \/ ClientForFails \/ InformerFuncFails \/ StartInformer
    \/ Deduplicate \/ AddEventHandler \/ AddEventHandlerFails
    \/ \E k \in Keys : ReleaseStale(k) \/ RollbackRelease(k) \/ ReleaseAllRelease(k)
    \/ Commit \/ RollbackReturn \/ ReleaseAllReturn

Next ==
    \/ \E c \in Consumers, x \in Contexts, s \in Slices : EnsureWatchSet(c, x, s)
    \/ \E c \in Consumers : ReleaseAll(c)
    \/ CallStep
    \/ \E x \in Contexts : CancelContext(x)
    \/ \E i \in Informers : RunReturns(i)

Spec == Init /\ [][Next]_vars

(***************************************************************************)
(* Fairness: the goroutine that holds the mutex runs on (the client        *)
(* provider and the InformerFunc are required to return: "must be quick"), *)
(* and an informer's Run goroutine notices that its context is done.       *)
(* Nobody has to call the registry or to cancel a context.                 *)
(***************************************************************************)
FairSpec ==
    /\ Spec
    /\ WF_vars(CallStep)
    /\ \A i \in Informers : WF_vars(RunReturns(i))

-----------------------------------------------------------------------------
(* Safety.                                                                 *)

\* The keys the running call has added handlers for without recording them yet.
Uncommitted == IF pc = "rollback" THEN work ELSE newlyAdded

\* The two indexes agree: consumerKeys lists exactly the keys the consumer has a
\* handler on, but for what the running call has added and not yet committed; and
\* those were not held before, so a rollback cannot take a watch that was.
\* (ReleaseAll and the stale computation trust consumerKeys alone.)
IndexInSync ==
    /\ \A c \in Consumers, k \in Keys :
          HandleOf(c, k) # None <=>
             k \in consumerKeys[c] \/ (c = caller /\ k \in Uncommitted)
    /\ \A c \in Consumers : c = caller => consumerKeys[c] \cap Uncommitted = {}

\* No informer lingers without a consumer, but for the one the loop is about to
\* give its first handler: nothing would ever stop it.
NoOrphanInformer ==
    \A k \in Keys : watches[k] # None =>
        \/ \E c \in Consumers : HandleOf(c, k) # None
        \/ pc = "ensure" /\ ~LoopAtEnd /\ k = slice[at]

\* The keys watched under an identity.
WatchedAs(id) == {k \in Keys : watches[k] # None /\ IdentityOf[k] = id}

\* ClientReleaser: the provider's count for an identity is the number of informers
\* watched under it, plus the client startWatchLocked is building one with.
ClientsBalanced ==
    \A id \in Identities :
        refs[id] = Cardinality(WatchedAs(id))
                   + (IF pc = "build" /\ IdentityOf[slice[at]] = id THEN 1 ELSE 0)

\* A registration that was not released is backed by the informer the registry
\* watches for its key today, and is the handler of its consumer there: no
\* consumer is left reading the cache of an informer the registry forgot.
LiveRegistrationIsCurrent ==
    \A h \in Handles : registration[h] # None /\ h \notin released =>
        LET r == registration[h] IN
        /\ watches[r.key] = r.informer
        /\ handlers[r.informer][r.consumer] = h

\* An informer's context is cancelled by the registry exactly when the registry
\* has dropped it, so at most one uncancelled informer exists per key.
CancelledIffDropped ==
    \A i \in Informers : keyOf[i] # None =>
        (i \in cancelled <=> watches[keyOf[i]] # i)

\* EnsureWatchSet answers request by request: the n-th registration returned is
\* the handle the caller has on the n-th key asked for, duplicates included.
RegsMatchRequests ==
    pc \in {"ensure", "build"} =>
        /\ Len(regs) = at - 1
        /\ \A n \in 1..Len(regs) : regs[n] = HandleOf(caller, slice[n])

\* No step of one consumer's call releases another consumer's registration or
\* cancels the informer behind it.
OthersUndisturbed ==
    [][\A h \in Handles :
          registration[h] # None /\ h \notin released /\ registration[h].consumer # caller
          => h \notin released' /\ registration[h].informer \notin cancelled']_vars

\* The README says of ClientReleaser that Release comes "when the informer started
\* with it stops", and ClientReleaser's comment that it tells "when the registry no
\* longer uses a client", so that a provider may evict at zero: no informer of an
\* identity with no client out is still running.  The code calls Release right
\* after cancel, without waiting for Run to return.
ReleasedClientIdle ==
    \A i \in Informers :
        run[i] = "running" => refs[IdentityOf[keyOf[i]]] > 0

-----------------------------------------------------------------------------
(* Refinement.  The abstract set of a consumer changes when the last request *)
(* of its call is served (or the first failure is met, or ReleaseAll locks), *)
(* not while handlers come and go.                                           *)

\* The running EnsureWatchSet is still before its point of effect.
Undecided == pc = "build" \/ (pc = "ensure" /\ ~LoopAtEnd)

\* Keys of the running call whose handlers the abstract set does not show.
Hidden(c) ==
    IF c # caller THEN {} ELSE IF Undecided THEN newlyAdded ELSE work

registeredBar ==
    [c \in Consumers |-> [k \in Keys |->
        IF k \in Hidden(c) THEN None ELSE HandleOf(c, k)]]

wantedBar ==
    [c \in Consumers |->
        IF c = caller /\ Undecided
        THEN KeysIn(slice) ELSE {}]

\* Handles on their way out are retired already.
retiredBar ==
    released \cup
    (IF pc = "rollback" \/ pc = "releaseAll" \/ (pc = "ensure" /\ LoopAtEnd)
     THEN {HandleOf(caller, k) : k \in work} \ {None}
     ELSE {})

Abstract == INSTANCE ConsumerWatches
    WITH registered <- registeredBar, wanted <- wantedBar, retired <- retiredBar

\* Every call is all or nothing for its consumer and invisible to the others.
ImplementsConsumerWatches == Abstract!Spec

-----------------------------------------------------------------------------
(* Liveness.                                                               *)

\* Every call unlocks the mutex, on the error paths too.
EveryCallReturns == pc # "idle" ~> pc = "idle"

\* A dropped informer's Run goroutine ends: dropping never leaks a goroutine.
DroppedInformerStops ==
    \A i \in Informers :
        (keyOf[i] # None /\ watches[keyOf[i]] # i) ~> run[i] = "stopped"
=============================================================================
