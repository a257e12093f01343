------------------------ MODULE WatchRegistryInvariant ------------------------
(***************************************************************************)
(* The inductive invariant of WatchRegistry.  The safety properties are    *)
(* not inductive one by one: that the two indexes agree at Commit depends  *)
(* on what the loop has gathered so far, that a released handler leaves no *)
(* live registration behind depends on every handler being on a current    *)
(* entry, and so on.  Each part below is one of these dependencies.        *)
(***************************************************************************)
EXTENDS WatchRegistry

\* The locals of the call: reset when no call runs, well formed while one does.
CallShape ==
    /\ pc = "idle" => caller = None /\ slice = <<>> /\ at = 1 /\ regs = <<>>
                      /\ newlyAdded = {} /\ work = {}
    /\ pc # "idle" => caller \in Consumers
    /\ pc \in {"ensure", "build"} => parentCtx \in Contexts /\ at <= Len(slice) + 1
    /\ pc = "build" => ~LoopAtEnd /\ watches[slice[at]] = None
    /\ pc = "releaseAll" => newlyAdded = {} /\ work \subseteq consumerKeys[caller]
    /\ pc = "rollback" => work \subseteq newlyAdded

\* A watched entry was made for its key, was started, and is not cancelled.
EntriesCurrent ==
    \A k \in Keys : watches[k] # None =>
        /\ keyOf[watches[k]] = k
        /\ watches[k] \notin cancelled

\* An entry that is not in use has never been touched.
UnusedEntries ==
    \A i \in Informers :
        /\ run[i] = "none" <=> keyOf[i] = None
        /\ keyOf[i] = None => i \notin cancelled

\* A handler sits on the entry its key is watched by, is not released, and is
\* registered for exactly that place.
HandlersCurrent ==
    \A i \in Informers, c \in Consumers : handlers[i][c] # None =>
        /\ keyOf[i] # None
        /\ watches[keyOf[i]] = i
        /\ handlers[i][c] \notin released
        /\ registration[handlers[i][c]] = [key |-> keyOf[i], consumer |-> c, informer |-> i]

UnusedHandles ==
    \A h \in Handles : registration[h] = None => h \notin released

\* What the loop of EnsureWatchSet knows: the caller's keys are those it has
\* passed, those to come, and the stale ones; it has a handler on what it passed.
LoopBookkeeping ==
    pc \in {"ensure", "build"} =>
        /\ newlyAdded \subseteq newCurrent
        /\ newCurrent \subseteq consumerKeys[caller] \cup newlyAdded
        /\ consumerKeys[caller] \subseteq newCurrent \cup todo \cup work
        /\ work \subseteq consumerKeys[caller]
        /\ work \cap (newCurrent \cup todo) = {}

\* The entries, their handlers and the handles fit together ...
EntryInv ==
    /\ EntriesCurrent
    /\ UnusedEntries
    /\ HandlersCurrent
    /\ UnusedHandles
    /\ LiveRegistrationIsCurrent
    /\ CancelledIffDropped

\* ... and so do the handlers, the index and the running call.
IInv ==
    /\ TypeOK
    /\ CallShape
    /\ EntryInv
    /\ LoopBookkeeping
    /\ IndexInSync
    /\ NoOrphanInformer
=============================================================================
