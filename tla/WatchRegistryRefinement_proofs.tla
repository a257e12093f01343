------------------- MODULE WatchRegistryRefinement_proofs -------------------
(***************************************************************************)
(* WatchRegistry implements ConsumerWatches: every call is all or nothing  *)
(* for its consumer and invisible to the others.  The step that takes      *)
(* effect is the last iteration of EnsureWatchSet's loop (Succeed), its    *)
(* first failure (Fail) or the start of ReleaseAll (Release); every other  *)
(* step leaves the abstract state as it is.                                *)
(***************************************************************************)
EXTENDS WatchRegistry_proofs

\* What the inductive invariant says of the handles the consumers have.
HandleFacts ==
    /\ \A c \in Consumers, k \in Keys : HandleOf(c, k) # None =>
          /\ HandleOf(c, k) \in Handles
          /\ HandleOf(c, k) \notin released
          /\ registration[HandleOf(c, k)] # None
    /\ \A c, d \in Consumers, k, l \in Keys :
          HandleOf(c, k) # None /\ HandleOf(c, k) = HandleOf(d, l) => c = d /\ k = l

\* What the inductive invariant says of handles, as the mapping needs it ...
LEMMA HandleFactsHold == IInv => HandleFacts
  <1> SUFFICES ASSUME IInv
               PROVE  HandleFacts
    OBVIOUS
  <1> USE DEF IInv
  <1>1. ASSUME NEW c \in Consumers, NEW k \in Keys, HandleOf(c, k) # None
        PROVE  /\ HandleOf(c, k) \in Handles
               /\ HandleOf(c, k) \notin released
               /\ registration[HandleOf(c, k)] # None
               /\ registration[HandleOf(c, k)].key = k
               /\ registration[HandleOf(c, k)].consumer = c
    <2> DEFINE w == watches[k]
    <2>1. w \in Informers /\ HandleOf(c, k) = handlers[w][c] /\ keyOf[w] = k
      BY <1>1 DEF HandleOf, TypeOK, EntryInv, EntriesCurrent
    <2>2. handlers[w][c] \in Handles /\ handlers[w][c] \notin released
      <3>1. handlers[w][c] \in Handles
        BY <1>1, <2>1 DEF TypeOK
      <3>2. handlers[w][c] \notin released
        BY <1>1, <2>1 DEF EntryInv, HandlersCurrent
      <3>3. QED  BY <3>1, <3>2
    <2>3. registration[handlers[w][c]] = [key |-> k, consumer |-> c, informer |-> w]
      BY <1>1, <2>1 DEF EntryInv, HandlersCurrent
    <2>4. QED  BY <2>1, <2>2, <2>3, ConstantsAssumption
  <1>2. QED  BY <1>1 DEF HandleFacts

\* ... and the same after a step.
LEMMA HandleFactsHoldNext == IInv' => HandleFacts'
  BY HandleFactsHold, PTL

\* The abstract state is made of these, so a step that keeps them stutters.
LEMMA Stutter ==
    ASSUME \A c \in Consumers, k \in Keys : registeredBar'[c][k] = registeredBar[c][k],
           \A c \in Consumers : wantedBar'[c] = wantedBar[c],
           retiredBar' = retiredBar
    PROVE  UNCHANGED <<registeredBar, wantedBar, retiredBar>>
  BY DEF registeredBar, wantedBar, Undecided

\* The mapped registration of one consumer on one key.
LEMMA RegisteredBarAt ==
    ASSUME NEW c \in Consumers, NEW k \in Keys
    PROVE  registeredBar[c][k] = IF k \in Hidden(c) THEN None ELSE HandleOf(c, k)
  BY DEF registeredBar

\* A step that moves no handle, and neither decides the call nor starts one.
LEMMA QuietStutter ==
    ASSUME \A c, k : HandleOf(c, k)' = HandleOf(c, k),
           \A c : Hidden(c)' = Hidden(c),
           \A c \in Consumers : wantedBar'[c] = wantedBar[c],
           retiredBar' = retiredBar
    PROVE  UNCHANGED <<registeredBar, wantedBar, retiredBar>>
  BY Stutter DEF registeredBar

\* The empty registry is the empty abstract one.
LEMMA RefinementInit == Init => Abstract!Init
  <1> SUFFICES ASSUME Init
               PROVE  Abstract!Init
    OBVIOUS
  <1>1. \A c \in Consumers, k \in Keys : HandleOf(c, k) = None
    BY DEF Init, HandleOf
  <1>2. pc = "idle" /\ released = {} /\ caller = None /\ None \notin Consumers
    BY ConstantsAssumption DEF Init
  <1>3. QED
    BY <1>1, <1>2 DEF Abstract!Init, registeredBar, wantedBar, retiredBar, Hidden, Undecided

-----------------------------------------------------------------------------
(* The steps that have no effect on the abstract state.                    *)

\* One iteration of any release loop: the key was hidden already.
LEMMA ReleaseStutters ==
    ASSUME IInv, NEW k \in Keys,
           ReleaseStale(k) \/ RollbackRelease(k) \/ ReleaseAllRelease(k)
    PROVE  UNCHANGED <<registeredBar, wantedBar, retiredBar>>
  <1> USE DEF IInv
  <1>1. /\ k \in work /\ work' = work \ {k} /\ caller \in Consumers
        /\ ReleaseWatchLocked(k, caller)
        /\ UNCHANGED <<pc, caller, slice, at, newlyAdded>>
        /\ pc \in {"rollback", "releaseAll"} \/ (pc = "ensure" /\ LoopAtEnd)
    BY DEF ReleaseStale, RollbackRelease, ReleaseAllRelease, callArgs, CallShape
  <1>2. \A d \in Consumers, l \in Keys :
           HandleOf(d, l)' = IF d = caller /\ l = k THEN None ELSE HandleOf(d, l)
    BY <1>1, ReleaseWatchHandles
  <1>3. \A d \in Consumers :
           /\ Hidden(d) = IF d = caller THEN work ELSE {}
           /\ Hidden(d)' = IF d = caller THEN work \ {k} ELSE {}
    BY <1>1 DEF Hidden, LoopAtEnd, Undecided
  <1>4. \A d \in Consumers, l \in Keys : registeredBar'[d][l] = registeredBar[d][l]
    BY <1>1, <1>2, <1>3 DEF registeredBar
  <1>5. \A d \in Consumers : wantedBar'[d] = wantedBar[d]
    BY <1>1 DEF wantedBar, LoopAtEnd, Undecided
  <1>6. released' = released \cup ({HandleOf(caller, k)} \ {None})
    <2>1. CASE HandleOf(caller, k) = None
      BY <1>1, <2>1 DEF ReleaseWatchLocked
    <2>2. CASE HandleOf(caller, k) # None
      BY <1>1, <2>2 DEF ReleaseWatchLocked, HandleOf
    <2>3. QED  BY <2>1, <2>2
  <1>7. /\ retiredBar = released \cup ({HandleOf(caller, l) : l \in work} \ {None})
        /\ retiredBar' = released' \cup ({HandleOf(caller, l)' : l \in work \ {k}} \ {None})
    BY <1>1 DEF retiredBar, LoopAtEnd
  <1>8. work \subseteq Keys
    BY DEF TypeOK
  <1>9. \A l \in work \ {k} : HandleOf(caller, l)' = HandleOf(caller, l)
    BY <1>1, <1>2, <1>8
  <1>10. retiredBar' = retiredBar
    BY <1>1, <1>6, <1>7, <1>9
  <1>11. QED  BY <1>4, <1>5, <1>10, Stutter

\* The steps before the point of effect that move no handle.
LEMMA ClientForStutters ==
    ASSUME IInv, ClientFor
    PROVE  UNCHANGED <<registeredBar, wantedBar, retiredBar>>
  <1>1. /\ UNCHANGED <<watches, handlers, released, caller, slice, at, newlyAdded, work>>
        /\ pc = "ensure" /\ pc' = "build" /\ ~LoopAtEnd
    BY DEF ClientFor, callArgs, entryVars, handleVars
  <1>2. \A c, k : HandleOf(c, k)' = HandleOf(c, k)
    BY <1>1, HandleOfStable
  <1>3. (\A c : Hidden(c)' = Hidden(c)) /\ retiredBar' = retiredBar
        /\ \A c \in Consumers : wantedBar'[c] = wantedBar[c]
    BY <1>1 DEF Hidden, retiredBar, wantedBar, LoopAtEnd, Undecided
  <1>4. QED  BY <1>2, <1>3, QuietStutter

\* A new informer has no handler yet: the consumers see nothing of it.
LEMMA StartInformerStutters ==
    ASSUME IInv, StartInformer
    PROVE  UNCHANGED <<registeredBar, wantedBar, retiredBar>>
  <1> USE DEF IInv
  <1> DEFINE i == NewInformer
             k == slice[at]
  <1>1. i \in Informers /\ i # None /\ \A d \in Consumers : handlers[i][d] = None
    <2>1. i \in Informers /\ keyOf[i] = None
      BY NewInformerIsFresh DEF StartInformer, EntryInv, UnusedEntries
    <2>2. QED  BY <2>1, ConstantsAssumption DEF EntryInv, HandlersCurrent
  <1>2. /\ UNCHANGED <<handlers, released, caller, slice, at, newlyAdded, work>>
        /\ watches' = [watches EXCEPT ![k] = i]
        /\ pc = "build" /\ pc' = "ensure" /\ ~LoopAtEnd
        /\ k \in Keys /\ watches[k] = None
    BY DEF StartInformer, callArgs, handleVars, CallShape, LoopAtEnd, TypeOK
  <1>3. \A c \in Consumers, l \in Keys : HandleOf(c, l)' = HandleOf(c, l)
    BY <1>1, <1>2 DEF HandleOf, TypeOK
  <1>4. (\A c : Hidden(c)' = Hidden(c)) /\ retiredBar' = retiredBar
        /\ \A c \in Consumers : wantedBar'[c] = wantedBar[c]
    BY <1>2 DEF Hidden, retiredBar, wantedBar, LoopAtEnd, Undecided
  <1>5. \A c \in Consumers, l \in Keys : registeredBar'[c][l] = registeredBar[c][l]
    BY <1>3, <1>4 DEF registeredBar
  <1>6. QED  BY <1>4, <1>5, Stutter

\* The call returns after its point of effect.
LEMMA ReturnStutters ==
    ASSUME IInv, Commit \/ RollbackReturn \/ ReleaseAllReturn
    PROVE  UNCHANGED <<registeredBar, wantedBar, retiredBar>>
  <1>1. /\ UNCHANGED <<watches, handlers, released>>
        /\ work = {} /\ work' = {} /\ newlyAdded' = {} /\ pc' = "idle" /\ caller' = None
        /\ pc \in {"rollback", "releaseAll"} \/ (pc = "ensure" /\ LoopAtEnd)
    BY DEF Commit, RollbackReturn, ReleaseAllReturn, Return, entryVars, handleVars
  <1>2. \A c, k : HandleOf(c, k)' = HandleOf(c, k)
    BY <1>1, HandleOfStable
  <1>3. \A c : Hidden(c)' = {} /\ Hidden(c) = {}
    BY <1>1 DEF Hidden, Undecided
  <1>4. retiredBar' = retiredBar
    BY <1>1 DEF retiredBar
  <1>5. \A c \in Consumers : wantedBar'[c] = wantedBar[c]
    BY <1>1 DEF wantedBar, Undecided
  <1>6. QED  BY <1>2, <1>3, <1>4, <1>5, QuietStutter

\* What happens outside the mutex.
LEMMA EnvironmentStutters ==
    ASSUME UNCHANGED <<watches, handlers, released, callVars>>
    PROVE  UNCHANGED <<registeredBar, wantedBar, retiredBar>>
  BY DEF registeredBar, wantedBar, retiredBar, Hidden, HandleOf, LoopAtEnd, callVars, Undecided

-----------------------------------------------------------------------------
(* The steps that have one.                                                *)

\* The handles the abstract state shows.
LEMMA HandlesHeldAre ==
    Abstract!HandlesHeld =
        {registeredBar[c][k] : c \in Consumers, k \in Keys} \ {None}
  BY DEF Abstract!HandlesHeld

\* EnsureWatchSet takes the mutex: the consumer asks.
LEMMA EnsureAsks ==
    ASSUME IInv, NEW c \in Consumers, NEW x \in Contexts, NEW s \in Slices,
           EnsureWatchSet(c, x, s)
    PROVE  Abstract!Ask(c)
  <1>1. /\ pc = "idle" /\ pc' = "ensure" /\ caller = None /\ caller' = c /\ slice' = s
        /\ at = 1 /\ at' = 1 /\ newlyAdded' = {} /\ s # <<>> /\ s \in Seq(Keys)
        /\ UNCHANGED <<watches, handlers, released>>
    BY ConstantsAssumption DEF IInv, EnsureWatchSet, CallShape, entryVars, handleVars
  <1>2. \A d, k : HandleOf(d, k)' = HandleOf(d, k)
    BY <1>1, HandleOfStable
  <1>3. ~LoopAtEnd' /\ None \notin Consumers
    BY <1>1, ConstantsAssumption DEF LoopAtEnd
  <1>4. \A d \in Consumers : Hidden(d) = {} /\ Hidden(d)' = {}
    BY <1>1, <1>3 DEF Hidden, Undecided
  <1>5. retiredBar' = retiredBar
    BY <1>1, <1>3 DEF retiredBar
  <1>6. registeredBar' = registeredBar
    BY <1>2, <1>4 DEF registeredBar
  <1>7. wantedBar = [d \in Consumers |-> {}]
    BY <1>1, <1>3 DEF wantedBar, Undecided
  <1>8. wantedBar' = [wantedBar EXCEPT ![c] = KeysIn(s)]
    BY <1>1, <1>3, <1>7 DEF wantedBar, Undecided
  <1>9. KeysIn(s) \in (SUBSET Keys) \ {{}}
    <2>1. Len(s) \in Nat \ {0} /\ s[1] \in KeysIn(s)
      BY <1>1 DEF KeysIn
    <2>2. KeysIn(s) \subseteq Keys
      BY <1>1 DEF KeysIn
    <2>3. QED  BY <2>1, <2>2
  <1>10. QED  BY <1>5, <1>6, <1>7, <1>8, <1>9 DEF Abstract!Ask

\* ReleaseAll takes the mutex: the consumer holds nothing any more.
LEMMA ReleaseAllReleases ==
    ASSUME IInv, IInv', NEW c \in Consumers, ReleaseAll(c)
    PROVE  Abstract!Release(c)
  <1>1. /\ pc = "idle" /\ pc' = "releaseAll" /\ caller = None /\ caller' = c
        /\ work' = consumerKeys[c] /\ work' \subseteq Keys
        /\ UNCHANGED <<watches, handlers, released, consumerKeys>>
    BY DEF IInv, ReleaseAll, CallShape, TypeOK, entryVars, handleVars
  <1>2. \A d, k : HandleOf(d, k)' = HandleOf(d, k)
    BY <1>1, HandleOfStable
  <1>3. \A d \in Consumers :
           Hidden(d) = {} /\ Hidden(d)' = IF d = c THEN consumerKeys[c] ELSE {}
    BY <1>1, ConstantsAssumption DEF Hidden, Undecided
  <1>4. \A k \in Keys : HandleOf(c, k) # None <=> k \in consumerKeys[c]
    BY <1>1, ConstantsAssumption DEF IInv, IndexInSync
  <1>5. \A d \in Consumers, k \in Keys : registeredBar[d][k] = HandleOf(d, k)
    BY <1>3 DEF registeredBar
  <1>6. registeredBar' = [registeredBar EXCEPT ![c] = [k \in Keys |-> None]]
    BY <1>2, <1>3, <1>4 DEF registeredBar
  <1>7. /\ wantedBar = [d \in Consumers |-> {}]
        /\ wantedBar' = wantedBar
    BY <1>1 DEF wantedBar, Undecided
  <1>8. /\ retiredBar = released
        /\ retiredBar' = released \cup ({HandleOf(c, k) : k \in consumerKeys[c]} \ {None})
    BY <1>1, <1>2 DEF retiredBar
  <1>9. HandleFacts
    BY HandleFactsHold
  <1>10. \A k \in Abstract!Held(c) : registeredBar[c][k] \in retiredBar'
    BY <1>4, <1>5, <1>8 DEF Abstract!Held
  <1>11. Abstract!Retire
    <2>1. retiredBar \subseteq retiredBar'
      BY <1>8
    <2>2. retiredBar' \subseteq Handles
      BY <1>1, <1>8, <1>9 DEF HandleFacts, IInv, TypeOK
    <2>3. ASSUME NEW d \in Consumers, NEW k \in Keys, registeredBar'[d][k] # None
          PROVE  registeredBar'[d][k] \notin retiredBar'
      <3>1. d # c /\ registeredBar'[d][k] = HandleOf(d, k)
        BY <1>5, <1>6, <2>3 DEF registeredBar
      <3>2. HandleOf(d, k) \notin released
        BY <1>9, <2>3, <3>1 DEF HandleFacts
      <3>3. \A l \in consumerKeys[c] : HandleOf(c, l) # HandleOf(d, k)
        BY <1>1, <1>9, <2>3, <3>1 DEF HandleFacts
      <3>4. QED  BY <1>8, <3>1, <3>2, <3>3
    <2>4. QED  BY <2>1, <2>2, <2>3 DEF Abstract!Retire, Abstract!HandlesHeld
  <1>12. QED  BY <1>6, <1>7, <1>10, <1>11 DEF Abstract!Release

\* The call meets its first failure: what it added is thrown away, and nothing
\* the abstract state shows has moved.
LEMMA RollbackFails ==
    ASSUME IInv, IInv', Undecided, StartRollback, UNCHANGED released,
           \A d \in Consumers, l \in Keys : HandleOf(d, l)' = HandleOf(d, l)
    PROVE  caller \in Consumers /\ Abstract!Fail(caller)
  <1>1. /\ pc' = "rollback" /\ work' = newlyAdded /\ caller' = caller /\ caller \in Consumers
        /\ newlyAdded \subseteq Keys
    BY DEF IInv, StartRollback, Undecided, CallShape, TypeOK
  <1>2. \A d \in Consumers :
           /\ Hidden(d) = IF d = caller THEN newlyAdded ELSE {}
           /\ Hidden(d)' = IF d = caller THEN newlyAdded ELSE {}
    <2>1. \A d \in Consumers : Hidden(d) = IF d = caller THEN newlyAdded ELSE {}
      BY DEF Hidden, Undecided
    <2>2. \A d \in Consumers : Hidden(d)' = IF d = caller THEN newlyAdded ELSE {}
      BY <1>1 DEF Hidden, Undecided
    <2>3. QED  BY <2>1, <2>2
  <1>3. registeredBar' = registeredBar
    BY <1>2 DEF registeredBar
  <1>4. wantedBar[caller] = KeysIn(slice) /\ wantedBar' = [wantedBar EXCEPT ![caller] = {}]
    BY <1>1 DEF wantedBar, Undecided
  <1>5. wantedBar[caller] # {}
    <2>1. slice[at] \in KeysIn(slice)
      BY DEF KeysIn, Undecided, IInv, CallShape, LoopAtEnd, TypeOK
    <2>2. QED  BY <1>4, <2>1
  <1>6. /\ retiredBar = released
        /\ retiredBar' = released \cup ({HandleOf(caller, k) : k \in newlyAdded} \ {None})
    BY <1>1 DEF retiredBar, Undecided
  <1>7. HandleFacts
    BY HandleFactsHold
  <1>8. Abstract!Retire
    <2>1. retiredBar' \subseteq Handles
      BY <1>1, <1>6, <1>7 DEF HandleFacts, IInv, TypeOK
    <2>2. ASSUME NEW d \in Consumers, NEW k \in Keys, registeredBar[d][k] # None
          PROVE  registeredBar[d][k] \notin retiredBar'
      <3>1. registeredBar[d][k] = HandleOf(d, k) /\ (d # caller \/ k \notin newlyAdded)
        BY <1>2, <2>2 DEF registeredBar
      <3>2. HandleOf(d, k) \notin released
        BY <1>7, <2>2, <3>1 DEF HandleFacts
      <3>3. \A l \in newlyAdded : HandleOf(caller, l) # HandleOf(d, k)
        BY <1>1, <1>7, <2>2, <3>1 DEF HandleFacts
      <3>4. QED  BY <1>6, <3>1, <3>2, <3>3
    <2>3. QED  BY <1>3, <1>6, <2>1, <2>2 DEF Abstract!Retire, Abstract!HandlesHeld
  <1>9. QED  BY <1>1, <1>3, <1>4, <1>5, <1>8 DEF Abstract!Fail

\* One iteration of EnsureWatchSet's loop that does not fail: the caller has a
\* handler on the head, its own from before or a new one, and nothing else moves.
LEMMA LoopStep ==
    ASSUME IInv, NEW c, c = caller, NEW k, k = slice[at], Deduplicate \/ AddEventHandler
    PROVE  /\ pc = "ensure" /\ pc' = "ensure" /\ ~LoopAtEnd /\ at' = at + 1
           /\ k \in Keys /\ c \in Consumers
           /\ UNCHANGED <<caller, slice, consumerKeys, released, work>>
           /\ \A d \in Consumers, l \in Keys :
                 d # c \/ l # k => HandleOf(d, l)' = HandleOf(d, l)
           /\ \/ /\ newlyAdded' = newlyAdded
                 /\ HandleOf(c, k)' = HandleOf(c, k)
              \/ /\ newlyAdded' = newlyAdded \cup {k}
                 /\ HandleOf(c, k) = None
                 /\ HandleOf(c, k)' \in Handles
                 /\ registration[HandleOf(c, k)'] = None
  <1> USE DEF IInv
  <1> DEFINE w == watches[k]
  <1>1. CASE Deduplicate
    <2>1. /\ pc = "ensure" /\ pc' = "ensure" /\ ~LoopAtEnd /\ at' = at + 1
          /\ UNCHANGED <<watches, handlers, newlyAdded, caller, slice, consumerKeys, released, work>>
      BY <1>1 DEF Deduplicate, callArgs, entryVars, handleVars
    <2>2. k \in Keys /\ c \in Consumers
      BY <2>1 DEF CallShape, LoopAtEnd, TypeOK
    <2>3. \A d, l : HandleOf(d, l)' = HandleOf(d, l)
      BY <2>1, HandleOfStable
    <2>4. QED  BY <2>1, <2>2, <2>3
  <1>2. CASE AddEventHandler
    <2>1. /\ pc = "ensure" /\ pc' = "ensure" /\ ~LoopAtEnd /\ at' = at + 1
          /\ w # None /\ HandleOf(c, k) = None
          /\ handlers' = [handlers EXCEPT ![w] = [@ EXCEPT ![c] = NewHandle]]
          /\ newlyAdded' = newlyAdded \cup {k}
          /\ UNCHANGED <<watches, caller, slice, consumerKeys, released, work>>
      BY <1>2 DEF AddEventHandler, NeedsHandler, callArgs
    <2>2. c \in Consumers /\ k \in Keys /\ w \in Informers
      BY <2>1 DEF CallShape, LoopAtEnd, TypeOK
    <2>3. NewHandle \in Handles /\ registration[NewHandle] = None
      BY <1>2, NewHandleIsFresh DEF AddEventHandler
    <2>4. \A l \in Keys : watches[l] = w => l = k
      BY <2>1, <2>2 DEF EntryInv, EntriesCurrent
    <2>5. \A d \in Consumers, l \in Keys :
             HandleOf(d, l)' = IF d = c /\ l = k THEN NewHandle ELSE HandleOf(d, l)
      BY <2>1, <2>2, <2>4 DEF HandleOf, TypeOK
    <2>6. QED  BY <2>1, <2>2, <2>3, <2>5
  <1>3. QED  BY <1>1, <1>2

\* Before the last request, the abstract state does not show it.
LEMMA LoopStutters ==
    ASSUME IInv, Deduplicate \/ AddEventHandler, ~LoopAtEnd'
    PROVE  UNCHANGED <<registeredBar, wantedBar, retiredBar>>
  <1>1. PICK c, k : c = caller /\ k = slice[at]
    OBVIOUS
  <1>2. /\ pc = "ensure" /\ pc' = "ensure" /\ ~LoopAtEnd /\ k \in Keys /\ c \in Consumers
        /\ UNCHANGED <<caller, slice, released>>
        /\ \A d \in Consumers, l \in Keys :
              d # c \/ l # k => HandleOf(d, l)' = HandleOf(d, l)
        /\ \/ newlyAdded' = newlyAdded /\ HandleOf(c, k)' = HandleOf(c, k)
           \/ newlyAdded' = newlyAdded \cup {k} /\ HandleOf(c, k) = None
    BY <1>1, LoopStep
  <1>3. Undecided /\ Undecided'
    BY <1>2 DEF Undecided
  <1>4. \A d \in Consumers :
           /\ Hidden(d) = IF d = c THEN newlyAdded ELSE {}
           /\ Hidden(d)' = IF d = c THEN newlyAdded' ELSE {}
    BY <1>1, <1>2, <1>3 DEF Hidden
  <1>5. \A d \in Consumers, l \in Keys : registeredBar'[d][l] = registeredBar[d][l]
    BY <1>2, <1>4 DEF registeredBar
  <1>6. retiredBar = released /\ retiredBar' = released'
    BY <1>2, <1>3 DEF retiredBar, Undecided
  <1>7. \A d \in Consumers : wantedBar'[d] = wantedBar[d]
    BY <1>2, <1>3 DEF wantedBar
  <1>8. QED  BY <1>2, <1>5, <1>6, <1>7, Stutter

\* With the last request the caller's whole set becomes the one it asked for.
LEMMA LoopSucceeds ==
    ASSUME IInv, IInv', Deduplicate \/ AddEventHandler, LoopAtEnd'
    PROVE  caller \in Consumers /\ Abstract!Succeed(caller)
  <1>0. PICK c, k : c = caller /\ k = slice[at]
    OBVIOUS
  <1> DEFINE W == KeysIn(slice)
  <1>1. /\ c = caller /\ k = slice[at]
        /\ pc = "ensure" /\ pc' = "ensure" /\ ~LoopAtEnd /\ at' = at + 1
        /\ k \in Keys /\ c \in Consumers /\ work \subseteq Keys /\ newlyAdded \subseteq Keys
        /\ UNCHANGED <<caller, slice, consumerKeys, released, work>>
    BY <1>0, LoopStep DEF IInv, TypeOK
  <1>2. \A d \in Consumers, l \in Keys :
           d # c \/ l # k => HandleOf(d, l)' = HandleOf(d, l)
    BY <1>0, LoopStep
  <1>3. \/ newlyAdded' = newlyAdded /\ HandleOf(c, k)' = HandleOf(c, k)
        \/ /\ newlyAdded' = newlyAdded \cup {k} /\ HandleOf(c, k) = None
           /\ HandleOf(c, k)' \in Handles /\ registration[HandleOf(c, k)'] = None
    BY <1>0, LoopStep
  <1>4. Undecided /\ ~Undecided'
    BY <1>1 DEF Undecided
  <1>5. \A d \in Consumers :
           /\ Hidden(d) = IF d = c THEN newlyAdded ELSE {}
           /\ Hidden(d)' = IF d = c THEN work ELSE {}
    BY <1>1, <1>4 DEF Hidden
  <1>6. \A d \in Consumers, l \in Keys :
           /\ registeredBar[d][l] = IF d = c /\ l \in newlyAdded THEN None ELSE HandleOf(d, l)
           /\ registeredBar'[d][l] = IF d = c /\ l \in work THEN None ELSE HandleOf(d, l)'
    BY <1>5 DEF registeredBar
  <1>7. newCurrent' = W
    <2>1. at' = Len(slice) + 1 /\ slice' = slice
      BY <1>1 DEF LoopAtEnd, IInv, CallShape, TypeOK
    <2>2. QED  BY <2>1 DEF newCurrent, KeysIn, IInv, TypeOK
  <1>8. todo' = {}
    BY DEF todo, LoopAtEnd, IInv, TypeOK
  <1>9. /\ newlyAdded' \subseteq W
        /\ W \subseteq consumerKeys[c] \cup newlyAdded'
        /\ consumerKeys[c] \subseteq W \cup work
        /\ work \subseteq consumerKeys[c]
        /\ work \cap W = {}
    BY <1>1, <1>7, <1>8 DEF IInv, LoopBookkeeping
  <1>10. /\ \A l \in Keys : HandleOf(c, l) # None <=> l \in consumerKeys[c] \cup newlyAdded
         /\ \A l \in Keys : HandleOf(c, l)' # None <=> l \in consumerKeys[c] \cup newlyAdded'
         /\ consumerKeys[c] \cap newlyAdded = {}
         /\ consumerKeys[c] \cap newlyAdded' = {}
         /\ consumerKeys[c] \subseteq Keys
    <2>1. Uncommitted = newlyAdded /\ Uncommitted' = newlyAdded'
      BY <1>1 DEF Uncommitted
    <2>2. IndexInSync /\ IndexInSync' /\ TypeOK
      BY DEF IInv
    <2>3. \A l \in Keys : HandleOf(c, l) # None <=> l \in consumerKeys[c] \cup newlyAdded
      BY <1>1, <2>1, <2>2 DEF IndexInSync
    <2>4. \A l \in Keys : HandleOf(c, l)' # None <=> l \in consumerKeys[c] \cup newlyAdded'
      BY <1>1, <2>1, <2>2 DEF IndexInSync
    <2>5. consumerKeys[c] \cap newlyAdded = {} /\ consumerKeys[c] \cap newlyAdded' = {}
      BY <1>1, <2>1, <2>2 DEF IndexInSync
    <2>6. QED  BY <1>1, <2>2, <2>3, <2>4, <2>5 DEF TypeOK
  <1>11. HandleFacts /\ HandleFacts'
    BY HandleFactsHold, HandleFactsHoldNext
  <1>12. Abstract!Held(c) = consumerKeys[c]
    BY <1>1, <1>6, <1>10 DEF Abstract!Held
  <1>13. W \subseteq Keys /\ W # {}
    <2>1. k \in W
      BY <1>1 DEF KeysIn, LoopAtEnd, IInv, TypeOK
    <2>2. slice \in Seq(Keys)
      BY DEF IInv, TypeOK
    <2>3. W \subseteq Keys
      BY <2>2 DEF KeysIn
    <2>4. QED  BY <2>1, <2>3
  <1>14. Abstract!Held(c)' = W
    <2>1. \A l \in Keys : registeredBar'[c][l] # None <=> l \in W
      BY <1>1, <1>6, <1>9, <1>10
    <2>2. QED  BY <1>1, <1>13, <2>1 DEF Abstract!Held
  <1>15. wantedBar[c] = W /\ wantedBar' = [wantedBar EXCEPT ![c] = {}]
    BY <1>1, <1>4 DEF wantedBar
  <1>16. \A d \in Consumers \ {c} : registeredBar'[d] = registeredBar[d]
    BY <1>2, <1>5 DEF registeredBar
  <1>17. \A l \in Abstract!Held(c) \cap W : registeredBar'[c][l] = registeredBar[c][l]
    BY <1>1, <1>2, <1>3, <1>6, <1>9, <1>10, <1>12, <1>13
  <1>18. retiredBar = released /\ released' = released
    BY <1>1, <1>4 DEF retiredBar, Undecided
  <1>19. retiredBar' = released \cup ({HandleOf(c, l)' : l \in work} \ {None})
    BY <1>1 DEF retiredBar
  <1>20. ASSUME NEW l \in W \ Abstract!Held(c)
         PROVE  registeredBar'[c][l] \in Handles \ (Abstract!HandlesHeld \cup retiredBar)
    <2>1. l \in newlyAdded' /\ l \notin work /\ l \in Keys
      BY <1>9, <1>12, <1>13, <1>20
    <2>2. registeredBar'[c][l] = HandleOf(c, l)' /\ HandleOf(c, l)' # None
      BY <1>1, <1>6, <1>10, <2>1
    <2>3. HandleOf(c, l)' \in Handles /\ HandleOf(c, l)' \notin released
      BY <1>1, <1>11, <2>1, <2>2 DEF HandleFacts
    <2>4. ASSUME NEW d \in Consumers, NEW m \in Keys, registeredBar[d][m] # None
          PROVE  HandleOf(c, l)' # registeredBar[d][m]
      <3>1. registeredBar[d][m] = HandleOf(d, m) /\ (d # c \/ m \notin newlyAdded)
        BY <1>6, <2>4
      <3>2. registration[HandleOf(d, m)] # None
        BY <1>11, <2>4, <3>1 DEF HandleFacts
      <3>3. CASE l \in newlyAdded
        <4>1. HandleOf(c, l)' = HandleOf(c, l) /\ HandleOf(c, l) # None
          BY <1>1, <1>2, <1>3, <1>10, <2>1, <3>3
        <4>2. QED  BY <1>1, <1>11, <2>1, <2>4, <3>1, <3>3, <4>1 DEF HandleFacts
      <3>4. CASE l \notin newlyAdded
        BY <1>3, <2>1, <3>1, <3>2, <3>4
      <3>5. QED  BY <3>3, <3>4
    <2>5. HandleOf(c, l)' \notin Abstract!HandlesHeld
      BY <2>4 DEF Abstract!HandlesHeld
    <2>6. QED  BY <1>18, <2>2, <2>3, <2>5
  <1>21. \A l, m \in W : registeredBar'[c][l] = registeredBar'[c][m] => l = m
    <2> SUFFICES ASSUME NEW l \in W, NEW m \in W, registeredBar'[c][l] = registeredBar'[c][m]
                 PROVE  l = m
      OBVIOUS
    <2>1. registeredBar'[c][l] = HandleOf(c, l)' /\ registeredBar'[c][m] = HandleOf(c, m)'
      BY <1>1, <1>6, <1>9, <1>13
    <2>2. HandleOf(c, l)' # None
      BY <1>9, <1>10, <1>13
    <2>3. QED  BY <1>1, <1>11, <1>13, <2>1, <2>2 DEF HandleFacts
  <1>22. \A l \in Abstract!Held(c) \ W : registeredBar[c][l] \in retiredBar'
    <2> SUFFICES ASSUME NEW l \in consumerKeys[c] \ W
                 PROVE  registeredBar[c][l] \in retiredBar'
      BY <1>12
    <2>1. l \in work /\ l \in Keys /\ l \notin newlyAdded /\ l \notin newlyAdded'
      BY <1>9, <1>10
    <2>2. registeredBar[c][l] = HandleOf(c, l) /\ HandleOf(c, l) # None
      BY <1>1, <1>6, <1>10, <2>1
    <2>3. HandleOf(c, l)' = HandleOf(c, l)
      BY <1>1, <1>2, <1>3, <2>1, <2>2
    <2>4. QED  BY <1>19, <2>1, <2>2, <2>3
  <1>23. Abstract!Retire
    <2>1. retiredBar \subseteq retiredBar'
      BY <1>18, <1>19
    <2>2. retiredBar' \subseteq Handles
      <3>1. \A l \in work : HandleOf(c, l)' # None => HandleOf(c, l)' \in Handles
        BY <1>1, <1>11 DEF HandleFacts
      <3>2. QED  BY <1>19, <3>1 DEF IInv, TypeOK
    <2>3. ASSUME NEW d \in Consumers, NEW l \in Keys, registeredBar'[d][l] # None
          PROVE  registeredBar'[d][l] \notin retiredBar'
      <3>1. registeredBar'[d][l] = HandleOf(d, l)' /\ (d # c \/ l \notin work)
        BY <1>6, <2>3
      <3>2. HandleOf(d, l)' \notin released
        BY <1>1, <1>11, <2>3, <3>1 DEF HandleFacts
      <3>3. \A m \in work : HandleOf(c, m)' # HandleOf(d, l)'
        BY <1>1, <1>11, <2>3, <3>1 DEF HandleFacts
      <3>4. QED  BY <1>19, <3>1, <3>2, <3>3
    <2>4. QED  BY <2>1, <2>2, <2>3 DEF Abstract!Retire, Abstract!HandlesHeld
  <1>24. QED
    BY <1>1, <1>13, <1>14, <1>15, <1>16, <1>17, <1>20, <1>21, <1>22, <1>23
       DEF Abstract!Succeed

-----------------------------------------------------------------------------
\* Every step implements a step of ConsumerWatches or none.
LEMMA RefinementStep ==
    ASSUME IInv, IInv', [Next]_vars
    PROVE  [Abstract!Next]_(Abstract!vars)
  <1> DEFINE Quiet == UNCHANGED <<registeredBar, wantedBar, retiredBar>>
  <1> SUFFICES Abstract!Next \/ Quiet
    BY DEF Abstract!vars
  <1>1. ASSUME NEW c \in Consumers, NEW x \in Contexts, NEW s \in Slices,
               EnsureWatchSet(c, x, s)
        PROVE  Abstract!Next
    BY <1>1, EnsureAsks DEF Abstract!Next
  <1>2. ASSUME NEW c \in Consumers, ReleaseAll(c)
        PROVE  Abstract!Next
    BY <1>2, ReleaseAllReleases DEF Abstract!Next
  <1>3. CASE ClientFor
    BY <1>3, ClientForStutters
  <1>4. CASE StartInformer
    BY <1>4, StartInformerStutters
  <1>5. CASE Deduplicate \/ AddEventHandler
    <2>1. CASE LoopAtEnd'
      BY <1>5, <2>1, LoopSucceeds DEF Abstract!Next
    <2>2. CASE ~LoopAtEnd'
      BY <1>5, <2>2, LoopStutters
    <2>3. QED  BY <2>1, <2>2
  <1>6. CASE ClientForFails \/ InformerFuncFails
    <2>1. Undecided /\ StartRollback /\ UNCHANGED <<watches, handlers, released>>
      BY <1>6 DEF ClientForFails, InformerFuncFails, Undecided, entryVars, handleVars
    <2>2. \A d, l : HandleOf(d, l)' = HandleOf(d, l)
      BY <2>1, HandleOfStable
    <2>3. QED  BY <2>1, <2>2, RollbackFails DEF Abstract!Next
  <1>7. CASE AddEventHandlerFails
    <2> DEFINE k == slice[at]
    <2>1. Undecided /\ StartRollback /\ UNCHANGED <<handlers, released>>
      BY <1>7 DEF AddEventHandlerFails, NeedsHandler, Undecided, handleVars
    <2>2. k \in Keys /\ watches[k] # None
      BY <1>7 DEF AddEventHandlerFails, NeedsHandler, LoopAtEnd, IInv, TypeOK
    <2>3. \A l \in Keys :
             watches'[l] = IF l = k /\ \A d \in Consumers : handlers[watches[k]][d] = None
                           THEN None ELSE watches[l]
      BY <1>7, <2>2 DEF AddEventHandlerFails, StopWatch, IInv, TypeOK
    <2>4. \A d \in Consumers, l \in Keys : HandleOf(d, l)' = HandleOf(d, l)
      BY <2>1, <2>2, <2>3 DEF HandleOf
    <2>5. QED  BY <2>1, <2>4, RollbackFails DEF Abstract!Next
  <1>8. ASSUME NEW k \in Keys,
               ReleaseStale(k) \/ RollbackRelease(k) \/ ReleaseAllRelease(k)
        PROVE  Quiet
    BY <1>8, ReleaseStutters
  <1>9. CASE Commit \/ RollbackReturn \/ ReleaseAllReturn
    BY <1>9, ReturnStutters
  <1>10. ASSUME NEW x \in Contexts, CancelContext(x)
         PROVE  Quiet
    BY <1>10, EnvironmentStutters DEF CancelContext, entryVars, handleVars
  <1>11. ASSUME NEW i \in Informers, RunReturns(i)
         PROVE  Quiet
    BY <1>11, EnvironmentStutters DEF RunReturns, entryVars, handleVars
  <1>12. CASE UNCHANGED vars
    BY <1>12, EnvironmentStutters DEF vars, callVars
  <1>13. QED
    BY <1>1, <1>2, <1>3, <1>4, <1>5, <1>6, <1>7, <1>8, <1>9, <1>10, <1>11, <1>12
       DEF Next, CallStep

\* The registry implements what ConsumerWatches promises its consumers.
THEOREM Refinement == Spec => ImplementsConsumerWatches
  <1>1. Init => Abstract!Init
    BY RefinementInit
  <1>2. IInv /\ IInv' /\ [Next]_vars => [Abstract!Next]_(Abstract!vars)
    BY RefinementStep
  <1>3. QED
    BY <1>1, <1>2, Invariance, PTL DEF Spec, Abstract!Spec, ImplementsConsumerWatches
=============================================================================
