------------------------ MODULE WatchRegistry_proofs ------------------------
(***************************************************************************)
(* Proofs about WatchRegistry, for every value of its constants.           *)
(***************************************************************************)
EXTENDS WatchRegistryInvariant, TLAPS

\* The CHOOSEs of a new name find one, and the name is unused.
LEMMA NewInformerIsFresh ==
    ASSUME FreshInformers # {}
    PROVE  NewInformer \in Informers /\ run[NewInformer] = "none"
  BY DEF FreshInformers, NewInformer

\* The same for handles.
LEMMA NewHandleIsFresh ==
    ASSUME FreshHandles # {}
    PROVE  NewHandle \in Handles /\ registration[NewHandle] = None
  BY DEF FreshHandles, NewHandle

\* stopWatchLocked keeps the registry's variables well typed.
LEMMA StopWatchTypes ==
    ASSUME TypeOK, NEW k \in Keys, watches[k] \in Informers, StopWatch(k)
    PROVE  /\ watches' \in [Keys -> Informers \cup {None}]
           /\ cancelled' \subseteq Informers
           /\ refs' \in [Identities -> Int]
  <1>1. watches' \in [Keys -> Informers \cup {None}]
    BY DEF StopWatch, TypeOK
  <1>2. cancelled' \subseteq Informers
    BY DEF StopWatch, TypeOK
  <1>3. IdentityOf[k] \in Identities /\ refs[IdentityOf[k]] - 1 \in Int
    BY ConstantsAssumption DEF TypeOK
  <1>4. refs' \in [Identities -> Int]
    BY <1>3 DEF StopWatch, TypeOK
  <1>5. QED  BY <1>1, <1>2, <1>4

\* releaseWatchLocked keeps the registry's variables well typed.
LEMMA ReleaseWatchTypes ==
    ASSUME TypeOK, NEW k \in Keys, NEW c \in Consumers, ReleaseWatchLocked(k, c)
    PROVE  /\ watches' \in [Keys -> Informers \cup {None}]
           /\ handlers' \in [Informers -> [Consumers -> Handles \cup {None}]]
           /\ cancelled' \subseteq Informers
           /\ refs' \in [Identities -> Int]
           /\ consumerKeys' \in [Consumers -> SUBSET Keys]
           /\ released' \subseteq Handles
           /\ consumerKeys' = consumerKeys
              \/ consumerKeys' = [consumerKeys EXCEPT ![c] = @ \ {k}]
  <1> USE ConstantsAssumption DEF TypeOK
  <1>1. CASE HandleOf(c, k) = None
    BY <1>1 DEF ReleaseWatchLocked
  <1>2. CASE HandleOf(c, k) # None
    <2>1. watches[k] \in Informers /\ handlers[watches[k]][c] \in Handles
      BY <1>2 DEF HandleOf
    <2>2. /\ handlers' = [handlers EXCEPT ![watches[k]] = [@ EXCEPT ![c] = None]]
          /\ released' = released \cup {handlers[watches[k]][c]}
          /\ consumerKeys' = [consumerKeys EXCEPT ![c] = @ \ {k}]
      BY <1>2 DEF ReleaseWatchLocked
    <2>3. StopWatch(k) \/ UNCHANGED <<watches, cancelled, refs>>
      BY <1>2 DEF ReleaseWatchLocked
    <2>4. /\ watches' \in [Keys -> Informers \cup {None}]
          /\ cancelled' \subseteq Informers
          /\ refs' \in [Identities -> Int]
      BY <2>1, <2>3, StopWatchTypes
    <2>5. handlers' \in [Informers -> [Consumers -> Handles \cup {None}]]
      BY <2>1, <2>2
    <2>6. QED  BY <2>1, <2>2, <2>4, <2>5
  <1>3. QED  BY <1>1, <1>2

\* The empty registry is well typed.
LEMMA TypeInit == Init => TypeOK /\ CallShape
  BY ConstantsAssumption DEF Init, TypeOK, CallShape, LoopAtEnd

\* Every step keeps the types and the shape of the running call.
LEMMA TypeStep == TypeOK /\ CallShape /\ [Next]_vars => TypeOK' /\ CallShape'
  <1> SUFFICES ASSUME TypeOK, CallShape, [Next]_vars
               PROVE  TypeOK' /\ CallShape'
    OBVIOUS
  <1> USE ConstantsAssumption
  <1>1. ASSUME NEW c \in Consumers, NEW x \in Contexts, NEW s \in Slices,
               EnsureWatchSet(c, x, s)
        PROVE  TypeOK' /\ CallShape'
    BY <1>1 DEF EnsureWatchSet, TypeOK, CallShape, LoopAtEnd, entryVars, handleVars
  <1>2. ASSUME NEW c \in Consumers, ReleaseAll(c)
        PROVE  TypeOK' /\ CallShape'
    BY <1>2 DEF ReleaseAll, TypeOK, CallShape, LoopAtEnd, entryVars, handleVars
  <1>3. CASE ClientFor
    BY <1>3 DEF ClientFor, TypeOK, CallShape, LoopAtEnd, callArgs, entryVars, handleVars
  <1>4. CASE ClientForFails
    BY <1>4 DEF ClientForFails, StartRollback, TypeOK, CallShape, LoopAtEnd, entryVars,
                handleVars
  <1>5. CASE InformerFuncFails
    BY <1>5 DEF InformerFuncFails, StartRollback, TypeOK, CallShape, LoopAtEnd, entryVars,
                handleVars
  <1>6. CASE StartInformer
    <2>1. NewInformer \in Informers
      BY <1>6, NewInformerIsFresh DEF StartInformer
    <2>2. QED
      BY <1>6, <2>1 DEF StartInformer, TypeOK, CallShape, LoopAtEnd, callArgs, handleVars
  <1>7. CASE Deduplicate
    BY <1>7 DEF Deduplicate, HandleOf, TypeOK, CallShape, LoopAtEnd, callArgs, entryVars,
                handleVars
  <1>8. CASE AddEventHandler
    <2>1. NewHandle \in Handles
      BY <1>8, NewHandleIsFresh DEF AddEventHandler
    <2>2. QED
      BY <1>8, <2>1 DEF AddEventHandler, NeedsHandler, TypeOK, CallShape, LoopAtEnd, callArgs,
                        Registrations
  <1>9. CASE AddEventHandlerFails
    <2>1. slice[at] \in Keys /\ watches[slice[at]] \in Informers
      BY <1>9 DEF AddEventHandlerFails, NeedsHandler, LoopAtEnd, TypeOK
    <2>2. StopWatch(slice[at]) \/ UNCHANGED <<watches, cancelled, refs>>
      BY <1>9 DEF AddEventHandlerFails
    <2>3. /\ watches' \in [Keys -> Informers \cup {None}]
          /\ cancelled' \subseteq Informers
          /\ refs' \in [Identities -> Int]
      BY <2>1, <2>2, StopWatchTypes DEF TypeOK
    <2>4. QED
      BY <1>9, <2>3 DEF AddEventHandlerFails, NeedsHandler, StartRollback, TypeOK, CallShape,
                        LoopAtEnd, handleVars
  <1>10. ASSUME NEW k \in Keys, ReleaseStale(k)
         PROVE  TypeOK' /\ CallShape'
    <2>1. caller \in Consumers
      BY <1>10 DEF ReleaseStale, CallShape
    <2>2. QED
      BY <1>10, <2>1, ReleaseWatchTypes DEF ReleaseStale, TypeOK, CallShape, LoopAtEnd, callArgs
  <1>11. ASSUME NEW k \in Keys, RollbackRelease(k)
         PROVE  TypeOK' /\ CallShape'
    <2>1. caller \in Consumers
      BY <1>11 DEF RollbackRelease, CallShape
    <2>2. QED
      BY <1>11, <2>1, ReleaseWatchTypes DEF RollbackRelease, TypeOK, CallShape, LoopAtEnd, callArgs
  <1>12. ASSUME NEW k \in Keys, ReleaseAllRelease(k)
         PROVE  TypeOK' /\ CallShape'
    <2>1. caller \in Consumers
      BY <1>12 DEF ReleaseAllRelease, CallShape
    <2>2. QED
      <3>1. /\ consumerKeys' = consumerKeys
               \/ consumerKeys' = [consumerKeys EXCEPT ![caller] = @ \ {k}]
            /\ work' = work \ {k} /\ caller' = caller
        BY <1>12, <2>1, ReleaseWatchTypes DEF ReleaseAllRelease, callArgs
      <3>2. work' \subseteq consumerKeys'[caller]
        BY <1>12, <2>1, <3>1 DEF ReleaseAllRelease, TypeOK, CallShape
      <3>3. TypeOK'
        BY <1>12, <2>1, ReleaseWatchTypes DEF ReleaseAllRelease, TypeOK, callArgs
      <3>4. QED
        BY <1>12, <2>1, <3>1, <3>2, <3>3 DEF ReleaseAllRelease, CallShape, LoopAtEnd, callArgs
  <1>13. CASE Commit
    <2>1. newCurrent \subseteq Keys
      BY <1>13 DEF Commit, newCurrent, LoopAtEnd, TypeOK, CallShape
    <2>2. QED
      BY <1>13, <2>1 DEF Commit, Return, TypeOK, CallShape, LoopAtEnd, entryVars
  <1>14. CASE RollbackReturn
    BY <1>14 DEF RollbackReturn, Return, TypeOK, CallShape, LoopAtEnd, entryVars, handleVars
  <1>15. CASE ReleaseAllReturn
    BY <1>15 DEF ReleaseAllReturn, Return, TypeOK, CallShape, LoopAtEnd, entryVars, handleVars
  <1>16. ASSUME NEW x \in Contexts, CancelContext(x)
         PROVE  TypeOK' /\ CallShape'
    BY <1>16 DEF CancelContext, TypeOK, CallShape, LoopAtEnd, callVars, entryVars, handleVars
  <1>17. ASSUME NEW i \in Informers, RunReturns(i)
         PROVE  TypeOK' /\ CallShape'
    BY <1>17 DEF RunReturns, TypeOK, CallShape, LoopAtEnd, callVars, entryVars, handleVars
  <1>18. CASE UNCHANGED vars
    BY <1>18 DEF vars, TypeOK, CallShape, LoopAtEnd
  <1>19. QED
    BY <1>1, <1>2, <1>3, <1>4, <1>5, <1>6, <1>7, <1>8, <1>9, <1>10, <1>11, <1>12, <1>13,
       <1>14, <1>15, <1>16, <1>17, <1>18 DEF Next, CallStep

\* Type correctness of the registry.
THEOREM TypeCorrect == Spec => []TypeOK
  <1>1. Spec => [](TypeOK /\ CallShape)
    BY TypeInit, TypeStep, PTL DEF Spec
  <1>2. QED
    BY <1>1, PTL

-----------------------------------------------------------------------------
(* The entries.                                                            *)

\* Steps that leave entries, handles and goroutines alone keep EntryInv.
LEMMA EntryInvStable ==
    ASSUME EntryInv, UNCHANGED <<entryVars, registration, released, run>>
    PROVE  EntryInv'
  BY DEF EntryInv, EntriesCurrent, UnusedEntries, HandlersCurrent, UnusedHandles,
         LiveRegistrationIsCurrent, CancelledIffDropped, entryVars

\* Stopping a watch without handlers keeps EntryInv.
LEMMA StopWatchEntryInv ==
    ASSUME TypeOK, EntryInv, NEW k \in Keys, watches[k] # None,
           \A d \in Consumers : handlers[watches[k]][d] = None,
           StopWatch(k),
           UNCHANGED <<handlers, keyOf, registration, released, run>>
    PROVE  EntryInv'
  <1>1. /\ watches[k] \in Informers
        /\ watches' = [watches EXCEPT ![k] = None]
        /\ cancelled' = cancelled \cup {watches[k]}
    BY DEF StopWatch, TypeOK
  <1>2. EntriesCurrent'
    BY <1>1 DEF EntryInv, EntriesCurrent, TypeOK
  <1>3. UnusedEntries' /\ UnusedHandles'
    BY <1>1, ConstantsAssumption DEF EntryInv, UnusedEntries, UnusedHandles, EntriesCurrent, TypeOK
  <1>4. HandlersCurrent'
    <2> SUFFICES ASSUME NEW i \in Informers, NEW c \in Consumers, handlers[i][c] # None
                 PROVE  watches'[keyOf[i]] = i
      BY DEF EntryInv, HandlersCurrent
    <2>1. keyOf[i] # None /\ watches[keyOf[i]] = i
      BY DEF EntryInv, HandlersCurrent
    <2>2. keyOf[i] \in Keys
      BY <2>1 DEF TypeOK
    <2>3. i # watches[k]
      OBVIOUS
    <2>4. QED  BY <1>1, <2>1, <2>2, <2>3 DEF TypeOK
  <1>5. LiveRegistrationIsCurrent'
    <2> SUFFICES ASSUME NEW h \in Handles, registration[h] # None, h \notin released
                 PROVE  watches'[registration[h].key] = registration[h].informer
      BY DEF EntryInv, LiveRegistrationIsCurrent
    <2>1. registration[h] \in Registrations
      BY DEF TypeOK
    <2>2. /\ watches[registration[h].key] = registration[h].informer
          /\ handlers[registration[h].informer][registration[h].consumer] = h
      BY DEF EntryInv, LiveRegistrationIsCurrent
    <2>3. h # None
      BY ConstantsAssumption
    <2>4. registration[h].key # k
      BY <2>1, <2>2, <2>3 DEF Registrations
    <2>5. QED  BY <1>1, <2>1, <2>2, <2>4 DEF Registrations, TypeOK
  <1>6. CancelledIffDropped'
    <2> SUFFICES ASSUME NEW i \in Informers, keyOf[i] # None
                 PROVE  i \in cancelled' <=> watches'[keyOf[i]] # i
      BY DEF CancelledIffDropped
    <2>1. i \in cancelled <=> watches[keyOf[i]] # i
      BY DEF EntryInv, CancelledIffDropped
    <2>2. keyOf[watches[k]] = k /\ None \notin Informers
      BY ConstantsAssumption DEF EntryInv, EntriesCurrent
    <2>3. CASE keyOf[i] = k
      BY <1>1, <2>1, <2>2, <2>3 DEF TypeOK
    <2>4. CASE keyOf[i] # k
      BY <1>1, <2>1, <2>2, <2>4 DEF TypeOK
    <2>5. QED  BY <2>3, <2>4
  <1>7. QED  BY <1>2, <1>3, <1>4, <1>5, <1>6 DEF EntryInv

\* releaseWatchLocked takes one consumer's handler off one key and no other ...
LEMMA ReleaseWatchHandles ==
    ASSUME TypeOK, EntryInv, NEW k \in Keys, NEW c \in Consumers, ReleaseWatchLocked(k, c)
    PROVE  /\ \A d \in Consumers, l \in Keys :
                 HandleOf(d, l)' = IF d = c /\ l = k THEN None ELSE HandleOf(d, l)
           /\ \A l \in Keys : watches'[l] # None =>
                 /\ watches[l] # None
                 /\ (\E d \in Consumers : HandleOf(d, l)' # None) \/ l # k \/ HandleOf(c, k) = None
           /\ HandleOf(c, k) # None =>
                 consumerKeys' = [consumerKeys EXCEPT ![c] = @ \ {k}]
           /\ HandleOf(c, k) = None => consumerKeys' = consumerKeys
  <1>1. CASE HandleOf(c, k) = None
    BY <1>1 DEF ReleaseWatchLocked, HandleOf
  <1>2. CASE HandleOf(c, k) # None
    <2> DEFINE w == watches[k]
    <2>1. w \in Informers /\ keyOf[w] = k /\ handlers[w][c] # None
      BY <1>2 DEF HandleOf, TypeOK, EntryInv, EntriesCurrent
    <2>2. /\ handlers' = [handlers EXCEPT ![w] = [@ EXCEPT ![c] = None]]
          /\ consumerKeys' = [consumerKeys EXCEPT ![c] = @ \ {k}]
          /\ IF LastHandler(w, c) THEN StopWatch(k) ELSE UNCHANGED watches
      BY <1>2 DEF ReleaseWatchLocked
    <2>3. \A i \in Informers, d \in Consumers :
             handlers'[i][d] = IF i = w /\ d = c THEN None ELSE handlers[i][d]
      BY <2>1, <2>2 DEF TypeOK
    <2>4. \A l \in Keys \ {k} : watches'[l] = watches[l] /\ watches[l] # w
      <3>1. \A l \in Keys \ {k} : watches[l] # None => keyOf[watches[l]] = l
        BY DEF EntryInv, EntriesCurrent
      <3>2. w # None
        BY <1>2 DEF HandleOf
      <3>3. QED  BY <2>1, <2>2, <3>1, <3>2 DEF StopWatch, TypeOK
    <2>5. \A d \in Consumers, l \in Keys \ {k} : HandleOf(d, l)' = HandleOf(d, l)
      BY <2>3, <2>4 DEF HandleOf, TypeOK
    <2>6. CASE LastHandler(w, c)
      <3>1. watches'[k] = None
        BY <2>2, <2>6 DEF StopWatch, TypeOK
      <3>2. \A d \in Consumers \ {c} : HandleOf(d, k) = None
        BY <2>6, <1>2 DEF LastHandler, HandleOf
      <3>3. QED  BY <1>2, <2>2, <2>4, <2>5, <3>1, <3>2 DEF HandleOf
    <2>7. CASE ~LastHandler(w, c)
      <3>1. watches' = watches
        BY <2>2, <2>7
      <3>2. \A d \in Consumers : HandleOf(d, k)' = IF d = c THEN None ELSE HandleOf(d, k)
        BY <1>2, <2>1, <2>3, <3>1 DEF HandleOf
      <3>3. \E d \in Consumers : HandleOf(d, k)' # None
        <4>1. PICK d \in Consumers \ {c} : handlers[w][d] # None
          BY <2>7 DEF LastHandler
        <4>2. HandleOf(d, k) # None
          BY <1>2, <4>1 DEF HandleOf
        <4>3. QED  BY <3>2, <4>1, <4>2
      <3>4. QED  BY <1>2, <2>2, <2>5, <3>1, <3>2, <3>3
    <2>8. QED  BY <2>6, <2>7
  <1>3. QED  BY <1>1, <1>2

\* ... and keeps EntryInv.
LEMMA ReleaseWatchEntryInv ==
    ASSUME TypeOK, EntryInv, NEW k \in Keys, NEW c \in Consumers, ReleaseWatchLocked(k, c),
           UNCHANGED <<keyOf, ctxOf, registration, run>>
    PROVE  EntryInv'
  <1>1. CASE HandleOf(c, k) = None
    BY <1>1, EntryInvStable DEF ReleaseWatchLocked, entryVars
  <1>2. CASE HandleOf(c, k) # None
    <2> DEFINE w == watches[k]
               h == handlers[w][c]
    <2>1. w \in Informers /\ w # None /\ keyOf[w] = k /\ h \in Handles /\ h # None
      BY <1>2 DEF HandleOf, TypeOK, EntryInv, EntriesCurrent
    <2>2. /\ handlers' = [handlers EXCEPT ![w] = [@ EXCEPT ![c] = None]]
          /\ released' = released \cup {h}
          /\ IF LastHandler(w, c) THEN StopWatch(k) ELSE UNCHANGED <<watches, cancelled>>
      BY <1>2 DEF ReleaseWatchLocked
    <2>3. \A i \in Informers, d \in Consumers :
             handlers'[i][d] = IF i = w /\ d = c THEN None ELSE handlers[i][d]
      BY <2>1, <2>2 DEF TypeOK
    <2>4. registration[h] = [key |-> k, consumer |-> c, informer |-> w]
      BY <2>1 DEF EntryInv, HandlersCurrent
    <2>5. \A i \in Informers, d \in Consumers : handlers[i][d] = h => i = w /\ d = c
      <3> SUFFICES ASSUME NEW i \in Informers, NEW d \in Consumers, handlers[i][d] = h
                   PROVE  i = w /\ d = c
        OBVIOUS
      <3>1. registration[h] = [key |-> keyOf[i], consumer |-> d, informer |-> i]
        BY <2>1 DEF EntryInv, HandlersCurrent
      <3>2. registration[h].consumer = d /\ registration[h].informer = i
        BY <3>1
      <3>3. registration[h].consumer = c /\ registration[h].informer = w
        BY <2>4
      <3>4. QED  BY <3>2, <3>3
    <2>6. \A l \in Keys : watches'[l] = IF l = k /\ LastHandler(w, c) THEN None ELSE watches[l]
      BY <2>2 DEF StopWatch, TypeOK
    <2>7. cancelled' = IF LastHandler(w, c) THEN cancelled \cup {w} ELSE cancelled
      BY <2>2 DEF StopWatch
    <2>8. \A l \in Keys : watches[l] = w => l = k
      BY <2>1 DEF EntryInv, EntriesCurrent
    <2>9. EntriesCurrent'
      BY <2>1, <2>6, <2>7, <2>8 DEF EntryInv, EntriesCurrent
    <2>10. UnusedEntries' /\ UnusedHandles'
      <3>1. UnusedEntries'
        BY <2>1, <2>7, ConstantsAssumption DEF EntryInv, UnusedEntries
      <3>2. registration[h] # None
        BY <2>1, <2>4, ConstantsAssumption
      <3>3. UnusedHandles'
        BY <2>2, <3>2 DEF EntryInv, UnusedHandles
      <3>4. QED  BY <3>1, <3>3
    <2>11. HandlersCurrent'
      <3> SUFFICES ASSUME NEW i \in Informers, NEW d \in Consumers, handlers'[i][d] # None
                   PROVE  /\ keyOf[i] # None
                          /\ watches'[keyOf[i]] = i
                          /\ handlers'[i][d] \notin released'
                          /\ registration[handlers'[i][d]] =
                                [key |-> keyOf[i], consumer |-> d, informer |-> i]
        BY DEF HandlersCurrent
      <3>1. handlers'[i][d] = handlers[i][d] /\ ~(i = w /\ d = c)
        BY <2>3
      <3>2. /\ keyOf[i] \in Keys
            /\ watches[keyOf[i]] = i
            /\ handlers[i][d] \notin released
            /\ registration[handlers[i][d]] =
                  [key |-> keyOf[i], consumer |-> d, informer |-> i]
        BY <3>1 DEF EntryInv, HandlersCurrent, TypeOK
      <3>3. handlers'[i][d] \notin released'
        BY <2>2, <2>5, <3>1, <3>2
      <3>4. watches'[keyOf[i]] = i
        <4>1. CASE keyOf[i] = k
          BY <2>6, <3>1, <3>2, <4>1 DEF LastHandler
        <4>2. CASE keyOf[i] # k
          BY <2>6, <3>2, <4>2
        <4>3. QED  BY <4>1, <4>2
      <3>5. QED  BY <3>1, <3>2, <3>3, <3>4, ConstantsAssumption
    <2>12. LiveRegistrationIsCurrent'
      <3> SUFFICES ASSUME NEW g \in Handles, registration[g] # None, g \notin released'
                   PROVE  /\ watches'[registration[g].key] = registration[g].informer
                          /\ handlers'[registration[g].informer][registration[g].consumer] = g
        BY DEF LiveRegistrationIsCurrent
      <3> DEFINE r == registration[g]
      <3>1. r.key \in Keys /\ r.consumer \in Consumers /\ r.informer \in Informers
        BY DEF TypeOK, Registrations
      <3>2. g # h /\ g # None
        BY <2>2, ConstantsAssumption
      <3>3. watches[r.key] = r.informer /\ handlers[r.informer][r.consumer] = g
        BY <2>2 DEF EntryInv, LiveRegistrationIsCurrent
      <3>4. ~(r.informer = w /\ r.consumer = c)
        BY <3>2, <3>3
      <3>5. handlers'[r.informer][r.consumer] = g
        BY <2>3, <3>1, <3>3, <3>4
      <3>6. watches'[r.key] = r.informer
        <4>1. CASE r.key = k
          BY <2>6, <3>1, <3>2, <3>3, <3>4, <4>1 DEF LastHandler
        <4>2. CASE r.key # k
          BY <2>6, <3>1, <3>3, <4>2
        <4>3. QED  BY <4>1, <4>2
      <3>7. QED  BY <3>5, <3>6
    <2>13. CancelledIffDropped'
      <3> SUFFICES ASSUME NEW i \in Informers, keyOf[i] # None
                   PROVE  i \in cancelled' <=> watches'[keyOf[i]] # i
        BY DEF CancelledIffDropped
      <3>1. (i \in cancelled <=> watches[keyOf[i]] # i) /\ keyOf[i] \in Keys
        BY DEF EntryInv, CancelledIffDropped, TypeOK
      <3>2. i # None
        BY ConstantsAssumption
      <3>3. QED  BY <2>1, <2>6, <2>7, <2>8, <3>1, <3>2
    <2>14. QED  BY <2>9, <2>10, <2>11, <2>12, <2>13 DEF EntryInv
  <1>3. QED  BY <1>1, <1>2

\* A new entry for an unwatched key keeps EntryInv.
LEMMA StartInformerEntryInv ==
    ASSUME TypeOK, CallShape, EntryInv, StartInformer
    PROVE  EntryInv'
  <1> DEFINE i == NewInformer
             k == slice[at]
  <1>1. i \in Informers /\ keyOf[i] = None /\ i \notin cancelled
    BY NewInformerIsFresh DEF StartInformer, EntryInv, UnusedEntries
  <1>2. k \in Keys /\ watches[k] = None /\ parentCtx \in Contexts
    BY DEF StartInformer, CallShape, LoopAtEnd, TypeOK
  <1>3. /\ watches' = [watches EXCEPT ![k] = i]
        /\ keyOf' = [keyOf EXCEPT ![i] = k]
        /\ run' = [run EXCEPT ![i] = "running"]
        /\ UNCHANGED <<handlers, cancelled, registration, released>>
    BY DEF StartInformer, handleVars
  <1>4. k # None /\ i # None
    BY <1>1, <1>2, ConstantsAssumption
  <1>5. EntriesCurrent'
    <2> SUFFICES ASSUME NEW l \in Keys, watches'[l] # None
                 PROVE  keyOf'[watches'[l]] = l /\ watches'[l] \notin cancelled
      BY <1>3 DEF EntriesCurrent
    <2>1. CASE l = k
      BY <1>1, <1>2, <1>3, <2>1 DEF TypeOK
    <2>2. CASE l # k
      <3>1. watches'[l] = watches[l] /\ watches[l] \in Informers
        BY <1>2, <1>3, <2>2 DEF TypeOK
      <3>2. keyOf[watches[l]] = l /\ watches[l] \notin cancelled /\ l # None
        BY <3>1, ConstantsAssumption DEF EntryInv, EntriesCurrent
      <3>3. QED  BY <1>1, <1>3, <3>1, <3>2 DEF TypeOK
    <2>3. QED  BY <2>1, <2>2
  <1>6. UnusedEntries'
    BY <1>1, <1>3, <1>4 DEF EntryInv, UnusedEntries, TypeOK
  <1>7. UnusedHandles'
    BY <1>3 DEF EntryInv, UnusedHandles
  <1>8. HandlersCurrent'
    <2> SUFFICES ASSUME NEW j \in Informers, NEW c \in Consumers, handlers[j][c] # None
                 PROVE  keyOf'[j] = keyOf[j] /\ watches'[keyOf[j]] = j
      BY <1>3 DEF EntryInv, HandlersCurrent
    <2>1. keyOf[j] # None /\ watches[keyOf[j]] = j
      BY DEF EntryInv, HandlersCurrent
    <2>2. keyOf[j] \in Keys /\ j # i /\ keyOf[j] # k
      BY <1>1, <1>2, <2>1, ConstantsAssumption DEF TypeOK
    <2>3. QED  BY <1>3, <2>1, <2>2 DEF TypeOK
  <1>9. LiveRegistrationIsCurrent'
    <2> SUFFICES ASSUME NEW h \in Handles, registration[h] # None, h \notin released
                 PROVE  watches'[registration[h].key] = registration[h].informer
      BY <1>3 DEF EntryInv, LiveRegistrationIsCurrent
    <2>1. watches[registration[h].key] = registration[h].informer
      BY DEF EntryInv, LiveRegistrationIsCurrent
    <2>2. registration[h].key \in Keys /\ registration[h].informer \in Informers
      BY DEF TypeOK, Registrations
    <2>3. registration[h].key # k
      BY <1>2, <2>1, <2>2, ConstantsAssumption
    <2>4. QED  BY <1>3, <2>1, <2>2, <2>3 DEF TypeOK
  <1>10. CancelledIffDropped'
    <2> SUFFICES ASSUME NEW j \in Informers, keyOf'[j] # None
                 PROVE  j \in cancelled <=> watches'[keyOf'[j]] # j
      BY <1>3 DEF CancelledIffDropped
    <2>1. CASE j = i
      BY <1>1, <1>2, <1>3, <2>1 DEF TypeOK
    <2>2. CASE j # i
      <3>1. keyOf'[j] = keyOf[j] /\ keyOf[j] \in Keys
        BY <1>3, <2>2 DEF TypeOK
      <3>2. j \in cancelled <=> watches[keyOf[j]] # j
        BY <3>1, ConstantsAssumption DEF EntryInv, CancelledIffDropped
      <3>3. j # None
        BY ConstantsAssumption
      <3>4. CASE keyOf[j] = k
        BY <1>2, <1>3, <2>2, <3>1, <3>2, <3>3, <3>4 DEF TypeOK
      <3>5. CASE keyOf[j] # k
        BY <1>3, <3>1, <3>2, <3>5 DEF TypeOK
      <3>6. QED  BY <3>4, <3>5
    <2>3. QED  BY <2>1, <2>2
  <1>11. QED  BY <1>5, <1>6, <1>7, <1>8, <1>9, <1>10 DEF EntryInv

\* A new handler, on a watched entry that lacks it, keeps EntryInv.
LEMMA AddEventHandlerEntryInv ==
    ASSUME TypeOK, CallShape, EntryInv, AddEventHandler
    PROVE  EntryInv'
  <1> DEFINE h == NewHandle
             k == slice[at]
             i == watches[k]
  <1>1. h \in Handles /\ registration[h] = None /\ h # None
    BY NewHandleIsFresh, ConstantsAssumption DEF AddEventHandler
  <1>2. k \in Keys /\ i \in Informers /\ caller \in Consumers
    BY DEF AddEventHandler, NeedsHandler, CallShape, LoopAtEnd, TypeOK
  <1>3. keyOf[i] = k /\ handlers[i][caller] = None /\ i # None
    BY <1>2 DEF AddEventHandler, NeedsHandler, HandleOf, EntryInv, EntriesCurrent
  <1>4. /\ handlers' = [handlers EXCEPT ![i] = [@ EXCEPT ![caller] = h]]
        /\ registration' = [registration EXCEPT
              ![h] = [key |-> k, consumer |-> caller, informer |-> i]]
        /\ UNCHANGED <<watches, keyOf, cancelled, released, run>>
    BY DEF AddEventHandler
  <1>5. \A j \in Informers, d \in Consumers :
           handlers'[j][d] = IF j = i /\ d = caller THEN h ELSE handlers[j][d]
    BY <1>2, <1>4 DEF TypeOK
  <1>6. \A g \in Handles : registration'[g] =
           IF g = h THEN [key |-> k, consumer |-> caller, informer |-> i] ELSE registration[g]
    BY <1>1, <1>4 DEF TypeOK
  <1>7. h \notin released
    BY <1>1 DEF EntryInv, UnusedHandles
  <1>8. EntriesCurrent' /\ UnusedEntries' /\ CancelledIffDropped'
    BY <1>4 DEF EntryInv, EntriesCurrent, UnusedEntries, CancelledIffDropped
  <1>9. UnusedHandles'
    BY <1>4, <1>6, <1>7 DEF EntryInv, UnusedHandles
  <1>10. HandlersCurrent'
    <2> SUFFICES ASSUME NEW j \in Informers, NEW d \in Consumers, handlers'[j][d] # None
                 PROVE  /\ keyOf[j] # None
                        /\ watches[keyOf[j]] = j
                        /\ handlers'[j][d] \notin released
                        /\ registration'[handlers'[j][d]] =
                              [key |-> keyOf[j], consumer |-> d, informer |-> j]
      BY <1>4 DEF HandlersCurrent
    <2>1. CASE j = i /\ d = caller
      BY <1>1, <1>2, <1>3, <1>5, <1>6, <1>7, <2>1, ConstantsAssumption
    <2>2. CASE ~(j = i /\ d = caller)
      <3>1. handlers'[j][d] = handlers[j][d] /\ handlers[j][d] \in Handles
        BY <1>5, <2>2 DEF TypeOK
      <3>2. /\ keyOf[j] # None
            /\ watches[keyOf[j]] = j
            /\ handlers[j][d] \notin released
            /\ registration[handlers[j][d]] =
                  [key |-> keyOf[j], consumer |-> d, informer |-> j]
        BY <3>1 DEF EntryInv, HandlersCurrent
      <3>3. keyOf[j] \in Keys
        BY <3>2 DEF TypeOK
      <3>4. registration[handlers[j][d]] # None
        BY <3>2, <3>3, ConstantsAssumption
      <3>5. QED  BY <1>1, <1>6, <3>1, <3>2, <3>4
    <2>3. QED  BY <2>1, <2>2
  <1>11. LiveRegistrationIsCurrent'
    <2> SUFFICES ASSUME NEW g \in Handles, registration'[g] # None, g \notin released
                 PROVE  /\ watches[registration'[g].key] = registration'[g].informer
                        /\ handlers'[registration'[g].informer][registration'[g].consumer] = g
      BY <1>4 DEF LiveRegistrationIsCurrent
    <2>1. CASE g = h
      <3>1. /\ registration'[g].key = k
            /\ registration'[g].informer = i
            /\ registration'[g].consumer = caller
        BY <1>6, <2>1
      <3>2. QED  BY <1>2, <1>5, <2>1, <3>1
    <2>2. CASE g # h
      <3>1. registration'[g] = registration[g] /\ registration[g] # None
        BY <1>6, <2>2
      <3>2. registration[g].informer \in Informers /\ registration[g].consumer \in Consumers
        BY <3>1 DEF TypeOK, Registrations
      <3>3. /\ watches[registration[g].key] = registration[g].informer
            /\ handlers[registration[g].informer][registration[g].consumer] = g
        BY <3>1 DEF EntryInv, LiveRegistrationIsCurrent
      <3>4. ~(registration[g].informer = i /\ registration[g].consumer = caller)
        BY <1>3, <3>3, ConstantsAssumption
      <3>5. QED  BY <1>5, <3>1, <3>2, <3>3, <3>4
    <2>3. QED  BY <2>1, <2>2
  <1>12. QED  BY <1>8, <1>9, <1>10, <1>11 DEF EntryInv

-----------------------------------------------------------------------------
(* The loop of EnsureWatchSet, the index and the orphans.                  *)

\* Advancing the loop moves the head from the keys to come to those passed.
LEMMA LoopAdvances ==
    ASSUME TypeOK, ~LoopAtEnd, UNCHANGED slice, at' = at + 1
    PROVE  /\ newCurrent' = newCurrent \cup {slice[at]}
           /\ todo' \subseteq todo
           /\ todo \subseteq todo' \cup {slice[at]}
           /\ slice[at] \in todo
  BY DEF newCurrent, todo, LoopAtEnd, TypeOK

\* At the end nothing is left to do.
LEMMA LoopEnds ==
    ASSUME TypeOK, LoopAtEnd
    PROVE  todo = {}
  BY DEF todo, LoopAtEnd, TypeOK

\* The handles do not move in a step that leaves the entries alone.
LEMMA HandleOfStable ==
    ASSUME UNCHANGED <<watches, handlers>>
    PROVE  \A c, k : HandleOf(c, k)' = HandleOf(c, k)
  BY DEF HandleOf

CallInv == LoopBookkeeping /\ IndexInSync /\ NoOrphanInformer

\* A handler released by the running call, when consumerKeys or the uncommitted
\* keys give it up at the same time, leaves no orphan.
LEMMA ReleaseWatchNoOrphan ==
    ASSUME TypeOK, EntryInv, NoOrphanInformer, LoopAtEnd \/ pc # "ensure",
           NEW k \in Keys, NEW c \in Consumers, ReleaseWatchLocked(k, c)
    PROVE  NoOrphanInformer'
  <1> SUFFICES ASSUME NEW l \in Keys, watches'[l] # None
               PROVE  \E d \in Consumers : HandleOf(d, l)' # None
    BY DEF NoOrphanInformer
  <1>1. watches[l] # None
    BY ReleaseWatchHandles
  <1>2. PICK d \in Consumers : HandleOf(d, l) # None
    BY <1>1 DEF NoOrphanInformer
  <1>3. CASE l # k \/ HandleOf(c, k) = None
    BY <1>2, <1>3, ReleaseWatchHandles
  <1>4. CASE l = k /\ HandleOf(c, k) # None
    BY <1>4, ReleaseWatchHandles
  <1>5. QED  BY <1>3, <1>4

\* Steps of the call that end in a rollback and leave the handlers alone.
LEMMA StartRollbackCallInv ==
    ASSUME TypeOK, CallShape, CallInv, pc \in {"ensure", "build"}, StartRollback,
           \A d \in Consumers, l \in Keys : HandleOf(d, l)' = HandleOf(d, l),
           \A l \in Keys : watches'[l] # None =>
               watches[l] # None /\ \E d \in Consumers : HandleOf(d, l) # None,
           UNCHANGED consumerKeys
    PROVE  CallInv'
  <1>1. LoopBookkeeping'
    BY DEF LoopBookkeeping, StartRollback
  <1>2. Uncommitted' = Uncommitted /\ caller' = caller
    BY DEF Uncommitted, StartRollback
  <1>3. IndexInSync'
    BY <1>2 DEF CallInv, IndexInSync
  <1>4. NoOrphanInformer'
    BY DEF NoOrphanInformer
  <1>5. QED  BY <1>1, <1>3, <1>4 DEF CallInv

\* One iteration of a release loop outside EnsureWatchSet's own loop: the caller
\* has the key, committed or not, and gives it up.
LEMMA ReleaseStepIndex ==
    ASSUME TypeOK, CallShape, EntryInv, IndexInSync, NEW k \in work,
           pc \in {"ensure", "rollback", "releaseAll"},
           pc = "rollback" => k \notin consumerKeys[caller],
           pc # "rollback" => k \in consumerKeys[caller],
           ReleaseWatchLocked(k, caller), work' = work \ {k},
           UNCHANGED <<pc, caller, newlyAdded>>
    PROVE  IndexInSync' /\ (pc # "rollback" => consumerKeys'[caller] = consumerKeys[caller] \ {k})
  <1>1. caller \in Consumers /\ k \in Keys
    BY DEF CallShape, TypeOK
  <1>2. HandleOf(caller, k) # None
    BY <1>1 DEF IndexInSync, Uncommitted
  <1>3. consumerKeys' = [consumerKeys EXCEPT ![caller] = @ \ {k}]
    BY <1>1, <1>2, ReleaseWatchHandles
  <1>4. consumerKeys'[caller] = consumerKeys[caller] \ {k}
        /\ \A d \in Consumers \ {caller} : consumerKeys'[d] = consumerKeys[d]
    BY <1>1, <1>3 DEF TypeOK
  <1>5. \A d \in Consumers, l \in Keys :
           HandleOf(d, l)' = IF d = caller /\ l = k THEN None ELSE HandleOf(d, l)
    BY <1>1, ReleaseWatchHandles
  <1>6. CASE pc = "rollback"
    <2>1. Uncommitted = work /\ Uncommitted' = work \ {k}
      BY <1>6 DEF Uncommitted
    <2>2. QED  BY <1>1, <1>4, <1>5, <1>6, <2>1 DEF IndexInSync
  <1>7. CASE pc # "rollback"
    <2>1. Uncommitted' = Uncommitted /\ k \notin Uncommitted
      BY <1>1, <1>7 DEF Uncommitted, IndexInSync
    <2>2. QED  BY <1>1, <1>4, <1>5, <1>7, <2>1 DEF IndexInSync
  <1>8. QED  BY <1>6, <1>7

\* Every step keeps the index, the loop's bookkeeping and the absence of orphans.
LEMMA CallInvStep ==
    ASSUME TypeOK, CallShape, EntryInv, CallInv, [Next]_vars
    PROVE  CallInv'
  <1> USE DEF CallInv
  <1>1. ASSUME NEW c \in Consumers, NEW x \in Contexts, NEW s \in Slices,
               EnsureWatchSet(c, x, s)
        PROVE  CallInv'
    <2>1. /\ at = 1 /\ at' = 1 /\ newlyAdded = {} /\ newlyAdded' = {} /\ work = {}
          /\ slice' = s /\ caller' = c /\ pc' = "ensure" /\ caller = None
          /\ work' = consumerKeys[c] \ KeysIn(s)
          /\ UNCHANGED <<watches, handlers, consumerKeys>>
      BY <1>1 DEF EnsureWatchSet, CallShape, entryVars, handleVars
    <2>2. newCurrent' = {} /\ todo' = KeysIn(s)
      BY <2>1 DEF newCurrent, todo, KeysIn
    <2>3. LoopBookkeeping'
      BY <2>1, <2>2 DEF LoopBookkeeping
    <2>4. \A d, k : HandleOf(d, k)' = HandleOf(d, k)
      BY <2>1, HandleOfStable
    <2>5. IndexInSync'
      <3>1. Uncommitted' = {} /\ Uncommitted = {}
        BY <2>1 DEF Uncommitted
      <3>2. QED  BY <2>1, <2>4, <3>1 DEF IndexInSync
    <2>6. NoOrphanInformer'
      BY <1>1, <2>1, <2>4 DEF NoOrphanInformer, EnsureWatchSet
    <2>7. QED  BY <2>3, <2>5, <2>6
  <1>2. ASSUME NEW c \in Consumers, ReleaseAll(c)
        PROVE  CallInv'
    <2>1. /\ newlyAdded = {} /\ newlyAdded' = {} /\ work = {} /\ pc = "idle"
          /\ caller' = c /\ pc' = "releaseAll" /\ caller = None
          /\ UNCHANGED <<watches, handlers, consumerKeys>>
      BY <1>2 DEF ReleaseAll, CallShape, entryVars, handleVars
    <2>2. \A d, k : HandleOf(d, k)' = HandleOf(d, k)
      BY <2>1, HandleOfStable
    <2>3. Uncommitted' = {} /\ Uncommitted = {}
      BY <2>1 DEF Uncommitted
    <2>4. QED  BY <2>1, <2>2, <2>3 DEF LoopBookkeeping, IndexInSync, NoOrphanInformer
  <1>3. CASE ClientFor
    <2>1. /\ UNCHANGED <<watches, handlers, consumerKeys, caller, slice, at, newlyAdded, work>>
          /\ pc = "ensure" /\ pc' = "build" /\ watches[slice[at]] = None /\ ~LoopAtEnd
      BY <1>3 DEF ClientFor, callArgs, entryVars, handleVars
    <2>2. \A d, k : HandleOf(d, k)' = HandleOf(d, k)
      BY <2>1, HandleOfStable
    <2>3. LoopBookkeeping' /\ IndexInSync'
      BY <2>1, <2>2 DEF LoopBookkeeping, IndexInSync, newCurrent, todo, Uncommitted
    <2>4. NoOrphanInformer'
      BY <2>1, <2>2 DEF NoOrphanInformer
    <2>5. QED  BY <2>3, <2>4
  <1>4. CASE ClientForFails
    <2>1. pc = "ensure" /\ watches[slice[at]] = None /\ StartRollback
          /\ UNCHANGED <<watches, handlers, consumerKeys>>
      BY <1>4 DEF ClientForFails, entryVars, handleVars
    <2>2. \A d, k : HandleOf(d, k)' = HandleOf(d, k)
      BY <2>1, HandleOfStable
    <2>3. \A l \in Keys : watches[l] # None => \E d \in Consumers : HandleOf(d, l) # None
      BY <2>1 DEF NoOrphanInformer
    <2>4. QED  BY <2>1, <2>2, <2>3, StartRollbackCallInv
  <1>5. CASE InformerFuncFails
    <2>1. pc = "build" /\ StartRollback /\ UNCHANGED <<watches, handlers, consumerKeys>>
      BY <1>5 DEF InformerFuncFails, entryVars, handleVars
    <2>2. \A d, k : HandleOf(d, k)' = HandleOf(d, k)
      BY <2>1, HandleOfStable
    <2>3. \A l \in Keys : watches[l] # None => \E d \in Consumers : HandleOf(d, l) # None
      BY <2>1 DEF NoOrphanInformer
    <2>4. QED  BY <2>1, <2>2, <2>3, StartRollbackCallInv
  <1>6. CASE StartInformer
    <2> DEFINE i == NewInformer
               k == slice[at]
    <2>1. i \in Informers /\ i # None /\ \A d \in Consumers : handlers[i][d] = None
      <3>1. i \in Informers /\ keyOf[i] = None
        BY <1>6, NewInformerIsFresh DEF StartInformer, EntryInv, UnusedEntries
      <3>2. QED  BY <3>1, ConstantsAssumption DEF EntryInv, HandlersCurrent
    <2>2. k \in Keys /\ watches[k] = None /\ ~LoopAtEnd
      BY <1>6 DEF StartInformer, CallShape, LoopAtEnd, TypeOK
    <2>3. /\ watches' = [watches EXCEPT ![k] = i]
          /\ UNCHANGED <<handlers, consumerKeys, caller, slice, at, newlyAdded, work>>
          /\ pc = "build" /\ pc' = "ensure"
      BY <1>6 DEF StartInformer, callArgs, handleVars
    <2>4. \A l \in Keys : watches'[l] = IF l = k THEN i ELSE watches[l]
      BY <2>2, <2>3 DEF TypeOK
    <2>5. \A d \in Consumers, l \in Keys : HandleOf(d, l)' = HandleOf(d, l)
      BY <2>1, <2>2, <2>3, <2>4 DEF HandleOf
    <2>6. LoopBookkeeping' /\ IndexInSync'
      BY <2>3, <2>5 DEF LoopBookkeeping, IndexInSync, newCurrent, todo, Uncommitted
    <2>7. NoOrphanInformer'
      BY <2>2, <2>3, <2>4, <2>5 DEF NoOrphanInformer, LoopAtEnd
    <2>8. QED  BY <2>6, <2>7
  <1>7. CASE Deduplicate
    <2>1. /\ pc = "ensure" /\ ~LoopAtEnd /\ at' = at + 1
          /\ HandleOf(caller, slice[at]) # None
          /\ UNCHANGED <<watches, handlers, consumerKeys, pc, caller, slice, newlyAdded, work>>
      BY <1>7 DEF Deduplicate, callArgs, entryVars, handleVars
    <2>2. caller \in Consumers /\ slice[at] \in Keys
      BY <2>1 DEF CallShape, LoopAtEnd, TypeOK
    <2>3. \A d, k : HandleOf(d, k)' = HandleOf(d, k)
      BY <2>1, HandleOfStable
    <2>4. slice[at] \in consumerKeys[caller] \cup newlyAdded
      BY <2>1, <2>2 DEF IndexInSync, Uncommitted
    <2>5. LoopBookkeeping'
      BY <2>1, <2>4, LoopAdvances DEF LoopBookkeeping
    <2>6. IndexInSync'
      BY <2>1, <2>3 DEF IndexInSync, Uncommitted
    <2>7. NoOrphanInformer'
      BY <2>1, <2>2, <2>3 DEF NoOrphanInformer
    <2>8. QED  BY <2>5, <2>6, <2>7
  <1>8. CASE AddEventHandler
    <2> DEFINE k == slice[at]
               w == watches[k]
    <2>1. /\ pc = "ensure" /\ ~LoopAtEnd /\ at' = at + 1
          /\ w # None /\ HandleOf(caller, k) = None
          /\ handlers' = [handlers EXCEPT ![w] = [@ EXCEPT ![caller] = NewHandle]]
          /\ newlyAdded' = newlyAdded \cup {k}
          /\ UNCHANGED <<watches, consumerKeys, pc, caller, slice, work>>
      BY <1>8 DEF AddEventHandler, NeedsHandler, callArgs
    <2>2. caller \in Consumers /\ k \in Keys /\ w \in Informers
      BY <2>1 DEF CallShape, LoopAtEnd, TypeOK
    <2>3. NewHandle # None
      BY <1>8, NewHandleIsFresh, ConstantsAssumption DEF AddEventHandler
    <2>4. \A j \in Informers, d \in Consumers :
             handlers'[j][d] = IF j = w /\ d = caller THEN NewHandle ELSE handlers[j][d]
      BY <2>1, <2>2 DEF TypeOK
    <2>5. \A l \in Keys : watches[l] = w => l = k
      BY <2>1, <2>2 DEF EntryInv, EntriesCurrent
    <2>6. \A d \in Consumers, l \in Keys :
             HandleOf(d, l)' = IF d = caller /\ l = k THEN NewHandle ELSE HandleOf(d, l)
      BY <2>1, <2>2, <2>4, <2>5 DEF HandleOf, TypeOK
    <2>7. k \notin consumerKeys[caller]
      BY <2>1, <2>2 DEF IndexInSync
    <2>8. LoopBookkeeping'
      BY <2>1, LoopAdvances DEF LoopBookkeeping
    <2>9. IndexInSync'
      <3>1. Uncommitted = newlyAdded /\ Uncommitted' = newlyAdded \cup {k}
        BY <2>1 DEF Uncommitted
      <3>2. QED  BY <2>1, <2>2, <2>3, <2>6, <2>7, <3>1 DEF IndexInSync
    <2>10. NoOrphanInformer'
      BY <2>1, <2>2, <2>3, <2>6 DEF NoOrphanInformer
    <2>11. QED  BY <2>8, <2>9, <2>10
  <1>9. CASE AddEventHandlerFails
    <2> DEFINE k == slice[at]
               w == watches[k]
    <2>1. /\ pc = "ensure" /\ ~LoopAtEnd /\ w # None /\ HandleOf(caller, k) = None
          /\ IF \A d \in Consumers : handlers[w][d] = None
             THEN StopWatch(k)
             ELSE UNCHANGED <<watches, cancelled, refs>>
          /\ StartRollback
          /\ UNCHANGED <<handlers, consumerKeys>>
      BY <1>9 DEF AddEventHandlerFails, NeedsHandler, handleVars
    <2>2. k \in Keys
      BY <2>1 DEF CallShape, LoopAtEnd, TypeOK
    <2>3. \A l \in Keys :
             watches'[l] = IF l = k /\ \A d \in Consumers : handlers[w][d] = None
                           THEN None ELSE watches[l]
      BY <2>1, <2>2 DEF StopWatch, TypeOK
    <2>4. \A d \in Consumers, l \in Keys : HandleOf(d, l)' = HandleOf(d, l)
      BY <2>1, <2>2, <2>3 DEF HandleOf
    <2>5. \A l \in Keys : watches'[l] # None =>
             watches[l] # None /\ \E d \in Consumers : HandleOf(d, l) # None
      BY <2>1, <2>2, <2>3 DEF NoOrphanInformer, HandleOf
    <2>6. QED  BY <2>1, <2>4, <2>5, StartRollbackCallInv
  <1>10. ASSUME NEW k \in Keys, ReleaseStale(k)
         PROVE  CallInv'
    <2>1. /\ pc = "ensure" /\ LoopAtEnd /\ k \in work /\ work' = work \ {k}
          /\ ReleaseWatchLocked(k, caller)
          /\ UNCHANGED <<pc, caller, slice, at, newlyAdded>>
      BY <1>10 DEF ReleaseStale, callArgs
    <2>2. k \in consumerKeys[caller] /\ k \notin newCurrent
      BY <2>1 DEF LoopBookkeeping
    <2>3. IndexInSync' /\ consumerKeys'[caller] = consumerKeys[caller] \ {k}
      BY <2>1, <2>2, ReleaseStepIndex
    <2>4. newCurrent' = newCurrent /\ todo' = todo
      BY <2>1 DEF newCurrent, todo
    <2>5. LoopBookkeeping'
      BY <2>1, <2>2, <2>3, <2>4 DEF LoopBookkeeping
    <2>6. caller \in Consumers
      BY <2>1 DEF CallShape
    <2>7. QED  BY <2>1, <2>3, <2>5, <2>6, ReleaseWatchNoOrphan
  <1>11. ASSUME NEW k \in Keys, RollbackRelease(k)
         PROVE  CallInv'
    <2>1. /\ pc = "rollback" /\ k \in work /\ work' = work \ {k}
          /\ ReleaseWatchLocked(k, caller)
          /\ UNCHANGED <<pc, caller, slice, at, newlyAdded>>
      BY <1>11 DEF RollbackRelease, callArgs
    <2>2. caller \in Consumers
      BY <2>1 DEF CallShape
    <2>3. k \notin consumerKeys[caller]
      BY <2>1, <2>2 DEF IndexInSync, Uncommitted
    <2>4. IndexInSync'
      BY <2>1, <2>3, ReleaseStepIndex
    <2>5. LoopBookkeeping'
      BY <2>1 DEF LoopBookkeeping
    <2>6. QED  BY <2>1, <2>2, <2>4, <2>5, ReleaseWatchNoOrphan
  <1>12. ASSUME NEW k \in Keys, ReleaseAllRelease(k)
         PROVE  CallInv'
    <2>1. /\ pc = "releaseAll" /\ k \in work /\ work' = work \ {k}
          /\ ReleaseWatchLocked(k, caller)
          /\ UNCHANGED <<pc, caller, slice, at, newlyAdded>>
      BY <1>12 DEF ReleaseAllRelease, callArgs
    <2>2. caller \in Consumers /\ k \in consumerKeys[caller]
      BY <2>1 DEF CallShape
    <2>3. IndexInSync'
      BY <2>1, <2>2, ReleaseStepIndex
    <2>4. LoopBookkeeping'
      BY <2>1 DEF LoopBookkeeping
    <2>5. QED  BY <2>1, <2>2, <2>3, <2>4, ReleaseWatchNoOrphan
  <1>13. CASE Commit
    <2>1. /\ pc = "ensure" /\ LoopAtEnd /\ work = {} /\ pc' = "idle" /\ caller' = None
          /\ newlyAdded' = {} /\ consumerKeys' = [consumerKeys EXCEPT ![caller] = newCurrent]
          /\ UNCHANGED <<watches, handlers>>
      BY <1>13 DEF Commit, Return, entryVars
    <2>2. caller \in Consumers
      BY <2>1 DEF CallShape
    <2>3. \A d, k : HandleOf(d, k)' = HandleOf(d, k)
      BY <2>1, HandleOfStable
    <2>4. consumerKeys[caller] \cup newlyAdded = newCurrent
      BY <2>1, LoopEnds DEF LoopBookkeeping
    <2>5. \A d \in Consumers :
             consumerKeys'[d] = IF d = caller THEN newCurrent ELSE consumerKeys[d]
      BY <2>1, <2>2 DEF TypeOK
    <2>6. Uncommitted = newlyAdded /\ Uncommitted' = {}
      BY <2>1 DEF Uncommitted
    <2>7. IndexInSync'
      BY <2>1, <2>2, <2>3, <2>4, <2>5, <2>6, ConstantsAssumption DEF IndexInSync
    <2>8. LoopBookkeeping' /\ NoOrphanInformer'
      BY <2>1, <2>3 DEF LoopBookkeeping, NoOrphanInformer
    <2>9. QED  BY <2>7, <2>8
  <1>14. CASE RollbackReturn
    <2>1. /\ pc = "rollback" /\ work = {} /\ pc' = "idle" /\ caller' = None /\ newlyAdded' = {}
          /\ UNCHANGED <<watches, handlers, consumerKeys>>
      BY <1>14 DEF RollbackReturn, Return, entryVars, handleVars
    <2>2. \A d, k : HandleOf(d, k)' = HandleOf(d, k)
      BY <2>1, HandleOfStable
    <2>3. Uncommitted = {} /\ Uncommitted' = {}
      BY <2>1 DEF Uncommitted
    <2>4. QED  BY <2>1, <2>2, <2>3 DEF IndexInSync, LoopBookkeeping, NoOrphanInformer
  <1>15. CASE ReleaseAllReturn
    <2>1. /\ pc = "releaseAll" /\ pc' = "idle" /\ caller' = None
          /\ newlyAdded = {} /\ newlyAdded' = {}
          /\ UNCHANGED <<watches, handlers, consumerKeys>>
      BY <1>15 DEF ReleaseAllReturn, Return, CallShape, entryVars, handleVars
    <2>2. \A d, k : HandleOf(d, k)' = HandleOf(d, k)
      BY <2>1, HandleOfStable
    <2>3. Uncommitted = {} /\ Uncommitted' = {}
      BY <2>1 DEF Uncommitted
    <2>4. QED  BY <2>1, <2>2, <2>3 DEF IndexInSync, LoopBookkeeping, NoOrphanInformer
  <1>16. ASSUME UNCHANGED <<entryVars, handleVars, callVars>>
         PROVE  CallInv'
    BY <1>16 DEF entryVars, handleVars, callVars, LoopBookkeeping, IndexInSync, NoOrphanInformer,
                 HandleOf, Uncommitted, newCurrent, todo, LoopAtEnd
  <1>17. ASSUME NEW x \in Contexts, CancelContext(x)
         PROVE  CallInv'
    BY <1>16, <1>17 DEF CancelContext
  <1>18. ASSUME NEW i \in Informers, RunReturns(i)
         PROVE  CallInv'
    BY <1>16, <1>18 DEF RunReturns
  <1>19. CASE UNCHANGED vars
    BY <1>16, <1>19 DEF vars, entryVars, handleVars, callVars
  <1>20. QED
    BY <1>1, <1>2, <1>3, <1>4, <1>5, <1>6, <1>7, <1>8, <1>9, <1>10, <1>11, <1>12, <1>13,
       <1>14, <1>15, <1>17, <1>18, <1>19 DEF Next, CallStep

-----------------------------------------------------------------------------
\* Every step keeps the entries, their handlers and the handles consistent.
LEMMA EntryInvStep ==
    ASSUME TypeOK, CallShape, EntryInv, [Next]_vars
    PROVE  EntryInv'
  <1>1. CASE UNCHANGED <<entryVars, registration, released, run>>
    BY <1>1, EntryInvStable
  <1>2. CASE StartInformer
    BY <1>2, StartInformerEntryInv
  <1>3. CASE AddEventHandler
    BY <1>3, AddEventHandlerEntryInv
  <1>4. CASE AddEventHandlerFails
    <2> DEFINE k == slice[at]
    <2>1. k \in Keys /\ watches[k] # None
      BY <1>4 DEF AddEventHandlerFails, NeedsHandler, CallShape, LoopAtEnd, TypeOK
    <2>2. CASE \A d \in Consumers : handlers[watches[k]][d] = None
      BY <1>4, <2>1, <2>2, StopWatchEntryInv DEF AddEventHandlerFails, handleVars
    <2>3. CASE ~ \A d \in Consumers : handlers[watches[k]][d] = None
      BY <1>4, <2>3, EntryInvStable DEF AddEventHandlerFails, handleVars, entryVars
    <2>4. QED  BY <2>2, <2>3
  <1>5. ASSUME NEW k \in Keys,
               ReleaseStale(k) \/ RollbackRelease(k) \/ ReleaseAllRelease(k)
        PROVE  EntryInv'
    <2>1. caller \in Consumers
      BY <1>5 DEF ReleaseStale, RollbackRelease, ReleaseAllRelease, CallShape
    <2>2. ReleaseWatchLocked(k, caller) /\ UNCHANGED <<keyOf, ctxOf, registration, run>>
      BY <1>5 DEF ReleaseStale, RollbackRelease, ReleaseAllRelease
    <2>3. QED  BY <2>1, <2>2, ReleaseWatchEntryInv
  <1>6. ASSUME NEW i \in Informers, RunReturns(i)
        PROVE  EntryInv'
    <2>1. UNCHANGED <<entryVars, registration, released>>
          /\ run[i] = "running" /\ run' = [run EXCEPT ![i] = "stopped"]
      BY <1>6 DEF RunReturns, handleVars
    <2>2. UnusedEntries'
      BY <2>1 DEF EntryInv, UnusedEntries, entryVars, TypeOK
    <2>3. QED
      BY <2>1, <2>2 DEF EntryInv, EntriesCurrent, HandlersCurrent, UnusedHandles,
                        LiveRegistrationIsCurrent, CancelledIffDropped, entryVars
  <1>7. ASSUME ~UNCHANGED <<entryVars, registration, released, run>>
        PROVE  \/ StartInformer \/ AddEventHandler \/ AddEventHandlerFails
               \/ \E k \in Keys : ReleaseStale(k) \/ RollbackRelease(k) \/ ReleaseAllRelease(k)
               \/ \E i \in Informers : RunReturns(i)
    BY <1>7 DEF Next, CallStep, EnsureWatchSet, ReleaseAll, ClientFor, ClientForFails,
                InformerFuncFails, Deduplicate, Commit, RollbackReturn, ReleaseAllReturn,
                CancelContext, vars, entryVars, handleVars
  <1>8. QED  BY <1>1, <1>2, <1>3, <1>4, <1>5, <1>6, <1>7

\* The invariant holds of the empty registry ...
LEMMA InvInit == Init => IInv
  <1> SUFFICES ASSUME Init
               PROVE  IInv
    OBVIOUS
  <1>1. TypeOK /\ CallShape
    BY TypeInit
  <1>2. EntryInv
    BY DEF Init, EntryInv, EntriesCurrent, UnusedEntries, HandlersCurrent, UnusedHandles,
           LiveRegistrationIsCurrent, CancelledIffDropped
  <1>3. LoopBookkeeping /\ IndexInSync /\ NoOrphanInformer
    BY DEF Init, LoopBookkeeping, IndexInSync, NoOrphanInformer, HandleOf, Uncommitted
  <1>4. QED  BY <1>1, <1>2, <1>3 DEF IInv

\* ... and every step keeps it.
LEMMA InvStep == IInv /\ [Next]_vars => IInv'
  BY TypeStep, EntryInvStep, CallInvStep DEF IInv, CallInv

\* The inductive invariant holds.
THEOREM Invariance == Spec => []IInv
  BY InvInit, InvStep, PTL DEF Spec

\* consumerKeys and the handlers agree whatever fails on the way.
THEOREM IndexAlwaysInSync == Spec => []IndexInSync
  <1>1. IInv => IndexInSync
    BY DEF IInv
  <1>2. QED  BY <1>1, Invariance, PTL

\* No informer is left running without a consumer.
THEOREM NoInformerOrphaned == Spec => []NoOrphanInformer
  <1>1. IInv => NoOrphanInformer
    BY DEF IInv
  <1>2. QED  BY <1>1, Invariance, PTL

\* An unreleased registration is the consumer's handler on the watched informer.
THEOREM LiveRegistrationsCurrent == Spec => []LiveRegistrationIsCurrent
  <1>1. IInv => LiveRegistrationIsCurrent
    BY DEF IInv, EntryInv
  <1>2. QED  BY <1>1, Invariance, PTL

\* The registry cancels an informer exactly when it drops it.
THEOREM CancelledExactlyIfDropped == Spec => []CancelledIffDropped
  <1>1. IInv => CancelledIffDropped
    BY DEF IInv, EntryInv
  <1>2. QED  BY <1>1, Invariance, PTL
=============================================================================
