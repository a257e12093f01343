---------------------- MODULE WatchRegistryCalls_proofs ----------------------
(***************************************************************************)
(* What the inductive invariant of WatchRegistry gives the callers: clients *)
(* are given back exactly once, registrations are returned request by      *)
(* request, no call disturbs another consumer, every call winds down, and  *)
(* GetIndexer, which takes no lock (WatchReaders.tla), answers as if it    *)
(* did.                                                                    *)
(***************************************************************************)
EXTENDS WatchRegistry_proofs, WatchReaders, FiniteSetTheorems

-----------------------------------------------------------------------------
(* Clients.                                                                *)

\* The client counted for the watch that startWatchLocked is building.
Building(id) == IF pc = "build" /\ IdentityOf[slice[at]] = id THEN 1 ELSE 0

\* The watches of an identity can be counted.
LEMMA WatchedAsFinite ==
    ASSUME NEW id
    PROVE  IsFiniteSet(WatchedAs(id)) /\ Cardinality(WatchedAs(id)) \in Nat
  BY ConstantsAssumption, FS_Subset, FS_CardinalityType DEF WatchedAs

\* stopWatchLocked takes one watch and one client away together.
LEMMA StopWatchClients ==
    ASSUME TypeOK, NEW k \in Keys, watches[k] # None, StopWatch(k), NEW id \in Identities
    PROVE  refs'[id] - Cardinality(WatchedAs(id)') = refs[id] - Cardinality(WatchedAs(id))
  <1>1. IdentityOf[k] \in Identities
    BY ConstantsAssumption
  <1>2. CASE IdentityOf[k] = id
    <2>1. WatchedAs(id)' = WatchedAs(id) \ {k} /\ k \in WatchedAs(id)
      BY <1>2 DEF WatchedAs, StopWatch, TypeOK
    <2>2. Cardinality(WatchedAs(id)') = Cardinality(WatchedAs(id)) - 1
      BY <2>1, WatchedAsFinite, FS_RemoveElement
    <2>3. refs'[id] = refs[id] - 1 /\ refs[id] \in Int
      BY <1>1, <1>2 DEF StopWatch, TypeOK
    <2>4. QED  BY <2>2, <2>3, WatchedAsFinite
  <1>3. CASE IdentityOf[k] # id
    <2>1. WatchedAs(id)' = WatchedAs(id)
      BY <1>3 DEF WatchedAs, StopWatch, TypeOK
    <2>2. refs'[id] = refs[id]
      BY <1>1, <1>3 DEF StopWatch, TypeOK
    <2>3. QED  BY <2>1, <2>2
  <1>4. QED  BY <1>2, <1>3

\* releaseWatchLocked keeps the provider's count equal to the informers watched: the
\* client goes exactly when the last handler does.
LEMMA ReleaseWatchClients ==
    ASSUME TypeOK, NEW k \in Keys, NEW c \in Consumers, ReleaseWatchLocked(k, c),
           NEW id \in Identities
    PROVE  refs'[id] - Cardinality(WatchedAs(id)') = refs[id] - Cardinality(WatchedAs(id))
  <1>1. CASE HandleOf(c, k) # None /\ LastHandler(watches[k], c)
    <2>1. watches[k] # None /\ StopWatch(k)
      BY <1>1 DEF ReleaseWatchLocked, HandleOf
    <2>2. QED  BY <2>1, StopWatchClients
  <1>2. CASE ~(HandleOf(c, k) # None /\ LastHandler(watches[k], c))
    <2>1. UNCHANGED <<watches, refs>>
      BY <1>2 DEF ReleaseWatchLocked
    <2>2. QED  BY <2>1 DEF WatchedAs
  <1>3. QED  BY <1>1, <1>2

\* The difference ClientsBalanced is about changes only while a client is built with.
LEMMA ClientsStep ==
    ASSUME TypeOK, CallShape, ClientsBalanced, [Next]_vars
    PROVE  ClientsBalanced'
  <1> SUFFICES ASSUME NEW id \in Identities
               PROVE  refs'[id] = Cardinality(WatchedAs(id)') + Building(id)'
    BY DEF ClientsBalanced, Building
  <1>1. /\ refs[id] = Cardinality(WatchedAs(id)) + Building(id)
        /\ refs[id] \in Int
        /\ Cardinality(WatchedAs(id)) \in Nat
    BY WatchedAsFinite DEF ClientsBalanced, Building, TypeOK
  <1>2. Cardinality(WatchedAs(id)') \in Nat
    <2>1. WatchedAs(id)' \in SUBSET Keys
      BY DEF WatchedAs
    <2>2. QED  BY <2>1, ConstantsAssumption, FS_Subset, FS_CardinalityType
  <1>3. CASE UNCHANGED <<watches, refs>> /\ pc # "build" /\ pc' # "build"
    BY <1>1, <1>3 DEF WatchedAs, Building
  <1>4. CASE ClientFor
    <2>1. slice[at] \in Keys /\ IdentityOf[slice[at]] \in Identities
      BY <1>4, ConstantsAssumption DEF ClientFor, LoopAtEnd, TypeOK
    <2>2. /\ pc = "ensure" /\ pc' = "build" /\ UNCHANGED <<watches, slice, at>>
          /\ refs' = [refs EXCEPT ![IdentityOf[slice[at]]] = @ + 1]
      BY <1>4 DEF ClientFor, callArgs, entryVars
    <2>3. WatchedAs(id)' = WatchedAs(id)
      BY <2>2 DEF WatchedAs
    <2>4. Building(id) = 0 /\ Building(id)' = IF IdentityOf[slice[at]] = id THEN 1 ELSE 0
      BY <2>2 DEF Building
    <2>5. refs'[id] = refs[id] + Building(id)'
      BY <1>1, <2>1, <2>2, <2>4 DEF TypeOK
    <2>6. QED  BY <1>1, <2>3, <2>4, <2>5
  <1>5. CASE InformerFuncFails
    <2>1. slice[at] \in Keys /\ IdentityOf[slice[at]] \in Identities
      BY <1>5, ConstantsAssumption DEF InformerFuncFails, LoopAtEnd, TypeOK, CallShape
    <2>2. /\ pc = "build" /\ pc' = "rollback" /\ UNCHANGED watches
          /\ refs' = [refs EXCEPT ![IdentityOf[slice[at]]] = @ - 1]
      BY <1>5 DEF InformerFuncFails, StartRollback, entryVars
    <2>3. WatchedAs(id)' = WatchedAs(id)
      BY <2>2 DEF WatchedAs
    <2>4. Building(id)' = 0 /\ Building(id) = IF IdentityOf[slice[at]] = id THEN 1 ELSE 0
      BY <2>2 DEF Building
    <2>5. refs'[id] = refs[id] - Building(id)
      BY <1>1, <2>1, <2>2, <2>4 DEF TypeOK
    <2>6. QED  BY <1>1, <2>3, <2>4, <2>5
  <1>6. CASE StartInformer
    <2> DEFINE k == slice[at]
    <2>1. k \in Keys /\ watches[k] = None
      BY <1>6 DEF StartInformer, LoopAtEnd, TypeOK, CallShape
    <2>2. /\ pc = "build" /\ pc' = "ensure" /\ UNCHANGED refs
          /\ watches' = [watches EXCEPT ![k] = NewInformer]
      BY <1>6 DEF StartInformer
    <2>3. NewInformer # None
      BY <1>6, NewInformerIsFresh, ConstantsAssumption DEF StartInformer
    <2>4. Building(id)' = 0 /\ Building(id) = IF IdentityOf[k] = id THEN 1 ELSE 0
      BY <2>2 DEF Building
    <2>5. CASE IdentityOf[k] = id
      <3>1. WatchedAs(id)' = WatchedAs(id) \cup {k} /\ k \notin WatchedAs(id)
        BY <2>1, <2>2, <2>3, <2>5 DEF WatchedAs, TypeOK
      <3>2. Cardinality(WatchedAs(id)') = Cardinality(WatchedAs(id)) + 1
        BY <3>1, WatchedAsFinite, FS_AddElement
      <3>3. QED  BY <1>1, <2>2, <2>4, <2>5, <3>2
    <2>6. CASE IdentityOf[k] # id
      <3>1. WatchedAs(id)' = WatchedAs(id)
        BY <2>1, <2>2, <2>6 DEF WatchedAs, TypeOK
      <3>2. QED  BY <1>1, <2>2, <2>4, <2>6, <3>1
    <2>7. QED  BY <2>5, <2>6
  <1>7. CASE AddEventHandlerFails
    <2>1. /\ slice[at] \in Keys /\ watches[slice[at]] # None /\ pc = "ensure" /\ pc' = "rollback"
          /\ StopWatch(slice[at]) \/ UNCHANGED <<watches, refs>>
      BY <1>7 DEF AddEventHandlerFails, NeedsHandler, StartRollback, LoopAtEnd, TypeOK
    <2>2. refs'[id] - Cardinality(WatchedAs(id)') = refs[id] - Cardinality(WatchedAs(id))
      BY <2>1, StopWatchClients DEF WatchedAs
    <2>3. Building(id) = 0 /\ Building(id)' = 0
      BY <2>1 DEF Building
    <2>4. refs'[id] \in Int
      BY <1>7, TypeStep DEF TypeOK
    <2>5. QED  BY <1>1, <1>2, <2>2, <2>3, <2>4
  <1>8. ASSUME NEW k \in Keys,
               ReleaseStale(k) \/ RollbackRelease(k) \/ ReleaseAllRelease(k)
        PROVE  refs'[id] = Cardinality(WatchedAs(id)') + Building(id)'
    <2>1. pc # "build" /\ pc' = pc /\ caller \in Consumers /\ ReleaseWatchLocked(k, caller)
      BY <1>8 DEF ReleaseStale, RollbackRelease, ReleaseAllRelease, CallShape
    <2>2. refs'[id] - Cardinality(WatchedAs(id)') = refs[id] - Cardinality(WatchedAs(id))
      BY <2>1, ReleaseWatchClients
    <2>3. Building(id) = 0 /\ Building(id)' = 0
      BY <2>1 DEF Building
    <2>4. refs'[id] \in Int
      BY TypeStep DEF TypeOK
    <2>5. QED  BY <1>1, <1>2, <2>2, <2>3, <2>4
  <1>9. CASE UNCHANGED <<watches, refs, pc, slice, at>>
    BY <1>1, <1>9 DEF WatchedAs, Building
  <1>10. ASSUME ~(UNCHANGED <<watches, refs>> /\ pc # "build" /\ pc' # "build"),
                ~UNCHANGED <<watches, refs, pc, slice, at>>
         PROVE  \/ ClientFor \/ InformerFuncFails \/ StartInformer \/ AddEventHandlerFails
                \/ \E k \in Keys : ReleaseStale(k) \/ RollbackRelease(k) \/ ReleaseAllRelease(k)
    BY <1>10 DEF Next, CallStep, EnsureWatchSet, ReleaseAll, ClientForFails, Deduplicate,
                 AddEventHandler, NeedsHandler, Commit, RollbackReturn, ReleaseAllReturn, Return,
                 StartRollback, CancelContext, RunReturns, vars, entryVars, handleVars, callVars,
                 callArgs
  <1>11. QED  BY <1>3, <1>4, <1>5, <1>6, <1>7, <1>8, <1>9, <1>10

\* Every client obtained is given back exactly once: the provider's count is the
\* number of watched keys of the identity, whatever fails or panics on the way.
THEOREM ClientsAlwaysBalanced == Spec => []ClientsBalanced
  <1>1. Init => ClientsBalanced
    <2> SUFFICES ASSUME Init, NEW id \in Identities
                 PROVE  refs[id] = Cardinality(WatchedAs(id)) + Building(id)
      BY DEF ClientsBalanced, Building
    <2>1. WatchedAs(id) = {}
      BY DEF Init, WatchedAs
    <2>2. QED  BY <2>1, FS_EmptySet DEF Init, Building
  <1>2. IInv /\ ClientsBalanced /\ [Next]_vars => ClientsBalanced'
    BY ClientsStep DEF IInv
  <1>3. QED  BY <1>1, <1>2, Invariance, PTL DEF Spec

-----------------------------------------------------------------------------
(* Registrations.                                                          *)

\* The registrations gathered so far stay what they are when the handles of the
\* caller on the keys already passed do.
LEMMA RegsStable ==
    ASSUME TypeOK, CallShape, RegsMatchRequests, pc \in {"ensure", "build"},
           UNCHANGED <<slice, at, regs, caller>>,
           \A n \in 1..(at - 1) : HandleOf(caller, slice[n])' = HandleOf(caller, slice[n])
    PROVE  RegsMatchRequests'
  BY DEF RegsMatchRequests, TypeOK

\* The caller has a handler on every key the loop has passed.
LEMMA PassedKeysHeld ==
    ASSUME TypeOK, CallShape, RegsMatchRequests, pc \in {"ensure", "build"}, NEW n \in 1..(at - 1)
    PROVE  HandleOf(caller, slice[n]) # None /\ slice[n] \in Keys
  <1>1. n \in 1..Len(regs) /\ n \in 1..Len(slice)
    BY DEF RegsMatchRequests, CallShape, TypeOK
  <1>2. regs[n] \in Handles /\ slice[n] \in Keys
    BY <1>1 DEF TypeOK
  <1>3. regs[n] = HandleOf(caller, slice[n])
    BY <1>1 DEF RegsMatchRequests
  <1>4. QED  BY <1>2, <1>3, ConstantsAssumption

\* What EnsureWatchSet has answered so far stays the handle the caller holds.
LEMMA RegsStep ==
    ASSUME IInv, RegsMatchRequests, [Next]_vars
    PROVE  RegsMatchRequests'
  <1> USE DEF IInv
  <1>1. ASSUME NEW c \in Consumers, NEW x \in Contexts, NEW s \in Slices,
               EnsureWatchSet(c, x, s)
        PROVE  RegsMatchRequests'
    BY <1>1 DEF EnsureWatchSet, CallShape, RegsMatchRequests
  <1>2. CASE pc' \notin {"ensure", "build"}
    BY <1>2 DEF RegsMatchRequests
  <1>3. CASE ClientFor
    BY <1>3, RegsStable, HandleOfStable DEF ClientFor, callArgs, entryVars
  <1>4. CASE StartInformer
    <2> DEFINE k == slice[at]
    <2>1. /\ pc = "build" /\ watches[k] = None /\ k \in Keys
          /\ watches' = [watches EXCEPT ![k] = NewInformer]
          /\ UNCHANGED <<slice, at, regs, caller, handlers>>
      BY <1>4 DEF StartInformer, callArgs, CallShape, LoopAtEnd, TypeOK
    <2>2. \A n \in 1..(at - 1) : HandleOf(caller, slice[n]) # None /\ slice[n] \in Keys
      BY <2>1, PassedKeysHeld
    <2>3. \A n \in 1..(at - 1) : slice[n] # k
      BY <2>1, <2>2 DEF HandleOf
    <2>4. \A n \in 1..(at - 1) : HandleOf(caller, slice[n])' = HandleOf(caller, slice[n])
      BY <2>1, <2>2, <2>3 DEF HandleOf, TypeOK
    <2>5. QED  BY <2>1, <2>4, RegsStable
  <1>5. CASE Deduplicate
    <2>1. /\ pc = "ensure" /\ ~LoopAtEnd /\ at' = at + 1
          /\ regs' = Append(regs, HandleOf(caller, slice[at]))
          /\ HandleOf(caller, slice[at]) # None
          /\ UNCHANGED <<watches, handlers, slice, caller>>
      BY <1>5 DEF Deduplicate, callArgs, entryVars
    <2>2. caller \in Consumers /\ slice[at] \in Keys
      BY <2>1 DEF CallShape, LoopAtEnd, TypeOK
    <2>3. HandleOf(caller, slice[at]) \in Handles
      BY <2>1, <2>2 DEF HandleOf, TypeOK
    <2>4. \A k : HandleOf(caller, k)' = HandleOf(caller, k)
      BY <2>1 DEF HandleOf
    <2>5. Len(regs') = at /\ \A n \in 1..at :
             regs'[n] = IF n = at THEN HandleOf(caller, slice[at]) ELSE regs[n]
      BY <2>1, <2>3 DEF RegsMatchRequests, TypeOK
    <2>6. QED  BY <2>1, <2>4, <2>5 DEF RegsMatchRequests, TypeOK
  <1>6. CASE AddEventHandler
    <2> DEFINE k == slice[at]
               w == watches[k]
               h == NewHandle
    <2>1. /\ pc = "ensure" /\ ~LoopAtEnd /\ at' = at + 1 /\ w # None
          /\ HandleOf(caller, k) = None
          /\ regs' = Append(regs, h)
          /\ handlers' = [handlers EXCEPT ![w] = [@ EXCEPT ![caller] = h]]
          /\ UNCHANGED <<watches, slice, caller>>
      BY <1>6 DEF AddEventHandler, NeedsHandler, callArgs
    <2>2. caller \in Consumers /\ k \in Keys /\ w \in Informers /\ h \in Handles
      BY <1>6, <2>1, NewHandleIsFresh DEF AddEventHandler, CallShape, LoopAtEnd, TypeOK
    <2>3. \A l \in Keys : watches[l] = w => l = k
      BY <2>1, <2>2 DEF EntryInv, EntriesCurrent
    <2>4. \A l \in Keys : HandleOf(caller, l)' = IF l = k THEN h ELSE HandleOf(caller, l)
      BY <2>1, <2>2, <2>3 DEF HandleOf, TypeOK
    <2>5. \A n \in 1..(at - 1) : HandleOf(caller, slice[n]) # None /\ slice[n] \in Keys
      BY <2>1, PassedKeysHeld
    <2>6. \A n \in 1..(at - 1) : slice[n] # k
      BY <2>1, <2>5
    <2>7. Len(regs') = at /\ \A n \in 1..at : regs'[n] = IF n = at THEN h ELSE regs[n]
      BY <2>1, <2>2 DEF RegsMatchRequests, TypeOK
    <2>8. \A n \in 1..at : regs'[n] = HandleOf(caller, slice[n])'
      BY <2>1, <2>2, <2>4, <2>5, <2>6, <2>7 DEF RegsMatchRequests, TypeOK
    <2>9. QED  BY <2>1, <2>7, <2>8 DEF RegsMatchRequests, TypeOK
  <1>7. ASSUME NEW k \in Keys, ReleaseStale(k)
        PROVE  RegsMatchRequests'
    <2>1. /\ pc = "ensure" /\ LoopAtEnd /\ k \in work /\ ReleaseWatchLocked(k, caller)
          /\ UNCHANGED <<slice, at, regs, caller>>
      BY <1>7 DEF ReleaseStale, callArgs
    <2>2. caller \in Consumers
      BY <2>1 DEF CallShape
    <2>3. \A n \in 1..(at - 1) : slice[n] \in Keys /\ slice[n] # k
      BY <2>1 DEF LoopBookkeeping, newCurrent, CallShape, LoopAtEnd, TypeOK
    <2>4. \A n \in 1..(at - 1) : HandleOf(caller, slice[n])' = HandleOf(caller, slice[n])
      BY <2>1, <2>2, <2>3, ReleaseWatchHandles
    <2>5. QED  BY <2>1, <2>4, RegsStable
  <1>8. CASE UNCHANGED <<watches, handlers, pc, slice, at, regs, caller>>
    BY <1>8 DEF RegsMatchRequests, HandleOf
  <1>9. ASSUME pc' \in {"ensure", "build"},
               ~UNCHANGED <<watches, handlers, pc, slice, at, regs, caller>>
        PROVE  \/ ClientFor \/ StartInformer \/ Deduplicate \/ AddEventHandler
               \/ \E k \in Keys : ReleaseStale(k)
               \/ \E c \in Consumers, x \in Contexts, s \in Slices : EnsureWatchSet(c, x, s)
    BY <1>9 DEF Next, CallStep, ReleaseAll, ClientForFails, InformerFuncFails,
                AddEventHandlerFails, StartRollback, RollbackRelease, ReleaseAllRelease, Commit,
                RollbackReturn, ReleaseAllReturn, Return, CancelContext, RunReturns, vars,
                entryVars, callVars
  <1>10. QED  BY <1>1, <1>2, <1>3, <1>4, <1>5, <1>6, <1>7, <1>8, <1>9

\* EnsureWatchSet answers request by request.
THEOREM RegsAlwaysMatchRequests == Spec => []RegsMatchRequests
  <1>1. Init => RegsMatchRequests
    BY DEF Init, RegsMatchRequests
  <1>2. IInv /\ RegsMatchRequests /\ [Next]_vars => RegsMatchRequests'
    BY RegsStep
  <1>3. QED  BY <1>1, <1>2, Invariance, PTL DEF Spec

-----------------------------------------------------------------------------
(* Isolation.                                                              *)

\* A registration that is live belongs to a handler that is on its informer.
LEMMA UndisturbedStep ==
    ASSUME IInv, [Next]_vars, NEW h \in Handles, registration[h] # None, h \notin released,
           registration[h].consumer # caller
    PROVE  h \notin released' /\ registration[h].informer \notin cancelled'
  <1> DEFINE r == registration[h]
  <1> USE DEF IInv
  <1>1. /\ r.key \in Keys /\ r.consumer \in Consumers /\ r.informer \in Informers
        /\ h # None /\ r.informer # None /\ r.key # None
    BY ConstantsAssumption DEF TypeOK, Registrations
  <1>2. watches[r.key] = r.informer /\ handlers[r.informer][r.consumer] = h
    BY DEF EntryInv, LiveRegistrationIsCurrent
  <1>3. r.informer \notin cancelled
    BY <1>1, <1>2 DEF EntryInv, EntriesCurrent
  <1>4. CASE UNCHANGED <<released, cancelled>>
    BY <1>3, <1>4
  <1>5. CASE AddEventHandlerFails
    <2> DEFINE w == watches[slice[at]]
    <2>1. UNCHANGED released
      BY <1>5 DEF AddEventHandlerFails, handleVars
    <2>2. CASE \A d \in Consumers : handlers[w][d] = None
      <3>1. r.informer # w
        BY <1>1, <1>2, <2>2
      <3>2. cancelled' = cancelled \cup {w}
        BY <1>5, <2>2 DEF AddEventHandlerFails, StopWatch
      <3>3. QED  BY <1>3, <2>1, <3>1, <3>2
    <2>3. CASE ~ \A d \in Consumers : handlers[w][d] = None
      BY <1>3, <1>5, <2>1, <2>3 DEF AddEventHandlerFails
    <2>4. QED  BY <2>2, <2>3
  <1>6. ASSUME NEW k \in Keys,
               ReleaseStale(k) \/ RollbackRelease(k) \/ ReleaseAllRelease(k)
        PROVE  h \notin released' /\ r.informer \notin cancelled'
    <2> DEFINE w == watches[k]
    <2>1. ReleaseWatchLocked(k, caller) /\ caller \in Consumers
      BY <1>6 DEF ReleaseStale, RollbackRelease, ReleaseAllRelease, CallShape
    <2>2. CASE HandleOf(caller, k) = None
      BY <1>3, <2>1, <2>2 DEF ReleaseWatchLocked
    <2>3. CASE HandleOf(caller, k) # None
      <3>1. w \in Informers /\ handlers[w][caller] # None
        BY <2>3 DEF HandleOf, TypeOK
      <3>2. /\ released' = released \cup {handlers[w][caller]}
            /\ IF LastHandler(w, caller) THEN StopWatch(k) ELSE UNCHANGED cancelled
        BY <2>1, <2>3 DEF ReleaseWatchLocked
      <3>3. h # handlers[w][caller]
        <4>1. registration[handlers[w][caller]] =
                 [key |-> keyOf[w], consumer |-> caller, informer |-> w]
          BY <2>1, <3>1 DEF EntryInv, HandlersCurrent
        <4>2. registration[handlers[w][caller]].consumer = caller
          BY <4>1
        <4>3. QED  BY <4>2
      <3>4. LastHandler(w, caller) => r.informer # w
        BY <1>1, <1>2 DEF LastHandler
      <3>5. QED  BY <1>3, <3>2, <3>3, <3>4 DEF StopWatch
    <2>4. QED  BY <2>2, <2>3
  <1>7. ASSUME ~UNCHANGED <<released, cancelled>>
        PROVE  \/ AddEventHandlerFails
               \/ \E k \in Keys : ReleaseStale(k) \/ RollbackRelease(k) \/ ReleaseAllRelease(k)
    BY <1>7 DEF Next, CallStep, EnsureWatchSet, ReleaseAll, ClientFor, ClientForFails,
                InformerFuncFails, StartInformer, Deduplicate, AddEventHandler, Commit,
                RollbackReturn, ReleaseAllReturn, CancelContext, RunReturns, vars, entryVars,
                handleVars
  <1>8. QED  BY <1>4, <1>5, <1>6, <1>7

\* No step of one consumer's call ends what another consumer holds.
THEOREM OthersAlwaysUndisturbed == Spec => OthersUndisturbed
  <1> DEFINE A == \A h \in Handles :
                registration[h] # None /\ h \notin released /\ registration[h].consumer # caller
                => h \notin released' /\ registration[h].informer \notin cancelled'
  <1>1. IInv /\ [Next]_vars => [A]_vars
    BY UndisturbedStep
  <1>2. QED  BY <1>1, Invariance, PTL DEF Spec, OthersUndisturbed

-----------------------------------------------------------------------------
(* Calls end.                                                              *)

\* What the request at hand still costs before its handler can be added.
StartUp ==
    IF pc = "build" THEN 1
    ELSE IF pc = "ensure" /\ ~LoopAtEnd /\ watches[slice[at]] = None THEN 2 ELSE 0

\* A bound on the steps the running call has still to take: four for a request (a client,
\* an informer, a handler, and its rollback), one for each key to release, and the return.
StepsLeft ==
    IF pc = "idle" THEN 0
    ELSE IF pc \in {"rollback", "releaseAll"} THEN 1 + Cardinality(work)
    ELSE 1 + Cardinality(work) + Cardinality(newlyAdded) + 4 * (Len(slice) + 1 - at) + StartUp

\* Every step of the call that holds the mutex brings its return nearer, through every
\* failure and rollback, and no other step puts it off.
CallsWindDown ==
    [][pc # "idle" => IF CallStep THEN StepsLeft' < StepsLeft ELSE StepsLeft' = StepsLeft]_vars

\* A call that has started finds a name for every informer and handler it creates: RoomFor
\* bounds the model and takes no outcome of a call away.
NamesSuffice ==
    /\ pc = "build" => FreshInformers # {}
    /\ NeedsHandler => FreshHandles # {}

\* The names left are as many as the requests left, but for the informer just started or
\* shared.
RoomLeft ==
    pc \in {"ensure", "build"} =>
        /\ Cardinality(FreshHandles) >= Len(slice) + 1 - at
        /\ Cardinality(FreshInformers) + 1 >= Len(slice) + 1 - at
        /\ pc = "build" \/ (~LoopAtEnd /\ watches[slice[at]] = None) =>
              Cardinality(FreshInformers) >= Len(slice) + 1 - at

\* What the running call has gathered can be counted, one by one.
LEMMA GatheredFinite ==
    ASSUME NEW S \in SUBSET Keys
    PROVE  /\ IsFiniteSet(S) /\ Cardinality(S) \in Nat
           /\ \A k \in S : Cardinality(S \ {k}) = Cardinality(S) - 1
           /\ \A k \in Keys : Cardinality(S \cup {k}) <= Cardinality(S) + 1
  <1>1. IsFiniteSet(S) /\ Cardinality(S) \in Nat
    BY ConstantsAssumption, FS_Subset, FS_CardinalityType
  <1>2. QED  BY <1>1, FS_AddElement, FS_RemoveElement

\* The bound is a number, and 0 only when no call runs.
LEMMA StepsLeftCounts ==
    ASSUME TypeOK, CallShape
    PROVE  StepsLeft \in Nat /\ (StepsLeft = 0 <=> pc = "idle")
  <1>1. Cardinality(work) \in Nat /\ Cardinality(newlyAdded) \in Nat
    BY GatheredFinite DEF TypeOK
  <1>2. pc \in {"ensure", "build"} => Len(slice) + 1 - at \in Nat
    BY DEF TypeOK, CallShape
  <1>3. StartUp \in {0, 1, 2}
    BY DEF StartUp
  <1>4. pc \in {"idle", "ensure", "build", "rollback", "releaseAll"}
    BY DEF TypeOK
  <1>5. QED  BY <1>1, <1>2, <1>3, <1>4 DEF StepsLeft

\* A step of the call takes at least one off.
LEMMA CallStepDescends ==
    ASSUME TypeOK, CallShape, CallStep
    PROVE  StepsLeft' < StepsLeft
  <1> DEFINE w == Cardinality(work)
             n == Cardinality(newlyAdded)
             left == Len(slice) + 1 - at
  <1>1. w \in Nat /\ n \in Nat /\ Len(slice) \in Nat /\ at \in Nat
    BY GatheredFinite DEF TypeOK
  <1>2. pc \in {"ensure", "build"} => left \in Nat /\ (~LoopAtEnd => left >= 1 /\ slice[at] \in Keys)
    BY DEF TypeOK, CallShape, LoopAtEnd
  <1>3. pc = "build" => left >= 1
    BY <1>2 DEF CallShape
  <1> DEFINE most == 1 + w + n + 4 * left
  <1>most. pc \in {"ensure", "build"} => StepsLeft \in Nat /\ StepsLeft >= most
    <2>1. pc \in {"ensure", "build"} => StepsLeft = most + StartUp
      BY DEF StepsLeft
    <2>2. StartUp \in {0, 1, 2}
      BY DEF StartUp
    <2> HIDE DEF left, w, n
    <2>3. QED  BY <1>1, <1>2, <2>1, <2>2
  <1>4. ASSUME pc \in {"ensure", "build"}, left >= 1, StartRollback
        PROVE  StepsLeft' < StepsLeft
    <2>1. StepsLeft' = 1 + n
      BY <1>4 DEF StartRollback, StepsLeft
    <2> HIDE DEF left, w, n
    <2>2. QED  BY <1>most, <1>1, <1>2, <1>4, <2>1
  <1>5. ASSUME pc = "ensure", ~LoopAtEnd, pc' = "ensure", at' = at + 1, work' = work,
               slice' = slice, newlyAdded' = newlyAdded \/ newlyAdded' = newlyAdded \cup {slice[at]}
        PROVE  StepsLeft' < StepsLeft
    <2>1. Cardinality(newlyAdded') \in Nat /\ Cardinality(newlyAdded') <= n + 1
      <3>1. newlyAdded' \in SUBSET Keys
        BY <1>2, <1>5 DEF TypeOK
      <3>2. newlyAdded \in SUBSET Keys /\ slice[at] \in Keys
        BY <1>2, <1>5 DEF TypeOK
      <3>3. QED  BY <1>1, <1>5, <3>1, <3>2, GatheredFinite
    <2>2. StepsLeft' = 1 + w + Cardinality(newlyAdded') + 4 * left' + StartUp'
      BY <1>5 DEF StepsLeft
    <2>3. StartUp' \in {0, 2}
      BY <1>5 DEF StartUp
    <2>4. left' = left - 1 /\ left \in Nat /\ left >= 1
      BY <1>1, <1>2, <1>5
    <2>5. StepsLeft \in Nat /\ StepsLeft >= most
      BY <1>most, <1>5
    <2> HIDE DEF left, w, n
    <2>6. QED  BY <1>1, <2>1, <2>2, <2>3, <2>4, <2>5
  <1>6. ASSUME NEW k \in work, work' = work \ {k}, UNCHANGED <<pc, slice, at, newlyAdded>>,
               pc \in {"rollback", "releaseAll"} \/ (pc = "ensure" /\ LoopAtEnd)
        PROVE  StepsLeft' < StepsLeft
    <2>1. Cardinality(work') = w - 1
      BY <1>6, GatheredFinite DEF TypeOK
    <2>2. QED  BY <1>1, <1>2, <1>6, <2>1 DEF StepsLeft, StartUp, LoopAtEnd
  <1>7. ASSUME pc # "idle", Return
        PROVE  StepsLeft' < StepsLeft
    BY <1>1, <1>2, <1>7, StepsLeftCounts DEF Return, StepsLeft
  <1>8. CASE ClientFor
    <2>1. /\ pc = "ensure" /\ ~LoopAtEnd /\ watches[slice[at]] = None /\ pc' = "build"
          /\ UNCHANGED <<slice, at, work, newlyAdded>>
      BY <1>8 DEF ClientFor, callArgs
    <2>2. QED  BY <1>1, <1>2, <2>1 DEF StepsLeft, StartUp
  <1>9. CASE ClientForFails
    BY <1>2, <1>4, <1>9 DEF ClientForFails
  <1>10. CASE InformerFuncFails
    BY <1>3, <1>4, <1>10 DEF InformerFuncFails
  <1>11. CASE StartInformer
    <2>1. /\ pc = "build" /\ pc' = "ensure" /\ NewInformer \in Informers
          /\ watches' = [watches EXCEPT ![slice[at]] = NewInformer]
          /\ UNCHANGED <<slice, at, work, newlyAdded>>
      BY <1>11, NewInformerIsFresh DEF StartInformer, callArgs
    <2>2. watches'[slice'[at']] # None
      BY <1>2, <2>1, ConstantsAssumption DEF CallShape, TypeOK
    <2>3. QED  BY <1>1, <1>2, <2>1, <2>2 DEF StepsLeft, StartUp
  <1>12. CASE Deduplicate \/ AddEventHandler
    BY <1>5, <1>12 DEF Deduplicate, AddEventHandler, NeedsHandler, callArgs
  <1>13. CASE AddEventHandlerFails
    BY <1>2, <1>4, <1>13 DEF AddEventHandlerFails, NeedsHandler
  <1>14. ASSUME NEW k \in Keys, ReleaseStale(k) \/ RollbackRelease(k) \/ ReleaseAllRelease(k)
         PROVE  StepsLeft' < StepsLeft
    BY <1>6, <1>14 DEF ReleaseStale, RollbackRelease, ReleaseAllRelease, callArgs
  <1>15. CASE Commit \/ RollbackReturn \/ ReleaseAllReturn
    BY <1>7, <1>15 DEF Commit, RollbackReturn, ReleaseAllReturn
  <1>16. QED
    BY <1>8, <1>9, <1>10, <1>11, <1>12, <1>13, <1>14, <1>15 DEF CallStep

\* Every call of EnsureWatchSet and ReleaseAll comes to its end as long as the goroutine
\* that holds the mutex runs: no failure, rollback or other goroutine puts it off for ever.
THEOREM CallsAlwaysWindDown ==
    Spec => CallsWindDown /\ [](StepsLeft \in Nat /\ (StepsLeft = 0 <=> pc = "idle"))
  <1> DEFINE Down == pc # "idle" =>
                IF CallStep THEN StepsLeft' < StepsLeft ELSE StepsLeft' = StepsLeft
             Counts == StepsLeft \in Nat /\ (StepsLeft = 0 <=> pc = "idle")
  <1>1. TypeOK /\ CallShape /\ [Next]_vars => [Down]_vars
    <2> SUFFICES ASSUME TypeOK, CallShape, Next, pc # "idle", ~CallStep
                 PROVE  StepsLeft' = StepsLeft
      BY CallStepDescends
    <2>1. UNCHANGED <<callVars, watches>>
      BY DEF Next, EnsureWatchSet, ReleaseAll, CancelContext, RunReturns, entryVars
    <2>2. QED  BY <2>1 DEF callVars, StepsLeft, StartUp, LoopAtEnd
  <1>2. TypeOK /\ CallShape => Counts
    BY StepsLeftCounts
  <1>3. Spec => [](TypeOK /\ CallShape)
    BY TypeInit, TypeStep, PTL DEF Spec
  <1> HIDE DEF Down, Counts
  <1>4. Spec => [][Down]_vars /\ []Counts
    BY <1>1, <1>2, <1>3, PTL DEF Spec
  <1>5. QED  BY <1>4 DEF Down, Counts, CallsWindDown

\* The names not in use yet can be counted, and a new one takes one away.
LEMMA NamesFinite ==
    /\ IsFiniteSet(FreshInformers) /\ Cardinality(FreshInformers) \in Nat
    /\ IsFiniteSet(FreshHandles) /\ Cardinality(FreshHandles) \in Nat
  <1>1. FreshInformers \in SUBSET Informers /\ FreshHandles \in SUBSET Handles
    BY DEF FreshInformers, FreshHandles
  <1>2. QED  BY <1>1, ConstantsAssumption, FS_Subset, FS_CardinalityType

\* With a request left there is a name left.
LEMMA RoomIsEnough ==
    ASSUME TypeOK, CallShape, RoomLeft
    PROVE  NamesSuffice
  <1>1. Cardinality({}) = 0
    BY FS_EmptySet
  <1>2. pc = "build" => FreshInformers # {}
    <2>1. pc = "build" => Len(slice) + 1 - at >= 1
      BY DEF CallShape, LoopAtEnd, TypeOK
    <2>2. pc = "build" => Cardinality(FreshInformers) >= 1
      BY <2>1, NamesFinite DEF RoomLeft, TypeOK
    <2>3. QED  BY <1>1, <2>2
  <1>3. NeedsHandler => FreshHandles # {}
    <2>1. NeedsHandler => Len(slice) + 1 - at >= 1
      BY DEF NeedsHandler, LoopAtEnd, TypeOK
    <2>2. NeedsHandler => Cardinality(FreshHandles) >= 1
      BY <2>1, NamesFinite DEF RoomLeft, NeedsHandler, TypeOK
    <2>3. QED  BY <1>1, <2>2
  <1>4. QED  BY <1>2, <1>3 DEF NamesSuffice

\* Each request uses up a handle at most, and an informer only if its key has none.
LEMMA RoomLeftStep ==
    ASSUME TypeOK, CallShape, RoomLeft, [Next]_vars
    PROVE  RoomLeft'
  <1> DEFINE left == Len(slice) + 1 - at
  <1>1. left \in Int /\ at \in Nat /\ Len(slice) \in Nat
    BY DEF TypeOK
  <1>2. CASE pc' \notin {"ensure", "build"}
    BY <1>2 DEF RoomLeft
  <1>3. ASSUME NEW c \in Consumers, NEW x \in Contexts, NEW s \in Slices, EnsureWatchSet(c, x, s)
        PROVE  RoomLeft'
    <2>1. /\ at' = 1 /\ slice' = s /\ UNCHANGED <<run, registration>>
          /\ Cardinality(FreshInformers) >= Len(s) /\ Cardinality(FreshHandles) >= Len(s)
      BY <1>3 DEF EnsureWatchSet, CallShape, RoomFor, handleVars
    <2>2. Len(s) \in Nat
      BY ConstantsAssumption
    <2>3. QED  BY <2>1, <2>2, NamesFinite DEF RoomLeft, FreshInformers, FreshHandles
  <1>4. CASE UNCHANGED <<pc, slice, at, watches, run, registration>>
    BY <1>4 DEF RoomLeft, LoopAtEnd, FreshInformers, FreshHandles
  <1>5. CASE ClientFor
    BY <1>5 DEF ClientFor, callArgs, entryVars, handleVars, RoomLeft, LoopAtEnd, FreshInformers,
                FreshHandles
  <1>6. CASE StartInformer
    <2>1. /\ pc = "build" /\ pc' = "ensure" /\ UNCHANGED <<slice, at, registration>>
          /\ watches' = [watches EXCEPT ![slice[at]] = NewInformer]
          /\ run' = [run EXCEPT ![NewInformer] = "running"]
          /\ NewInformer \in Informers /\ run[NewInformer] = "none"
      BY <1>6, NewInformerIsFresh DEF StartInformer, callArgs, handleVars
    <2>2. FreshInformers' = FreshInformers \ {NewInformer} /\ NewInformer \in FreshInformers
      BY <2>1 DEF FreshInformers, TypeOK
    <2>3. Cardinality(FreshInformers') = Cardinality(FreshInformers) - 1
      BY <2>2, NamesFinite, FS_RemoveElement
    <2>4. watches'[slice'[at']] # None
      BY <2>1, ConstantsAssumption DEF CallShape, LoopAtEnd, TypeOK
    <2>5. FreshHandles' = FreshHandles
      BY <2>1 DEF FreshHandles
    <2>6. QED  BY <1>1, <2>1, <2>3, <2>4, <2>5, NamesFinite DEF RoomLeft
  <1>7. CASE Deduplicate
    <2>1. /\ pc = "ensure" /\ pc' = "ensure" /\ at' = at + 1
          /\ UNCHANGED <<slice, watches, run, registration>>
      BY <1>7 DEF Deduplicate, callArgs, entryVars, handleVars
    <2>2. FreshInformers' = FreshInformers /\ FreshHandles' = FreshHandles
      BY <2>1 DEF FreshInformers, FreshHandles
    <2>3. QED  BY <1>1, <2>1, <2>2, NamesFinite DEF RoomLeft
  <1>8. CASE AddEventHandler
    <2>1. /\ pc = "ensure" /\ pc' = "ensure" /\ at' = at + 1 /\ ~LoopAtEnd
          /\ UNCHANGED <<slice, watches, run>>
          /\ NewHandle \in Handles /\ registration[NewHandle] = None
          /\ registration' = [registration EXCEPT ![NewHandle] =
                [key |-> slice[at], consumer |-> caller, informer |-> watches[slice[at]]]]
      BY <1>8, NewHandleIsFresh DEF AddEventHandler, NeedsHandler, callArgs
    <2>2. registration'[NewHandle] # None
      <3>1. slice[at] \in Keys /\ watches[slice[at]] \in Informers /\ caller \in Consumers
        BY <1>8, <2>1 DEF AddEventHandler, NeedsHandler, CallShape, LoopAtEnd, TypeOK
      <3>2. QED  BY <2>1, <3>1, ConstantsAssumption DEF TypeOK
    <2>3. FreshHandles' = FreshHandles \ {NewHandle} /\ NewHandle \in FreshHandles
      BY <2>1, <2>2 DEF FreshHandles, TypeOK
    <2>4. Cardinality(FreshHandles') = Cardinality(FreshHandles) - 1
      BY <2>3, NamesFinite, FS_RemoveElement
    <2>5. FreshInformers' = FreshInformers
      BY <2>1 DEF FreshInformers
    <2>6. QED  BY <1>1, <2>1, <2>4, <2>5, NamesFinite DEF RoomLeft
  <1>9. ASSUME NEW k \in Keys, ReleaseStale(k)
        PROVE  RoomLeft'
    <2>1. /\ pc = "ensure" /\ pc' = "ensure" /\ LoopAtEnd
          /\ UNCHANGED <<slice, at, run, registration>>
      BY <1>9 DEF ReleaseStale, callArgs
    <2>2. FreshInformers' = FreshInformers /\ FreshHandles' = FreshHandles
      BY <2>1 DEF FreshInformers, FreshHandles
    <2>3. QED  BY <1>1, <2>1, <2>2, NamesFinite DEF RoomLeft, LoopAtEnd
  <1>10. ASSUME NEW i \in Informers, RunReturns(i)
         PROVE  RoomLeft'
    <2>1. /\ run[i] = "running" /\ run' = [run EXCEPT ![i] = "stopped"]
          /\ UNCHANGED <<pc, slice, at, watches, registration>>
      BY <1>10 DEF RunReturns, callVars, entryVars, handleVars
    <2>2. FreshInformers' = FreshInformers /\ FreshHandles' = FreshHandles
      BY <2>1 DEF FreshInformers, FreshHandles, TypeOK
    <2>3. QED  BY <2>1, <2>2 DEF RoomLeft, LoopAtEnd
  <1>11. QED
    BY <1>2, <1>3, <1>4, <1>5, <1>6, <1>7, <1>8, <1>9, <1>10
       DEF Next, CallStep, ReleaseAll, ClientForFails, InformerFuncFails, AddEventHandlerFails,
           StartRollback, RollbackRelease, ReleaseAllRelease, Commit, RollbackReturn,
           ReleaseAllReturn, Return, CancelContext, vars, callVars, entryVars, handleVars

\* The bound of the model takes nothing from the code's behaviour: no call runs out of
\* names halfway, so its success is as possible as its failure.
THEOREM NamesAlwaysSuffice == Spec => []NamesSuffice
  <1>1. Init => RoomLeft
    BY DEF Init, RoomLeft
  <1>2. TypeOK /\ CallShape /\ RoomLeft /\ [Next]_vars => RoomLeft'
    BY RoomLeftStep
  <1>3. TypeOK /\ CallShape /\ RoomLeft => NamesSuffice
    BY RoomIsEnough
  <1>4. Spec => [](TypeOK /\ CallShape)
    BY TypeInit, TypeStep, PTL DEF Spec
  <1>5. QED  BY <1>1, <1>2, <1>3, <1>4, PTL DEF Spec

-----------------------------------------------------------------------------
(* GetIndexer without the mutex.                                           *)

\* A registration belongs to an informer that was started, and an informer's Run
\* goroutine returns only when its context is done.
InformersKnown ==
    /\ \A h \in Handles : registration[h] # None => run[registration[h].informer] # "none"
    /\ \A i \in Informers : run[i] = "stopped" => Done(i)

\* What was handed out is registered.
HandedRegistered == \A h \in handed : registration[h] # None

\* What each read knows: it is of a registration handed out; if that was stopped when
\* the read began and the first look has not shown it, the second look will.
ReadsSound ==
    \A r \in Readers :
        /\ reader[r].phase # "idle" => reader[r].handle \in handed
        /\ reader[r].phase = "reading" /\ reader[r].wasStopped => Done(InformerOf(reader[r].handle))

ReadersInv ==
    /\ IInv
    /\ RegsMatchRequests
    /\ ReadersTypeOK
    /\ InformersKnown
    /\ HandedRegistered
    /\ ReadsSound
    /\ ServedWasLive
    /\ RefusalIsJustified

\* What a step of the registry never takes back.
LEMMA StepMonotone ==
    ASSUME IInv, [Next]_vars
    PROVE  /\ released \subseteq released' /\ cancelled \subseteq cancelled'
           /\ doneCtx \subseteq doneCtx'
           /\ \A h \in Handles : registration[h] # None => registration'[h] = registration[h]
           /\ \A h \in Handles : registration'[h] # registration[h] =>
                 registration'[h].informer \in Informers /\ run[registration'[h].informer] # "none"
           /\ \A i \in Informers : run[i] # "none" => run'[i] # "none" /\ ctxOf'[i] = ctxOf[i]
           /\ \A i \in Informers : run'[i] = "stopped" =>
                 run[i] # "none" /\ (run[i] = "stopped" \/ Done(i))
  <1> USE DEF IInv
  <1>1. CASE StartInformer
    <2>1. NewInformer \in Informers /\ run[NewInformer] = "none"
      BY <1>1, NewInformerIsFresh DEF StartInformer
    <2>2. /\ ctxOf' = [ctxOf EXCEPT ![NewInformer] = parentCtx]
          /\ run' = [run EXCEPT ![NewInformer] = "running"]
          /\ UNCHANGED <<released, cancelled, doneCtx, registration>>
      BY <1>1 DEF StartInformer, handleVars
    <2>3. QED  BY <2>1, <2>2 DEF TypeOK
  <1>2. CASE AddEventHandler
    <2>1. NewHandle \in Handles /\ registration[NewHandle] = None
      BY <1>2, NewHandleIsFresh DEF AddEventHandler
    <2>2. \A h \in Handles : h # NewHandle => registration'[h] = registration[h]
      BY <1>2, <2>1 DEF AddEventHandler, TypeOK
    <2>3. UNCHANGED <<released, cancelled, doneCtx, run, ctxOf>>
      BY <1>2 DEF AddEventHandler
    <2> DEFINE k == slice[at]
    <2>4. k \in Keys /\ watches[k] \in Informers /\ watches[k] # None
      BY <1>2 DEF AddEventHandler, NeedsHandler, LoopAtEnd, TypeOK
    <2>5. registration'[NewHandle].informer = watches[k]
      BY <1>2, <2>1 DEF AddEventHandler, TypeOK
    <2>6. keyOf[watches[k]] # None
      BY <2>4, ConstantsAssumption DEF EntryInv, EntriesCurrent
    <2>7. run[watches[k]] # "none"
      BY <2>4, <2>6 DEF EntryInv, UnusedEntries
    <2>8. QED  BY <2>1, <2>2, <2>3, <2>4, <2>5, <2>7
  <1>3. ASSUME NEW i \in Informers, RunReturns(i)
        PROVE  /\ UNCHANGED <<released, cancelled, doneCtx, registration, ctxOf>>
               /\ \A j \in Informers : run'[j] = IF j = i THEN "stopped" ELSE run[j]
               /\ run[i] = "running" /\ Done(i)
    BY <1>3 DEF RunReturns, entryVars, handleVars, TypeOK
  <1>4. ASSUME NEW x \in Contexts, CancelContext(x)
        PROVE  /\ UNCHANGED <<released, cancelled, registration, ctxOf, run>>
               /\ doneCtx \subseteq doneCtx'
    BY <1>4 DEF CancelContext, entryVars, handleVars
  <1>5. ASSUME NEW k \in Keys, ReleaseStale(k) \/ RollbackRelease(k) \/ ReleaseAllRelease(k)
        PROVE  /\ UNCHANGED <<doneCtx, registration, ctxOf, run>>
               /\ released \subseteq released' /\ cancelled \subseteq cancelled'
    BY <1>5 DEF ReleaseStale, RollbackRelease, ReleaseAllRelease, ReleaseWatchLocked, StopWatch
  <1>6. CASE AddEventHandlerFails
    BY <1>6 DEF AddEventHandlerFails, StopWatch, handleVars
  <1>7. ASSUME ~UNCHANGED <<released, cancelled, doneCtx, registration, ctxOf, run>>
        PROVE  \/ StartInformer \/ AddEventHandler \/ AddEventHandlerFails
               \/ \E i \in Informers : RunReturns(i)
               \/ \E x \in Contexts : CancelContext(x)
               \/ \E k \in Keys : ReleaseStale(k) \/ RollbackRelease(k) \/ ReleaseAllRelease(k)
    BY <1>7 DEF Next, CallStep, EnsureWatchSet, ReleaseAll, ClientFor, ClientForFails,
                InformerFuncFails, Deduplicate, Commit, RollbackReturn, ReleaseAllReturn, vars,
                entryVars, handleVars
  <1>8. CASE UNCHANGED <<released, cancelled, doneCtx, registration, ctxOf, run>>
    BY <1>8
  <1>9. QED  BY <1>1, <1>2, <1>3, <1>4, <1>5, <1>6, <1>7, <1>8

\* A new registration is for a watched, hence started, informer.
LEMMA InformersKnownStep ==
    ASSUME IInv, InformersKnown, [Next]_vars
    PROVE  InformersKnown'
  <1> USE DEF IInv
  <1>1. ASSUME NEW h \in Handles, registration'[h] # None
        PROVE  run'[registration'[h].informer] # "none"
    <2>1. CASE registration'[h] = registration[h]
      <3>1. registration[h].informer \in Informers /\ run[registration[h].informer] # "none"
        BY <1>1, <2>1 DEF TypeOK, Registrations, InformersKnown
      <3>2. QED  BY <2>1, <3>1, StepMonotone
    <2>2. CASE registration'[h] # registration[h]
      BY <2>2, StepMonotone
    <2>3. QED  BY <2>1, <2>2
  <1>2. ASSUME NEW i \in Informers, run'[i] = "stopped"
        PROVE  Done(i)'
    <2>1. Done(i) /\ run[i] # "none"
      BY <1>2, StepMonotone DEF InformersKnown
    <2>2. QED  BY <2>1, StepMonotone DEF Done
  <1>3. QED  BY <1>1, <1>2 DEF InformersKnown

\* A step of the registry beside the readers keeps what they know.
LEMMA RegistryStepReaders ==
    ASSUME ReadersInv, RegistryStep
    PROVE  ReadersInv'
  <1> USE DEF ReadersInv
  <1>1. [Next]_vars /\ reader' = reader
    BY DEF RegistryStep
  <1>2. IInv' /\ RegsMatchRequests' /\ InformersKnown'
    BY <1>1, InvStep, RegsStep, InformersKnownStep
  <1>3. TypeOK /\ CallShape /\ EntryInv
    BY DEF IInv
  <1>4. \A h \in handed : h \in Handles /\ registration[h] # None
    BY DEF ReadersTypeOK, HandedRegistered
  <1>5. \A h \in handed : /\ InformerOf(h)' = InformerOf(h) /\ InformerOf(h) \in Informers
                          /\ run[InformerOf(h)] # "none"
    BY <1>1, <1>3, <1>4, StepMonotone DEF InformerOf, InformersKnown, TypeOK, Registrations
  <1>6. ASSUME NEW h \in handed
        PROVE  /\ Done(InformerOf(h)) => Done(InformerOf(h))'
               /\ ctxOf[InformerOf(h)] \in doneCtx => (ctxOf[InformerOf(h)])' \in doneCtx'
    BY <1>1, <1>5, StepMonotone DEF Done
  <1>7. handed \subseteq handed' /\ handed' \subseteq Handles /\ HandedRegistered'
    <2>1. CASE handed' = handed
      <3>1. \A h \in handed' : registration'[h] # None
        BY <1>1, <1>4, <2>1, StepMonotone
      <3>2. QED  BY <1>4, <2>1, <3>1 DEF HandedRegistered
    <2>2. CASE handed' # handed
      <3>1. /\ handed' = handed \cup {regs[n] : n \in 1..Len(regs)}
            /\ pc = "ensure" /\ pc' = "idle"
        BY <2>2 DEF RegistryStep
      <3>2. Len(regs) <= Len(slice) /\ caller \in Consumers /\ Len(regs) \in Nat /\ Len(slice) \in Nat
        BY <1>3, <3>1 DEF RegsMatchRequests, CallShape, TypeOK
      <3>3. ASSUME NEW n \in 1..Len(regs)
            PROVE  regs[n] \in Handles /\ registration[regs[n]] # None
        <4>1. regs[n] \in Handles /\ slice[n] \in Keys /\ regs[n] = HandleOf(caller, slice[n])
          BY <1>3, <3>1, <3>2, <3>3 DEF RegsMatchRequests, TypeOK
        <4> DEFINE i == watches[slice[n]]
        <4>2. i \in Informers /\ handlers[i][caller] = regs[n] /\ regs[n] # None
          BY <1>3, <4>1, ConstantsAssumption DEF HandleOf, TypeOK
        <4>3. registration[regs[n]] = [key |-> keyOf[i], consumer |-> caller, informer |-> i]
              /\ keyOf[i] \in Keys
          BY <1>3, <3>2, <4>2 DEF EntryInv, HandlersCurrent, TypeOK
        <4>4. QED  BY <3>2, <4>1, <4>2, <4>3, ConstantsAssumption
      <3>4. \A h \in handed' : h \in Handles /\ registration[h] # None
        BY <1>4, <3>1, <3>3
      <3>5. QED  BY <1>1, <3>1, <3>4, StepMonotone DEF HandedRegistered
    <2>3. QED  BY <2>1, <2>2
  <1>8. ReadersTypeOK'
    BY <1>1, <1>7 DEF ReadersTypeOK
  <1>9. ReadsSound'
    BY <1>1, <1>6, <1>7 DEF ReadsSound
  <1>10. ServedWasLive'
    BY <1>1 DEF ServedWasLive
  <1>11. RefusalIsJustified'
    <2> SUFFICES ASSUME NEW r \in Readers, reader[r].phase = "refused"
                 PROVE  \/ reader[r].handle \in released'
                        \/ (ctxOf[InformerOf(reader[r].handle)])' \in doneCtx'
      BY <1>1 DEF RefusalIsJustified
    <2>1. reader[r].handle \in handed
      BY DEF ReadsSound
    <2>2. reader[r].handle \in released \/ ctxOf[InformerOf(reader[r].handle)] \in doneCtx
      BY DEF RefusalIsJustified
    <2>3. QED  BY <1>1, <1>6, <2>1, <2>2, StepMonotone
  <1>12. QED  BY <1>2, <1>7, <1>8, <1>9, <1>10, <1>11

\* An informer whose registration is not released is not cancelled.
LEMMA LiveNotCancelled ==
    ASSUME IInv, NEW h \in Handles, registration[h] # None, h \notin released
    PROVE  /\ InformerOf(h) \in Informers /\ InformerOf(h) \notin cancelled
           /\ watches[registration[h].key] = InformerOf(h)
  <1>1. registration[h].key \in Keys /\ InformerOf(h) \in Informers
    BY DEF IInv, TypeOK, Registrations, InformerOf
  <1>2. watches[registration[h].key] = InformerOf(h)
    BY DEF IInv, EntryInv, LiveRegistrationIsCurrent, InformerOf
  <1>3. QED  BY <1>1, <1>2, ConstantsAssumption DEF IInv, EntryInv, EntriesCurrent

\* Everything a read rests on is kept by every step.
LEMMA ReadersStep == ReadersInv /\ [ReadersNext]_allVars => ReadersInv'
  <1> SUFFICES ASSUME ReadersInv, [ReadersNext]_allVars
               PROVE  ReadersInv'
    OBVIOUS
  <1> USE DEF ReadersInv
  <1>1. CASE RegistryStep
    BY <1>1, RegistryStepReaders
  <1>2. ASSUME UNCHANGED <<vars, handed>>
        PROVE  /\ IInv' /\ RegsMatchRequests' /\ InformersKnown' /\ HandedRegistered'
               /\ \A h : Stopped(h)' = Stopped(h) /\ Done(InformerOf(h))' = Done(InformerOf(h))
               /\ UNCHANGED <<released, ctxOf, doneCtx, registration>>
    <2>1. IInv' /\ RegsMatchRequests' /\ InformersKnown'
      BY <1>2, InvStep, RegsStep, InformersKnownStep
    <2>2. QED  BY <1>2, <2>1 DEF HandedRegistered, Stopped, Done, InformerOf, vars
  <1>3. ASSUME NEW r \in Readers, NEW h \in Handles, CheckReleased(r, h)
        PROVE  ReadersInv'
    <2>1. /\ UNCHANGED <<vars, handed>> /\ h \in handed
          /\ reader' = [reader EXCEPT ![r] =
                [phase |-> IF h \in released THEN "refused" ELSE "reading",
                 handle |-> h, wasStopped |-> Stopped(h)]]
      BY <1>3 DEF CheckReleased
    <2>2. ReadersTypeOK'
      BY <2>1 DEF ReadersTypeOK, Stopped
    <2>3. ReadsSound' /\ ServedWasLive' /\ RefusalIsJustified'
      BY <1>2, <2>1 DEF ReadsSound, ServedWasLive, RefusalIsJustified, ReadersTypeOK, Stopped, InformerOf
    <2>4. QED  BY <1>2, <2>1, <2>2, <2>3
  <1>4. ASSUME NEW r \in Readers, CheckDone(r)
        PROVE  ReadersInv'
    <2> DEFINE h == reader[r].handle
    <2>1. /\ UNCHANGED <<vars, handed>> /\ reader[r].phase = "reading"
          /\ reader' = [reader EXCEPT ![r].phase = IF Done(InformerOf(h)) THEN "refused" ELSE "served"]
      BY <1>4 DEF CheckDone
    <2>2. ReadersTypeOK'
      BY <2>1 DEF ReadersTypeOK
    <2>3. ReadsSound' /\ ServedWasLive'
      BY <1>2, <2>1 DEF ReadsSound, ServedWasLive, ReadersTypeOK
    <2>4. h \in Handles /\ registration[h] # None
      BY <2>1 DEF ReadsSound, HandedRegistered, ReadersTypeOK
    <2>5. Done(InformerOf(h)) => h \in released \/ ctxOf[InformerOf(h)] \in doneCtx
      BY <2>4, LiveNotCancelled DEF Done
    <2>6. RefusalIsJustified'
      BY <1>2, <2>1, <2>5 DEF RefusalIsJustified, ReadersTypeOK, InformerOf
    <2>7. QED  BY <1>2, <2>1, <2>2, <2>3, <2>6
  <1>5. ASSUME NEW r \in Readers, ReadReturns(r)
        PROVE  ReadersInv'
    <2>1. /\ UNCHANGED <<vars, handed>> /\ reader' = [reader EXCEPT ![r] = NoRead]
      BY <1>5 DEF ReadReturns
    <2>2. ReadersTypeOK' /\ ReadsSound' /\ ServedWasLive' /\ RefusalIsJustified'
      BY <1>2, <2>1 DEF ReadersTypeOK, ReadsSound, ServedWasLive, RefusalIsJustified, NoRead,
                        InformerOf
    <2>3. QED  BY <1>2, <2>1, <2>2
  <1>6. CASE UNCHANGED allVars
    <2>1. UNCHANGED <<vars, handed>> /\ reader' = reader
      BY <1>6 DEF allVars, readVars
    <2>2. ReadersTypeOK' /\ ReadsSound' /\ ServedWasLive' /\ RefusalIsJustified'
      BY <1>2, <2>1 DEF ReadersTypeOK, ReadsSound, ServedWasLive, RefusalIsJustified, InformerOf
    <2>3. QED  BY <1>2, <2>1, <2>2
  <1>7. QED  BY <1>1, <1>3, <1>4, <1>5, <1>6 DEF ReadersNext

\* The readers' invariant holds beside every call.
THEOREM ReadersInvariance == ReadersSpec => []ReadersInv
  <1>1. ReadersInit => ReadersInv
    <2> SUFFICES ASSUME ReadersInit
                 PROVE  ReadersInv
      OBVIOUS
    <2>1. IInv /\ RegsMatchRequests
      BY InvInit DEF ReadersInit, Init, RegsMatchRequests
    <2>2. ReadersTypeOK /\ InformersKnown /\ HandedRegistered
      BY DEF ReadersInit, Init, ReadersTypeOK, InformersKnown, HandedRegistered, NoRead
    <2>3. ReadsSound /\ ServedWasLive /\ RefusalIsJustified
      BY DEF ReadersInit, NoRead, ReadsSound, ServedWasLive, RefusalIsJustified
    <2>4. QED  BY <2>1, <2>2, <2>3 DEF ReadersInv
  <1>2. QED  BY <1>1, ReadersStep, PTL DEF ReadersSpec

\* GetIndexer serves no cache whose watch had stopped before the call.
THEOREM ServedAlwaysLive == ReadersSpec => []ServedWasLive
  <1>1. ReadersInv => ServedWasLive
    BY DEF ReadersInv
  <1>2. QED  BY <1>1, ReadersInvariance, PTL

\* GetIndexer refuses only what its consumer released or whose context is done.
THEOREM RefusalsJustified == ReadersSpec => []RefusalIsJustified
  <1>1. ReadersInv => RefusalIsJustified
    BY DEF ReadersInv
  <1>2. QED  BY <1>1, ReadersInvariance, PTL

\* A registration that is not stopped reads the cache of a running, watched informer.
THEOREM LiveRegistrationsFed == ReadersSpec => []LiveRegistrationIsFed
  <1>1. ReadersInv => LiveRegistrationIsFed
    <2> SUFFICES ASSUME ReadersInv, NEW h \in handed, ~Stopped(h)
                 PROVE  /\ watches[registration[h].key] = InformerOf(h)
                        /\ run[InformerOf(h)] = "running"
      BY DEF LiveRegistrationIsFed
    <2>1. h \in Handles /\ registration[h] # None /\ h \notin released
      BY DEF ReadersInv, ReadersTypeOK, HandedRegistered, Stopped
    <2>2. InformerOf(h) \in Informers /\ watches[registration[h].key] = InformerOf(h)
      BY <2>1, LiveNotCancelled DEF ReadersInv
    <2>3. run[InformerOf(h)] \notin {"none", "stopped"}
      BY <2>1, <2>2 DEF ReadersInv, InformersKnown, InformerOf, Stopped
    <2>4. QED  BY <2>2, <2>3 DEF ReadersInv, IInv, TypeOK
  <1>2. QED  BY <1>1, ReadersInvariance, PTL

=============================================================================
