------------------------- MODULE MeterFollower_proofs -------------------------
(***************************************************************************)
(* Proofs about MeterFollower, for any providers and callers.              *)
(***************************************************************************)
EXTENDS MeterFollower, FiniteSetTheorems, TLAPS

-----------------------------------------------------------------------------
(* The inductive invariant.                                                *)

\* The cached instruments write to the provider they are kept under.
CacheFaithful == current # None => current.i = current.mp

\* What a caller read was global during its call, and what it built and was given
\* writes to that provider.
CallersCurrent ==
    \A c \in Calls :
        /\ IF pc[c] = "idle" THEN mp[c] = None ELSE mp[c] \in lived[c]
        /\ pc[c] = "store" => built[c] = mp[c]
        /\ pc[c] \in {"bound", "serving"} => bound[c] = mp[c]

\* buildMu is held exactly from the second comparison to the store.
MutexHeld == \A c \in Calls : mutex = c <=> pc[c] \in {"locked", "build", "store"}

\* A call knows only providers that are or were global; only such are warned about.
KnownProviders ==
    /\ \A c \in Calls : lived[c] \subseteq retired \cup {global}
    /\ \A p \in Providers : warnings[p] > 0 => p \in Broken /\ p \in retired \cup {global}

\* The instruments kept are those of the global provider.
CacheIsCurrent == current # None /\ current.mp = global

\* While no call straddles a swap everybody works for the global provider, and its
\* one warning was given by whoever stored its instruments or is about to.
QuietInv ==
    quiet =>
        /\ \A c \in Calls : pc[c] # "idle" => mp[c] = global
        /\ \A c \in Calls : pc[c] = "build" => ~CacheIsCurrent
        /\ warnings[global] <= 1
        /\ warnings[global] = 1 => CacheIsCurrent \/ \E c \in Calls : pc[c] = "store"

FollowerInv ==
    /\ FollowerTypeOK
    /\ CacheFaithful
    /\ CallersCurrent
    /\ MutexHeld
    /\ KnownProviders
    /\ QuietInv
    /\ ActiveBalanced

\* The calls that serve with the instruments of p.
Serving(p) == {c \in Calls : pc[c] = "serving" /\ bound[c] = p}

-----------------------------------------------------------------------------
(* The steps.  Each action is split once, in the lemma of each part.       *)

\* The invariant holds at the start.
LEMMA FollowerInvInit == FollowerInit => FollowerInv
  <1> SUFFICES ASSUME FollowerInit
               PROVE  FollowerInv
    OBVIOUS
  <1> USE FollowerAssumption DEF FollowerInit
  <1>1. FollowerTypeOK
    BY DEF FollowerTypeOK
  <1>2. CacheFaithful /\ CallersCurrent /\ MutexHeld /\ KnownProviders /\ QuietInv
    BY DEF CacheFaithful, CallersCurrent, MutexHeld, KnownProviders, QuietInv, CacheIsCurrent
  <1>3. ActiveBalanced
    <2>1. \A p \in Providers : Serving(p) = {}
      BY DEF Serving
    <2>2. QED  BY <2>1, FS_EmptySet DEF ActiveBalanced, Serving
  <1>4. QED  BY <1>1, <1>2, <1>3 DEF FollowerInv

\* The calls that serve with p's instruments can be counted.
LEMMA ServingFinite ==
    ASSUME NEW p
    PROVE  IsFiniteSet(Serving(p)) /\ Cardinality(Serving(p)) \in Nat
  BY FollowerAssumption, FS_Subset, FS_CardinalityType DEF Serving

\* Types, but for the active count, which ActiveStep keeps.
LEMMA FollowerTypeStep ==
    ASSUME FollowerInv, [FollowerNext]_followVars, active' \in [Providers -> Nat]
    PROVE  FollowerTypeOK'
  <1> USE FollowerAssumption DEF FollowerInv, FollowerTypeOK, Goto
  <1>1. ASSUME NEW p \in Providers, Swap(p)
        PROVE  FollowerTypeOK'
    BY <1>1 DEF Swap, callerVars, meterVars
  <1>2. ASSUME NEW c \in Calls, ReadGlobal(c)
        PROVE  FollowerTypeOK'
    BY <1>2 DEF ReadGlobal, swapVars, meterVars
  <1>3. ASSUME NEW c \in Calls, FastPath(c)
        PROVE  FollowerTypeOK'
    BY <1>3 DEF FastPath, Hit, swapVars, meterVars
  <1>4. ASSUME NEW c \in Calls, Lock(c)
        PROVE  FollowerTypeOK'
    BY <1>4 DEF Lock, swapVars, meterVars
  <1>5. ASSUME NEW c \in Calls, Recheck(c)
        PROVE  FollowerTypeOK'
    BY <1>5 DEF Recheck, Hit, swapVars, meterVars
  <1>6. ASSUME NEW c \in Calls, Build(c)
        PROVE  FollowerTypeOK'
    BY <1>6 DEF Build, CallersCurrent, swapVars
  <1>7. ASSUME NEW c \in Calls, Store(c)
        PROVE  FollowerTypeOK'
    BY <1>7 DEF Store, CallersCurrent, swapVars, meterVars
  <1>8. ASSUME NEW c \in Calls, StartServing(c)
        PROVE  FollowerTypeOK'
    BY <1>8 DEF StartServing, swapVars
  <1>9. ASSUME NEW c \in Calls, EndServing(c)
        PROVE  FollowerTypeOK'
    BY <1>9 DEF EndServing, Finish, swapVars
  <1>10. CASE UNCHANGED followVars
    BY <1>10 DEF followVars, swapVars, callerVars, meterVars
  <1>11. QED
    BY <1>1, <1>2, <1>3, <1>4, <1>5, <1>6, <1>7, <1>8, <1>9, <1>10
    DEF FollowerNext, CallerStep

\* The counts follow the calls being served: only StartServing and EndServing move
\* a call in or out of Serving, and both count on the instruments the call was given.
LEMMA ActiveStep ==
    ASSUME FollowerInv, [FollowerNext]_followVars
    PROVE  active' \in [Providers -> Nat] /\ ActiveBalanced'
  <1> DEFINE Counted == active' \in [Providers -> Nat] /\ ActiveBalanced'
  <1> USE DEF FollowerInv, FollowerTypeOK, Goto
  <1>0. ASSUME active' = active, \A p \in Providers : Serving(p)' = Serving(p)
        PROVE  Counted
    BY <1>0 DEF ActiveBalanced, Serving
  <1>1. ASSUME NEW q \in Providers, Swap(q)
        PROVE  Counted
    BY <1>1, <1>0 DEF Swap, meterVars, Serving
  <1>2. ASSUME NEW c \in Calls, ReadGlobal(c) \/ FastPath(c) \/ Lock(c)
        PROVE  Counted
    <2>1. \A p \in Providers : Serving(p)' = Serving(p)
      BY <1>2 DEF ReadGlobal, FastPath, Lock, Hit, Serving
    <2>2. QED  BY <1>2, <2>1, <1>0 DEF ReadGlobal, FastPath, Lock, meterVars
  <1>3. ASSUME NEW c \in Calls, Recheck(c) \/ Build(c) \/ Store(c)
        PROVE  Counted
    <2>1. \A p \in Providers : Serving(p)' = Serving(p)
      BY <1>3 DEF Recheck, Build, Store, Hit, Serving
    <2>2. QED  BY <1>3, <2>1, <1>0 DEF Recheck, Build, Store, meterVars
  <1>4. ASSUME NEW c \in Calls, StartServing(c)
        PROVE  Counted
    <2>1. PICK q \in Providers : q = bound[c]
      BY <1>4 DEF StartServing, CallersCurrent
    <2>2. c \notin Serving(q) /\ Serving(q)' = Serving(q) \cup {c}
      BY <1>4, <2>1 DEF StartServing, Serving
    <2>3. \A p \in Providers \ {q} : Serving(p)' = Serving(p)
      BY <1>4, <2>1 DEF StartServing, Serving
    <2>4. active' = [active EXCEPT ![q] = @ + 1]
      BY <1>4, <2>1 DEF StartServing
    <2>5. Cardinality(Serving(q)') = Cardinality(Serving(q)) + 1
      BY <2>2, ServingFinite, FS_AddElement
    <2>6. ASSUME NEW p \in Providers
          PROVE  active'[p] = Cardinality(Serving(p)')
      <3>1. active[p] = Cardinality(Serving(p))
        BY DEF ActiveBalanced, Serving
      <3>2. CASE p = q
        BY <3>1, <3>2, <2>4, <2>5
      <3>3. CASE p # q
        BY <3>1, <3>3, <2>3, <2>4
      <3>4. QED  BY <3>2, <3>3
    <2>7. QED  BY <2>4, <2>6 DEF ActiveBalanced, Serving
  <1>5. ASSUME NEW c \in Calls, EndServing(c)
        PROVE  Counted
    <2>1. PICK q \in Providers : q = bound[c]
      BY <1>5 DEF EndServing, CallersCurrent
    <2>2. c \in Serving(q) /\ Serving(q)' = Serving(q) \ {c}
      BY <1>5, <2>1 DEF EndServing, Finish, Serving
    <2>3. \A p \in Providers \ {q} : Serving(p)' = Serving(p)
      BY <1>5, <2>1 DEF EndServing, Finish, Serving
    <2>4. active' = [active EXCEPT ![q] = @ - 1]
      BY <1>5, <2>1 DEF EndServing
    <2>5. Cardinality(Serving(q)') = Cardinality(Serving(q)) - 1
      BY <2>2, ServingFinite, FS_RemoveElement
    <2>6. Cardinality(Serving(q)) # 0
      BY <2>2, ServingFinite, FS_EmptySet
    <2>7. active[q] = Cardinality(Serving(q))
      BY DEF ActiveBalanced, Serving
    <2>8. ASSUME NEW p \in Providers
          PROVE  active'[p] = Cardinality(Serving(p)')
      <3>1. active[p] = Cardinality(Serving(p))
        BY DEF ActiveBalanced, Serving
      <3>2. CASE p = q
        BY <3>1, <3>2, <2>4, <2>5
      <3>3. CASE p # q
        BY <3>1, <3>3, <2>3, <2>4
      <3>4. QED  BY <3>2, <3>3
    <2>9. active' \in [Providers -> Nat]
      BY <2>4, <2>6, <2>7
    <2>10. QED  BY <2>8, <2>9 DEF ActiveBalanced, Serving
  <1>6. CASE UNCHANGED followVars
    BY <1>6, <1>0 DEF followVars, callerVars, meterVars, Serving
  <1>7. QED
    BY <1>1, <1>2, <1>3, <1>4, <1>5, <1>6 DEF FollowerNext, CallerStep

\* The cache, the callers and the mutex: Store keeps what was built from the provider
\* it is kept under, and a hit hands it to a caller that read the same provider.
LEMMA CallersStep ==
    ASSUME FollowerInv, [FollowerNext]_followVars
    PROVE  CacheFaithful' /\ CallersCurrent' /\ MutexHeld'
  <1> USE FollowerAssumption DEF FollowerInv, FollowerTypeOK, Goto
  <1>1. ASSUME NEW p \in Providers, Swap(p)
        PROVE  CacheFaithful' /\ CallersCurrent' /\ MutexHeld'
    BY <1>1 DEF Swap, callerVars, meterVars, CacheFaithful, CallersCurrent, MutexHeld
  <1>2. ASSUME NEW c \in Calls, ReadGlobal(c)
        PROVE  CacheFaithful' /\ CallersCurrent' /\ MutexHeld'
    BY <1>2 DEF ReadGlobal, swapVars, meterVars, CacheFaithful, CallersCurrent, MutexHeld
  <1>3. ASSUME NEW c \in Calls, FastPath(c)
        PROVE  CacheFaithful' /\ CallersCurrent' /\ MutexHeld'
    BY <1>3 DEF FastPath, Hit, swapVars, meterVars, CacheFaithful, CallersCurrent, MutexHeld
  <1>4. ASSUME NEW c \in Calls, Lock(c)
        PROVE  CacheFaithful' /\ CallersCurrent' /\ MutexHeld'
    BY <1>4 DEF Lock, swapVars, meterVars, CacheFaithful, CallersCurrent, MutexHeld
  <1>5. ASSUME NEW c \in Calls, Recheck(c)
        PROVE  CacheFaithful' /\ CallersCurrent' /\ MutexHeld'
    BY <1>5 DEF Recheck, Hit, swapVars, meterVars, CacheFaithful, CallersCurrent, MutexHeld
  <1>6. ASSUME NEW c \in Calls, Build(c)
        PROVE  CacheFaithful' /\ CallersCurrent' /\ MutexHeld'
    BY <1>6 DEF Build, swapVars, CacheFaithful, CallersCurrent, MutexHeld
  <1>7. ASSUME NEW c \in Calls, Store(c)
        PROVE  CacheFaithful' /\ CallersCurrent' /\ MutexHeld'
    BY <1>7 DEF Store, swapVars, meterVars, CacheFaithful, CallersCurrent, MutexHeld
  <1>8. ASSUME NEW c \in Calls, StartServing(c)
        PROVE  CacheFaithful' /\ CallersCurrent' /\ MutexHeld'
    BY <1>8 DEF StartServing, swapVars, CacheFaithful, CallersCurrent, MutexHeld
  <1>9. ASSUME NEW c \in Calls, EndServing(c)
        PROVE  CacheFaithful' /\ CallersCurrent' /\ MutexHeld'
    BY <1>9 DEF EndServing, Finish, swapVars, CacheFaithful, CallersCurrent, MutexHeld
  <1>10. CASE UNCHANGED followVars
    BY <1>10 DEF followVars, swapVars, callerVars, meterVars, CacheFaithful, CallersCurrent, MutexHeld
  <1>11. QED
    BY <1>1, <1>2, <1>3, <1>4, <1>5, <1>6, <1>7, <1>8, <1>9, <1>10
    DEF FollowerNext, CallerStep

\* What is known of the past only grows, and only callers' providers are warned about.
LEMMA KnownStep ==
    ASSUME FollowerInv, [FollowerNext]_followVars
    PROVE  KnownProviders'
  <1> USE FollowerAssumption DEF FollowerInv, FollowerTypeOK, Goto
  <1>1. ASSUME NEW p \in Providers, Swap(p)
        PROVE  KnownProviders'
    BY <1>1 DEF Swap, callerVars, meterVars, KnownProviders
  <1>2. ASSUME NEW c \in Calls, ReadGlobal(c)
        PROVE  KnownProviders'
    BY <1>2 DEF ReadGlobal, swapVars, meterVars, CallersCurrent, KnownProviders
  <1>3. ASSUME NEW c \in Calls, FastPath(c)
        PROVE  KnownProviders'
    BY <1>3 DEF FastPath, Hit, swapVars, meterVars, CallersCurrent, KnownProviders
  <1>4. ASSUME NEW c \in Calls, Lock(c)
        PROVE  KnownProviders'
    BY <1>4 DEF Lock, swapVars, meterVars, CallersCurrent, KnownProviders
  <1>5. ASSUME NEW c \in Calls, Recheck(c)
        PROVE  KnownProviders'
    BY <1>5 DEF Recheck, Hit, swapVars, meterVars, CallersCurrent, KnownProviders
  <1>6. ASSUME NEW c \in Calls, Build(c)
        PROVE  KnownProviders'
    BY <1>6 DEF Build, swapVars, CallersCurrent, KnownProviders
  <1>7. ASSUME NEW c \in Calls, Store(c)
        PROVE  KnownProviders'
    BY <1>7 DEF Store, swapVars, meterVars, CallersCurrent, KnownProviders
  <1>8. ASSUME NEW c \in Calls, StartServing(c)
        PROVE  KnownProviders'
    BY <1>8 DEF StartServing, swapVars, CallersCurrent, KnownProviders
  <1>9. ASSUME NEW c \in Calls, EndServing(c)
        PROVE  KnownProviders'
    BY <1>9 DEF EndServing, Finish, swapVars, CallersCurrent, KnownProviders
  <1>10. CASE UNCHANGED followVars
    BY <1>10 DEF followVars, swapVars, callerVars, meterVars, KnownProviders
  <1>11. QED
    BY <1>1, <1>2, <1>3, <1>4, <1>5, <1>6, <1>7, <1>8, <1>9, <1>10
    DEF FollowerNext, CallerStep

\* One warning in quiet times: the mutex admits one builder, its second comparison
\* excludes those that come after a store, and a swap in quiet times installs a
\* provider that no one was warned about, being new or the noop.
LEMMA QuietStep ==
    ASSUME FollowerInv, [FollowerNext]_followVars
    PROVE  QuietInv'
  <1> USE FollowerAssumption DEF FollowerInv, FollowerTypeOK, Goto
  <1>1. ASSUME NEW p \in Providers, Swap(p)
        PROVE  QuietInv'
    <2>1. warnings[p] = 0
      BY <1>1 DEF Swap, KnownProviders
    <2>2. warnings' = warnings /\ global' = p /\ pc' = pc
      BY <1>1 DEF Swap, meterVars
    <2>3. quiet' => \A c \in Calls : pc[c] = "idle"
      BY <1>1 DEF Swap
    <2>4. QED  BY <2>1, <2>2, <2>3 DEF QuietInv, CacheIsCurrent
  <1>2. ASSUME NEW c \in Calls, ReadGlobal(c)
        PROVE  QuietInv'
    BY <1>2 DEF ReadGlobal, swapVars, meterVars, CallersCurrent, MutexHeld, QuietInv, CacheIsCurrent
  <1>3. ASSUME NEW c \in Calls, FastPath(c)
        PROVE  QuietInv'
    BY <1>3 DEF FastPath, Hit, swapVars, meterVars, CallersCurrent, MutexHeld, QuietInv, CacheIsCurrent
  <1>4. ASSUME NEW c \in Calls, Lock(c)
        PROVE  QuietInv'
    BY <1>4 DEF Lock, swapVars, meterVars, CallersCurrent, MutexHeld, QuietInv, CacheIsCurrent
  <1>5. ASSUME NEW c \in Calls, Recheck(c)
        PROVE  QuietInv'
    BY <1>5 DEF Recheck, Hit, swapVars, meterVars, CallersCurrent, MutexHeld, QuietInv, CacheIsCurrent
  <1>6. ASSUME NEW c \in Calls, Build(c)
        PROVE  QuietInv'
    BY <1>6 DEF Build, swapVars, CallersCurrent, MutexHeld, QuietInv, CacheIsCurrent
  <1>7. ASSUME NEW c \in Calls, Store(c)
        PROVE  QuietInv'
    BY <1>7 DEF Store, swapVars, meterVars, CallersCurrent, MutexHeld, QuietInv, CacheIsCurrent
  <1>8. ASSUME NEW c \in Calls, StartServing(c)
        PROVE  QuietInv'
    BY <1>8 DEF StartServing, swapVars, CallersCurrent, MutexHeld, QuietInv, CacheIsCurrent
  <1>9. ASSUME NEW c \in Calls, EndServing(c)
        PROVE  QuietInv'
    BY <1>9 DEF EndServing, Finish, swapVars, CallersCurrent, MutexHeld, QuietInv, CacheIsCurrent
  <1>10. CASE UNCHANGED followVars
    BY <1>10 DEF followVars, swapVars, callerVars, meterVars, QuietInv, CacheIsCurrent
  <1>11. QED
    BY <1>1, <1>2, <1>3, <1>4, <1>5, <1>6, <1>7, <1>8, <1>9, <1>10
    DEF FollowerNext, CallerStep

-----------------------------------------------------------------------------
(* The theorems.                                                           *)

\* Every step keeps the invariant.
LEMMA FollowerInvStep == FollowerInv /\ [FollowerNext]_followVars => FollowerInv'
  BY ActiveStep, FollowerTypeStep, CallersStep, KnownStep, QuietStep DEF FollowerInv

\* The inductive invariant holds throughout, whatever swaps and callers interleave.
THEOREM FollowerInvariance == FollowerSpec => []FollowerInv
  BY FollowerInvInit, FollowerInvStep, PTL DEF FollowerSpec

\* Type correctness: in particular an active count is never negative.
THEOREM FollowerTypes == FollowerSpec => []FollowerTypeOK
  <1>1. FollowerInv => FollowerTypeOK
    BY DEF FollowerInv
  <1>2. QED  BY <1>1, FollowerInvariance, PTL

\* A caller writes to a provider that was global during its own call: a hit compares
\* the key with what the caller itself read, and the cache is faithful to its key.
THEOREM FollowerBinding == FollowerSpec => []BoundWasGlobal
  <1>1. FollowerInv => BoundWasGlobal
    BY DEF FollowerInv, CallersCurrent, BoundWasGlobal
  <1>2. QED  BY <1>1, FollowerInvariance, PTL

\* The active requests a provider counts are those being served with its instruments.
THEOREM FollowerActive == FollowerSpec => []ActiveBalanced
  <1>1. FollowerInv => ActiveBalanced
    BY DEF FollowerInv
  <1>2. QED  BY <1>1, FollowerInvariance, PTL

\* Callers that miss together rebuild once, if no call straddles the swap.
THEOREM FollowerBuildsOnce == FollowerSpec => []BuiltOnceWhenQuiet
  <1>1. FollowerInv => BuiltOnceWhenQuiet
    BY DEF FollowerInv, QuietInv, BuiltOnceWhenQuiet
  <1>2. QED  BY <1>1, FollowerInvariance, PTL

-----------------------------------------------------------------------------
(* The refinement.  ReadGlobal is the step that settles a call's provider; *)
(* the way to its instruments is stuttering; StartServing and EndServing   *)
(* count on the provider read, because what a call was given writes to it. *)

\* The start maps to the start.
LEMMA UncachedInit == FollowerInit => Uncached!Init
  BY DEF FollowerInit, Uncached!Init

\* Each step maps to a step or a stutter.
LEMMA UncachedStep ==
    ASSUME FollowerInv, [FollowerNext]_followVars
    PROVE  [Uncached!Next]_(Uncached!vars)
  <1> DEFINE serving == {c \in Calls : pc[c] = "serving"}
  <1> USE FollowerAssumption DEF FollowerInv, FollowerTypeOK, Goto
  <1>0. ASSUME UNCHANGED <<global, mp, active>>, serving' = serving
        PROVE  UNCHANGED Uncached!vars
    BY <1>0 DEF Uncached!vars
  <1>1. ASSUME NEW p \in Providers, Swap(p)
        PROVE  Uncached!Next
    <2>1. Uncached!Swap(p)
      BY <1>1 DEF Swap, meterVars, Uncached!Swap
    <2>2. QED  BY <2>1 DEF Uncached!Next
  <1>2. ASSUME NEW c \in Calls, ReadGlobal(c)
        PROVE  Uncached!Next
    <2>1. mp[c] = None
      BY <1>2 DEF ReadGlobal, CallersCurrent
    <2>2. serving' = serving
      BY <1>2 DEF ReadGlobal
    <2>3. Uncached!Begin(c)
      BY <1>2, <2>1, <2>2 DEF ReadGlobal, swapVars, meterVars, Uncached!Begin
    <2>4. QED  BY <2>3 DEF Uncached!Next
  <1>3. ASSUME NEW c \in Calls, FastPath(c) \/ Lock(c) \/ Recheck(c)
        PROVE  UNCHANGED Uncached!vars
    <2>1. serving' = serving
      BY <1>3 DEF FastPath, Lock, Recheck
    <2>2. QED  BY <1>3, <2>1, <1>0 DEF FastPath, Lock, Recheck, swapVars, meterVars
  <1>4. ASSUME NEW c \in Calls, Build(c) \/ Store(c)
        PROVE  UNCHANGED Uncached!vars
    <2>1. serving' = serving
      BY <1>4 DEF Build, Store
    <2>2. QED  BY <1>4, <2>1, <1>0 DEF Build, Store, swapVars, meterVars
  <1>5. ASSUME NEW c \in Calls, StartServing(c)
        PROVE  Uncached!Next
    <2>1. bound[c] = mp[c] /\ mp[c] # None
      BY <1>5 DEF StartServing, CallersCurrent
    <2>2. c \notin serving /\ serving' = serving \cup {c}
      BY <1>5 DEF StartServing
    <2>3. active' = [active EXCEPT ![mp[c]] = @ + 1]
      BY <1>5, <2>1 DEF StartServing
    <2>4. UNCHANGED <<global, mp>>
      BY <1>5 DEF StartServing, swapVars
    <2>5. Uncached!Serve(c)
      BY <2>1, <2>2, <2>3, <2>4 DEF Uncached!Serve
    <2>6. QED  BY <2>5 DEF Uncached!Next
  <1>6. ASSUME NEW c \in Calls, EndServing(c)
        PROVE  Uncached!Next
    <2>1. bound[c] = mp[c]
      BY <1>6 DEF EndServing, CallersCurrent
    <2>2. c \in serving /\ serving' = serving \ {c}
      BY <1>6 DEF EndServing, Finish
    <2>3. active' = [active EXCEPT ![mp[c]] = @ - 1]
      BY <1>6, <2>1 DEF EndServing
    <2>4. mp' = [mp EXCEPT ![c] = None] /\ UNCHANGED global
      BY <1>6 DEF EndServing, Finish, swapVars
    <2>5. Uncached!End(c)
      BY <2>2, <2>3, <2>4 DEF Uncached!End
    <2>6. QED  BY <2>5 DEF Uncached!Next
  <1>7. CASE UNCHANGED followVars
    BY <1>7, <1>0 DEF followVars, swapVars, callerVars, meterVars
  <1>8. QED
    BY <1>1, <1>2, <1>3, <1>4, <1>5, <1>6, <1>7 DEF FollowerNext, CallerStep

\* The cache, its mutex and the rebuilds cannot be told from instruments built anew in
\* every call (endpoint.get, followMeter.handler, countActive).
THEOREM CacheIsInvisible == FollowerSpec => ImplementsUncachedInstruments
  <1>1. FollowerInit => Uncached!Init
    BY UncachedInit
  <1>2. FollowerInv /\ [FollowerNext]_followVars => [Uncached!Next]_(Uncached!vars)
    BY UncachedStep
  <1>3. QED
    BY <1>1, <1>2, FollowerInvariance, PTL
    DEF FollowerSpec, ImplementsUncachedInstruments, Uncached!Spec
=============================================================================
