---------------------------- MODULE MeterFollower ----------------------------
(***************************************************************************)
(* Instruments that follow the global MeterProvider.  endpoint.get         *)
(* (telemetry-web/endpoint/endpoint.go) and followMeter.handler            *)
(* (telemetry-web/nethttp/nethttp.go) are the same algorithm: read the     *)
(* global provider, compare it with the one the cached instruments were    *)
(* built from, and rebuild under a mutex when they differ, comparing again *)
(* once the mutex is held.  Calls interleave freely, and the provider may  *)
(* be swapped between any two steps.                                       *)
(*                                                                         *)
(* The caller then uses what it got: countActive raises                    *)
(* http.server.active_requests on it, serves the request and brings it     *)
(* down again in a deferred call, so when the request panics too.          *)
(*                                                                         *)
(* Instruments are told apart by the provider they write to.               *)
(***************************************************************************)
EXTENDS Integers, FiniteSets

CONSTANTS
    Providers,  \* MeterProviders
    Noop,       \* the one of them that retire installs, again and again: all
                \* noop providers compare equal
    Broken,     \* those on which an instrument cannot be created
    First,      \* the global provider at the start
    Calls,      \* callers: goroutines serving requests
    MaxCalls,   \* bound: calls made altogether
    None

ASSUME FollowerAssumption ==
    /\ Noop \in Providers /\ First \in Providers
    /\ Broken \subseteq Providers \ {Noop}
    /\ IsFiniteSet(Calls)
    /\ MaxCalls \in Nat
    /\ None \notin Providers \cup Calls \cup [mp : Providers, i : Providers]

VARIABLES
    global,    \* otel.GetMeterProvider()
    retired,   \* providers that were global before
    quiet,     \* no call was under way when the global provider was set last
    current,   \* the cached instruments and the provider they are kept under, or None
    mutex,     \* the caller that holds buildMu (followMeter.mu), or None
    pc,
    mp,        \* the provider a caller read
    built,     \* the instruments a caller has built and not yet stored
    bound,     \* the instruments it was given
    lived,     \* the providers that were global since its call began
    active,    \* http.server.active_requests, per provider
    warnings,  \* warnings about instruments that could not be created, per provider
    calls      \* calls made (bounded by MaxCalls)

swapVars == <<global, retired, quiet>>
callerVars == <<pc, mp, built, bound, lived>>
meterVars == <<active, warnings>>
followVars == <<swapVars, current, mutex, callerVars, meterVars, calls>>

\* The shape of the cache, the callers and what they counted.
FollowerTypeOK ==
    /\ global \in Providers
    /\ retired \subseteq Providers
    /\ quiet \in BOOLEAN
    /\ current \in [mp : Providers, i : Providers] \cup {None}
    /\ mutex \in Calls \cup {None}
    /\ pc \in [Calls -> {"idle", "read", "miss", "locked", "build", "store", "bound", "serving"}]
    /\ mp \in [Calls -> Providers \cup {None}]
    /\ built \in [Calls -> Providers \cup {None}]
    /\ bound \in [Calls -> Providers \cup {None}]
    /\ lived \in [Calls -> SUBSET Providers]
    /\ active \in [Providers -> Nat]
    /\ warnings \in [Providers -> Nat]
    /\ calls \in 0..MaxCalls

FollowerInit ==
    /\ global = First
    /\ retired = {}
    /\ quiet = TRUE
    /\ current = None
    /\ mutex = None
    /\ pc = [c \in Calls |-> "idle"]
    /\ mp = [c \in Calls |-> None]
    /\ built = [c \in Calls |-> None]
    /\ bound = [c \in Calls |-> None]
    /\ lived = [c \in Calls |-> {}]
    /\ active = [p \in Providers |-> 0]
    /\ warnings = [p \in Providers |-> 0]
    /\ calls = 0

Goto(c, phase) == pc' = [pc EXCEPT ![c] = phase]

\* The cached instruments are kept under the provider c read.
Hit(c) == current # None /\ current.mp = mp[c]

-----------------------------------------------------------------------------
\* otel.SetMeterProvider: by an Init, a shutdown or another component.  A provider
\* once replaced does not come back, but for the noop.
Swap(p) ==
    /\ p # global
    /\ p \in retired => p = Noop
    /\ global' = p
    /\ retired' = retired \cup {global}
    /\ quiet' = (\A c \in Calls : pc[c] = "idle")
    /\ lived' = [c \in Calls |-> IF pc[c] = "idle" THEN {} ELSE lived[c] \cup {p}]
    /\ UNCHANGED <<current, mutex, pc, mp, built, bound, meterVars, calls>>

\* The call begins by reading the global provider.
ReadGlobal(c) ==
    /\ pc[c] = "idle"
    /\ calls < MaxCalls
    /\ calls' = calls + 1
    /\ mp' = [mp EXCEPT ![c] = global]
    /\ lived' = [lived EXCEPT ![c] = {global}]
    /\ Goto(c, "read")
    /\ UNCHANGED <<swapVars, current, mutex, built, bound, meterVars>>

\* The load and comparison without the mutex.
FastPath(c) ==
    /\ pc[c] = "read"
    /\ IF Hit(c)
       THEN bound' = [bound EXCEPT ![c] = current.i] /\ Goto(c, "bound")
       ELSE Goto(c, "miss") /\ UNCHANGED bound
    /\ UNCHANGED <<swapVars, current, mutex, mp, built, lived, meterVars, calls>>

Lock(c) ==
    /\ pc[c] = "miss"
    /\ mutex = None
    /\ mutex' = c
    /\ Goto(c, "locked")
    /\ UNCHANGED <<swapVars, current, mp, built, bound, lived, meterVars, calls>>

\* (slip) No second comparison: whoever missed rebuilds.
RecheckSkipped(c) ==
    /\ pc[c] = "locked"
    /\ Goto(c, "build")
    /\ UNCHANGED <<swapVars, current, mutex, mp, built, bound, lived, meterVars, calls>>

\* (slip) The mutex is not unlocked when another caller was quicker.
RecheckLocked(c) ==
    /\ pc[c] = "locked"
    /\ IF Hit(c)
       THEN bound' = [bound EXCEPT ![c] = current.i] /\ Goto(c, "bound")
       ELSE Goto(c, "build") /\ UNCHANGED bound
    /\ UNCHANGED <<swapVars, current, mutex, mp, built, lived, meterVars, calls>>

\* The comparison again, under the mutex: another caller may have been quicker.
Recheck(c) ==
    /\ pc[c] = "locked"
    /\ IF Hit(c)
       THEN bound' = [bound EXCEPT ![c] = current.i] /\ mutex' = None /\ Goto(c, "bound")
       ELSE Goto(c, "build") /\ UNCHANGED <<bound, mutex>>
    /\ UNCHANGED <<swapVars, current, mp, built, lived, meterVars, calls>>

\* (slip) build asks otel for the provider itself.
BuildFromGlobal(c) ==
    /\ pc[c] = "build"
    /\ built' = [built EXCEPT ![c] = global]
    /\ warnings' = IF global \in Broken THEN [warnings EXCEPT ![global] = @ + 1] ELSE warnings
    /\ Goto(c, "store")
    /\ UNCHANGED <<swapVars, current, mutex, mp, bound, lived, active, calls>>

\* build(mp).  warnOnce was replaced just before, so every build may warn.
Build(c) ==
    /\ pc[c] = "build"
    /\ built' = [built EXCEPT ![c] = mp[c]]
    /\ warnings' = IF mp[c] \in Broken THEN [warnings EXCEPT ![mp[c]] = @ + 1] ELSE warnings
    /\ Goto(c, "store")
    /\ UNCHANGED <<swapVars, current, mutex, mp, bound, lived, active, calls>>

\* The instruments are published under the provider c read, and the mutex unlocked.
Store(c) ==
    /\ pc[c] = "store"
    /\ current' = [mp |-> mp[c], i |-> built[c]]
    /\ bound' = [bound EXCEPT ![c] = built[c]]
    /\ built' = [built EXCEPT ![c] = None]
    /\ mutex' = None
    /\ Goto(c, "bound")
    /\ UNCHANGED <<swapVars, mp, lived, meterVars, calls>>

\* countActive: one up on the instruments the request was given ...
StartServing(c) ==
    /\ pc[c] = "bound"
    /\ active' = [active EXCEPT ![bound[c]] = @ + 1]
    /\ Goto(c, "serving")
    /\ UNCHANGED <<swapVars, current, mutex, mp, built, bound, lived, warnings, calls>>

\* The call returns; its locals are gone.
Finish(c) ==
    /\ Goto(c, "idle")
    /\ mp' = [mp EXCEPT ![c] = None]
    /\ bound' = [bound EXCEPT ![c] = None]
    /\ lived' = [lived EXCEPT ![c] = {}]
    /\ UNCHANGED <<swapVars, current, mutex, built, warnings, calls>>

\* (slip) The count is brought down on the provider that is global by now.
EndServingOnGlobal(c) ==
    /\ pc[c] = "serving"
    /\ active' = [active EXCEPT ![global] = @ - 1]
    /\ Finish(c)

\* ... and one down on the same instruments when it ends.
EndServing(c) ==
    /\ pc[c] = "serving"
    /\ active' = [active EXCEPT ![bound[c]] = @ - 1]
    /\ Finish(c)

-----------------------------------------------------------------------------
CallerStep(c) ==
    \/ FastPath(c) \/ Lock(c) \/ Recheck(c) \/ Build(c) \/ Store(c)
    \/ StartServing(c) \/ EndServing(c)

FollowerNext ==
    \/ \E p \in Providers : Swap(p)
    \/ \E c \in Calls : ReadGlobal(c) \/ CallerStep(c)

FollowerSpec == FollowerInit /\ [][FollowerNext]_followVars

(***************************************************************************)
(* Fairness: callers run on (requests end), and sync.Mutex does not starve *)
(* a caller that waits for it.                                             *)
(***************************************************************************)
FairFollowerSpec ==
    /\ FollowerSpec
    /\ \A c \in Calls : WF_followVars(CallerStep(c)) /\ SF_followVars(Lock(c))

-----------------------------------------------------------------------------
\* A caller writes to a provider that was the global one at some time during its own
\* call: one that begins after a provider was retired never writes to that one,
\* however stale the cache and whatever slower callers put there.
BoundWasGlobal ==
    \A c \in Calls : pc[c] \in {"bound", "serving"} => bound[c] \in lived[c]

\* The active requests a provider counts are those being served with its instruments,
\* swaps in the middle of a request notwithstanding.
ActiveBalanced ==
    \A p \in Providers :
        active[p] = Cardinality({c \in Calls : pc[c] = "serving" /\ bound[c] = p})

\* Callers that miss at the same time rebuild once: as long as no call straddles the
\* swap, a failing provider is warned about once.
BuiltOnceWhenQuiet == quiet => warnings[global] <= 1

\* "A creation failure is warned about once per provider generation" (build's
\* comment): a caller that read the provider before it was retired rebuilds for it
\* afterwards, and warns again.
WarnedOncePerGeneration == \A p \in Providers : warnings[p] <= 1

\* The cache cannot be told from building instruments anew in every call: which
\* provider a call counts on is settled by its first read alone, be it a hit, a hit
\* on the second comparison, a rebuild, or a rebuild for a provider long replaced.
Uncached ==
    INSTANCE UncachedInstruments
    WITH chosen <- mp, serving <- {c \in Calls : pc[c] = "serving"}
ImplementsUncachedInstruments == Uncached!Spec

\* Every call gets its instruments and ends: no path keeps the mutex.
CallsFinish == \A c \in Calls : pc[c] # "idle" ~> pc[c] = "idle"
=============================================================================
