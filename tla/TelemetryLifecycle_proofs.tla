----------------------- MODULE TelemetryLifecycle_proofs -----------------------
(***************************************************************************)
(* The safety of TelemetryLifecycle for any number of Inits and callers,   *)
(* any configuration and environment.  LifecycleInv is inductive; the      *)
(* properties follow from it, and so does the refinement of                *)
(* TelemetryOwnership.  What the derived loggers write follows from an     *)
(* induction over the calls they were derived by.                          *)
(***************************************************************************)
EXTENDS TelemetryLifecycle, TLAPS, WellFoundedInduction

\* The globals are still those of an Init whose shutdown is here.
Wired == Whole \ {"reset"}

\* Where g is decides what it has running, what is wired to it, and with what settings.
MutexHeld == \A g \in Inits : Holds(g) <=> initMu = g
OneEngaged == \A g, h \in Inits : Engaged(g) /\ Engaged(h) => g = h
CallsInOrder ==
    \A g \in Inits :
        /\ stop[g] # "none" \/ asked[g] # {} => pc[g] = "up"
        /\ pc[g] = "new" => tp[g] = "none" /\ mp[g] = "none"
        /\ pc[g] \notin {"new", "failed"} => given[g] \in Configs /\ given[g].provider # NilPointer
TracesRun ==
    \A g \in Inits :
        /\ tp[g] = "leaked" => g \in ranOut
        /\ tp[g] = "live" <=> pc[g] \in {"metrics", "runtime", "cleanup"}
                              \/ UpTo(g, {"none", "context", "flushTraces"})
MetricsRun ==
    \A g \in Inits :
        mp[g] = "live" <=> OwnsMetrics(g) /\ (pc[g] = "runtime"
                              \/ UpTo(g, {"none", "context", "flushTraces", "flushMetrics"}))
TracerWired ==
    \A g \in Inits :
        /\ tracer = g => pc[g] \in {"metrics", "runtime", "cleanup", "retire"} \/ UpTo(g, Wired)
        /\ pc[g] \in {"metrics", "runtime", "cleanup"} \/ UpTo(g, Wired) => tracer = g
NameWired ==
    \A g \in Inits :
        serviceName = g <=> pc[g] \in {"tracing", "metrics", "runtime", "cleanup", "retire"}
                            \/ UpTo(g, Wired)
MeterWired ==
    \A g \in Inits :
        /\ meter = g => OwnsMetrics(g) /\ (pc[g] \in {"runtime", "cleanup", "retire"} \/ UpTo(g, Wired))
        /\ pc[g] = "runtime" \/ UpTo(g, {"none"}) =>
              IF OwnsMetrics(g) THEN meter \in {g, External} ELSE pc[g] = "up" /\ meter = External
PipelineSet ==
    /\ env \in Envs
    /\ \A g \in Inits :
          /\ tp[g] # "none" => /\ pipeline[g].spans = SpanExporter(given[g], env)
                               /\ pipeline[g].ratio = ResolveRatio(given[g].ratio, env.arg)
          /\ mp[g] # "none" => pipeline[g].metrics = MetricExporter(given[g], env)

\* A context for tp.Shutdown is dead only if its deadline passed since it was derived.
FlushAlive ==
    \A g \in Inits : stop[g] = "flushTraces" =>
        flushCtx[g] \in Contexts /\ (Dead(flushCtx[g]) => g \in ranOut)

LifecycleInv ==
    /\ LifecycleTypeOK
    /\ MutexHeld /\ OneEngaged /\ FlagHasOwner /\ CallsInOrder
    /\ TracesRun /\ MetricsRun /\ FlushAlive
    /\ TracerWired /\ NameWired /\ MeterWired
    /\ PipelineSet
-----------------------------------------------------------------------------
(* Lemmas                                                                  *)

\* Init establishes the invariant.
LEMMA LifecycleInitInv == LifecycleInit => LifecycleInv
<1> SUFFICES ASSUME LifecycleInit PROVE LifecycleInv
    OBVIOUS
<1> USE LifecycleAssumption DEF LifecycleInit
<1>1. LifecycleTypeOK
    BY DEF LifecycleTypeOK, ProviderStates
<1>2. MutexHeld /\ OneEngaged /\ FlagHasOwner /\ CallsInOrder
    BY DEF MutexHeld, OneEngaged, FlagHasOwner, CallsInOrder, Holds, Engaged, UpTo
<1>3. TracesRun /\ MetricsRun /\ TracerWired /\ NameWired /\ MeterWired
    BY DEF TracesRun, MetricsRun, TracerWired, NameWired, MeterWired, UpTo
<1>4. PipelineSet /\ FlushAlive
    BY DEF PipelineSet, FlushAlive
<1> QED BY <1>1, <1>2, <1>3, <1>4 DEF LifecycleInv

\* Up to a provider that cannot be built, an Init only takes initMu, while no Init is up,
\* and sets the name.
LEMMA PreparesInv ==
    ASSUME LifecycleInv, NEW g \in Inits,
           \/ InitRejected(g) \/ InitCalled(g) \/ Lock(g) \/ Setup(g)
           \/ SpanProcessorFails(g) \/ MetricReaderFails(g)
    PROVE  LifecycleInv'
<1> USE LifecycleAssumption
    DEF InitRejected, InitCalled, Lock, Setup, SpanProcessorFails, MetricReaderFails, Goto,
        LifecycleInv, globalVars, initVars, stopVars, flushVars
<1>1. LifecycleTypeOK'
    BY DEF LifecycleTypeOK, ProviderStates
<1>2. \A h \in Inits \ {g} :
          /\ pc'[h] = pc[h] /\ stop'[h] = stop[h] /\ tp'[h] = tp[h] /\ mp'[h] = mp[h]
          /\ given'[h] = given[h] /\ pipeline'[h] = pipeline[h]
    BY DEF LifecycleTypeOK
<1> USE <1>2 DEF LifecycleTypeOK, CallsInOrder
<1>3. MutexHeld'
    BY DEF MutexHeld, Holds
<1>4. OneEngaged' /\ FlagHasOwner'
    BY DEF OneEngaged, FlagHasOwner, Engaged, Holds, UpTo, Whole, MutexHeld
<1>5. CallsInOrder'
    OBVIOUS
<1>6. TracesRun'
    BY DEF TracesRun, UpTo
<1>7. MetricsRun'
    BY DEF MetricsRun, UpTo, OwnsMetrics
<1>8. TracerWired'
    BY DEF TracerWired, OneEngaged, Engaged, Holds, UpTo, Whole, Wired
<1>9. NameWired'
    BY DEF NameWired, OneEngaged, Engaged, Holds, UpTo, Whole, Wired
<1>10. MeterWired'
    BY DEF MeterWired, OneEngaged, Engaged, Holds, UpTo, Whole, Wired, OwnsMetrics
<1>11. PipelineSet'
    BY DEF PipelineSet
<1>12. FlushAlive'
    BY DEF FlushAlive
<1> QED BY <1>1, <1>3, <1>4, <1>5, <1>6, <1>7, <1>8, <1>9, <1>10, <1>11, <1>12

\* A provider goes live and global together.
LEMMA CreatesInv ==
    ASSUME LifecycleInv, NEW g \in Inits,
           StartTracing(g) \/ StartMetrics(g)
    PROVE  LifecycleInv'
<1> USE LifecycleAssumption
    DEF StartTracing, StartMetrics, Goto,
        LifecycleInv, globalVars, initVars, stopVars, flushVars
<1>1. LifecycleTypeOK'
    <2>1. CASE StartTracing(g)
        BY <2>1 DEF LifecycleTypeOK, ProviderStates
    <2>2. CASE StartMetrics(g)
        BY <2>2 DEF LifecycleTypeOK, ProviderStates
    <2> QED BY <2>1, <2>2
<1>2. \A h \in Inits \ {g} :
          /\ pc'[h] = pc[h] /\ stop'[h] = stop[h] /\ tp'[h] = tp[h] /\ mp'[h] = mp[h]
          /\ given'[h] = given[h] /\ pipeline'[h] = pipeline[h]
    BY DEF LifecycleTypeOK
<1> USE <1>2 DEF LifecycleTypeOK, CallsInOrder
<1>3. MutexHeld'
    BY DEF MutexHeld, Holds
<1>4. OneEngaged' /\ FlagHasOwner'
    BY DEF OneEngaged, FlagHasOwner, Engaged, Holds, UpTo, Whole, MutexHeld
<1>5. CallsInOrder'
    OBVIOUS
<1>6. TracesRun'
    BY DEF TracesRun, UpTo
<1>7. MetricsRun'
    BY DEF MetricsRun, UpTo, OwnsMetrics
<1>8. TracerWired'
    BY DEF TracerWired, OneEngaged, Engaged, Holds, UpTo, Whole, Wired
<1>9. NameWired'
    BY DEF NameWired, OneEngaged, Engaged, Holds, UpTo, Whole, Wired
<1>10. MeterWired'
    BY DEF MeterWired, OneEngaged, Engaged, Holds, UpTo, Whole, Wired, OwnsMetrics
<1>11. PipelineSet'
    <2>1. CASE StartTracing(g)
        BY <2>1 DEF PipelineSet
    <2>2. CASE StartMetrics(g)
        BY <2>2 DEF PipelineSet
    <2> QED BY <2>1, <2>2
<1>12. FlushAlive'
    BY DEF FlushAlive
<1> QED BY <1>1, <1>3, <1>4, <1>5, <1>6, <1>7, <1>8, <1>9, <1>10, <1>11, <1>12

\* A whole Init sets the flag as it gives initMu back.
LEMMA SucceedsInv ==
    ASSUME LifecycleInv, NEW g \in Inits,
           UseExternal(g) \/ RuntimeStarts(g)
    PROVE  LifecycleInv'
<1> USE LifecycleAssumption
    DEF UseExternal, RuntimeStarts, Goto,
        LifecycleInv, globalVars, initVars, stopVars, flushVars
<1>1. LifecycleTypeOK'
    <2>1. pc[g] = "metrics" /\ ~OwnsMetrics(g) => given[g].provider = External
        BY DEF CallsInOrder, OwnsMetrics
    <2> QED BY <2>1 DEF LifecycleTypeOK, ProviderStates
<1>2. \A h \in Inits \ {g} :
          /\ pc'[h] = pc[h] /\ stop'[h] = stop[h] /\ tp'[h] = tp[h] /\ mp'[h] = mp[h]
          /\ given'[h] = given[h] /\ pipeline'[h] = pipeline[h]
    BY DEF LifecycleTypeOK
<1> USE <1>2 DEF LifecycleTypeOK, CallsInOrder
<1>3. MutexHeld'
    BY DEF MutexHeld, Holds
<1>4. OneEngaged' /\ FlagHasOwner'
    BY DEF OneEngaged, FlagHasOwner, Engaged, Holds, UpTo, Whole, MutexHeld
<1>5. CallsInOrder'
    OBVIOUS
<1>6. TracesRun'
    BY DEF TracesRun, UpTo
<1>7. MetricsRun'
    BY DEF MetricsRun, UpTo, OwnsMetrics
<1>8. TracerWired'
    BY DEF TracerWired, OneEngaged, Engaged, Holds, UpTo, Whole, Wired
<1>9. NameWired'
    BY DEF NameWired, OneEngaged, Engaged, Holds, UpTo, Whole, Wired
<1>10. MeterWired'
    BY DEF MeterWired, OneEngaged, Engaged, Holds, UpTo, Whole, Wired, OwnsMetrics
<1>11. PipelineSet'
    BY DEF PipelineSet
<1>12. FlushAlive'
    BY DEF FlushAlive
<1> QED BY <1>1, <1>3, <1>4, <1>5, <1>6, <1>7, <1>8, <1>9, <1>10, <1>11, <1>12

\* A failing Init stops what it started, under a context that is never dead, and takes
\* its globals back before it gives initMu back.
LEMMA FailsInv ==
    ASSUME LifecycleInv, NEW g \in Inits,
           RuntimeFails(g) \/ Cleanup(g) \/ RetireFailed(g)
    PROVE  LifecycleInv'
<1> USE LifecycleAssumption
    DEF RuntimeFails, Cleanup, RetireFailed, Goto, Retire, ShutdownTracer, ShutdownMeter,
        Dead, WithoutCancel,
        LifecycleInv, globalVars, initVars, stopVars, flushVars
<1>1. LifecycleTypeOK'
    BY DEF LifecycleTypeOK, ProviderStates
<1>2. \A h \in Inits \ {g} :
          /\ pc'[h] = pc[h] /\ stop'[h] = stop[h] /\ tp'[h] = tp[h] /\ mp'[h] = mp[h]
          /\ given'[h] = given[h] /\ pipeline'[h] = pipeline[h]
    BY DEF LifecycleTypeOK
<1> USE <1>2 DEF LifecycleTypeOK, CallsInOrder
<1>3. MutexHeld'
    BY DEF MutexHeld, Holds
<1>4. OneEngaged' /\ FlagHasOwner'
    BY DEF OneEngaged, FlagHasOwner, Engaged, Holds, UpTo, Whole, MutexHeld
<1>5. CallsInOrder'
    OBVIOUS
<1>6. TracesRun'
    BY DEF TracesRun, UpTo
<1>7. MetricsRun'
    BY DEF MetricsRun, UpTo, OwnsMetrics
<1>8. TracerWired'
    BY DEF TracerWired, OneEngaged, Engaged, Holds, UpTo, Whole, Wired
<1>9. NameWired'
    BY DEF NameWired, OneEngaged, Engaged, Holds, UpTo, Whole, Wired
<1>10. MeterWired'
    BY DEF MeterWired, OneEngaged, Engaged, Holds, UpTo, Whole, Wired, OwnsMetrics
<1>11. PipelineSet'
    BY DEF PipelineSet
<1>12. FlushAlive'
    BY DEF FlushAlive
<1> QED BY <1>1, <1>3, <1>4, <1>5, <1>6, <1>7, <1>8, <1>9, <1>10, <1>11, <1>12

\* A shutdown undoes what Init did in the same order, and resets the flag last.
LEMMA StopsInv ==
    ASSUME LifecycleInv, NEW g \in Inits,
           FlushTraces(g) \/ FlushMetrics(g) \/ RetireStopped(g) \/ Reset(g)
    PROVE  LifecycleInv'
<1> USE LifecycleAssumption
    DEF FlushTraces, FlushMetrics, RetireStopped, Reset, StopAt, Retire, ShutdownTracer,
        ShutdownMeter,
        LifecycleInv, globalVars, initVars, stopVars, flushVars
<1>1. LifecycleTypeOK'
    <2>1. CASE FlushTraces(g)
        BY <2>1 DEF LifecycleTypeOK, ProviderStates
    <2>2. CASE FlushMetrics(g)
        BY <2>2 DEF LifecycleTypeOK, ProviderStates
    <2>3. CASE RetireStopped(g)
        BY <2>3 DEF LifecycleTypeOK, ProviderStates
    <2>4. CASE Reset(g)
        BY <2>4 DEF LifecycleTypeOK, ProviderStates
    <2> QED BY <2>1, <2>2, <2>3, <2>4
<1>2. \A h \in Inits \ {g} :
          /\ pc'[h] = pc[h] /\ stop'[h] = stop[h] /\ tp'[h] = tp[h] /\ mp'[h] = mp[h]
          /\ given'[h] = given[h] /\ pipeline'[h] = pipeline[h]
    BY DEF LifecycleTypeOK
<1> USE <1>2 DEF LifecycleTypeOK, CallsInOrder
<1>3. MutexHeld'
    BY DEF MutexHeld, Holds
<1>4. OneEngaged' /\ FlagHasOwner'
    BY DEF OneEngaged, FlagHasOwner, Engaged, Holds, UpTo, Whole, MutexHeld
<1>5. CallsInOrder'
    OBVIOUS
<1>6. TracesRun'
    BY DEF TracesRun, UpTo, FlushAlive
<1>7. MetricsRun'
    BY DEF MetricsRun, UpTo, OwnsMetrics
<1>8. TracerWired'
    BY DEF TracerWired, OneEngaged, Engaged, Holds, UpTo, Whole, Wired
<1>9. NameWired'
    BY DEF NameWired, OneEngaged, Engaged, Holds, UpTo, Whole, Wired
<1>10. MeterWired'
    BY DEF MeterWired, OneEngaged, Engaged, Holds, UpTo, Whole, Wired, OwnsMetrics
<1>11. PipelineSet'
    BY DEF PipelineSet
<1>12. FlushAlive'
    BY DEF FlushAlive
<1> QED BY <1>1, <1>3, <1>4, <1>5, <1>6, <1>7, <1>8, <1>9, <1>10, <1>11, <1>12

\* A step that moves no Init, no shutdown further than to its flush, no provider, and no
\* global but the meter to another component's, keeps the invariant.
LEMMA QuietStepInv ==
    ASSUME LifecycleInv, LifecycleTypeOK', FlushAlive', ranOut \subseteq ranOut',
           UNCHANGED <<tracer, serviceName, initialized, initMu, initVars, tp, mp>>,
           meter' \in {meter, External},
           \A g \in Inits : asked'[g] # {} => pc[g] = "up",
           \A g \in Inits : \/ stop'[g] = stop[g]
                            \/ pc[g] = "up" /\ stop[g] = "none" /\ stop'[g] = "context"
                            \/ pc[g] = "up" /\ stop[g] = "context" /\ stop'[g] = "flushTraces"
    PROVE  LifecycleInv'
<1> USE LifecycleAssumption DEF LifecycleInv, initVars
<1>1. MutexHeld'
    BY DEF MutexHeld, Holds
<1>2. OneEngaged' /\ FlagHasOwner'
    BY DEF OneEngaged, FlagHasOwner, Engaged, Holds, UpTo, Whole
<1>3. CallsInOrder' /\ PipelineSet'
    BY DEF CallsInOrder, PipelineSet
<1>4. TracesRun' /\ MetricsRun'
    BY DEF TracesRun, MetricsRun, UpTo, OwnsMetrics
<1>5. TracerWired' /\ NameWired'
    BY DEF TracerWired, NameWired, UpTo, Wired, Whole
<1>6. MeterWired'
    BY DEF MeterWired, UpTo, Wired, Whole, OwnsMetrics
<1> QED BY <1>1, <1>2, <1>3, <1>4, <1>5, <1>6

\* flushContext gives a context that is alive, whatever the caller's, and only its
\* deadline can end it.
LEMMA FlushContextAlive ==
    ASSUME NEW x \in CallerContexts
    PROVE  FlushContext(x) \in Contexts /\ ~ Dead(FlushContext(x))
    BY DEF CallerContexts, Contexts, FlushContext, WithoutCancel, Dead

\* A shutdown derives the context of its flush, or the context's deadline passes.
LEMMA ContextInv ==
    ASSUME LifecycleInv, NEW g \in Inits, DeriveContext(g) \/ DeadlinePasses(g)
    PROVE  LifecycleInv'
<1> USE DEF LifecycleInv, LifecycleTypeOK, CallsInOrder, StopAt
<1>1. CASE DeriveContext(g)
    <2>1. PICK x \in CallerContexts : flushCtx' = [flushCtx EXCEPT ![g] = FlushContext(x)]
        BY <1>1 DEF DeriveContext
    <2>2. LifecycleTypeOK'
        BY <1>1, <2>1, FlushContextAlive DEF DeriveContext, globalVars, initVars
    <2>3. FlushAlive'
        BY <1>1, <2>1, FlushContextAlive DEF DeriveContext, FlushAlive, Dead
    <2>4. \A h \in Inits : \/ stop'[h] = stop[h]
                           \/ pc[h] = "up" /\ stop[h] = "context" /\ stop'[h] = "flushTraces"
        BY <1>1 DEF DeriveContext
    <2>5. \A h \in Inits : asked'[h] # {} => pc[h] = "up"
        BY <1>1 DEF DeriveContext
    <2>6. UNCHANGED <<globalVars, initialized, initMu, initVars, tp, mp, ranOut>>
        BY <1>1 DEF DeriveContext
    <2> HIDE DEF LifecycleInv, LifecycleTypeOK, StopAt
    <2> QED BY <2>2, <2>3, <2>4, <2>5, <2>6, QuietStepInv DEF globalVars
<1>2. CASE DeadlinePasses(g)
    <2>1. flushCtx[g] \in Contexts /\ ranOut' = ranOut \cup {g}
        BY <1>2 DEF DeadlinePasses, FlushAlive
    <2>2. [flushCtx[g] EXCEPT !.deadline = "past"] \in Contexts
        BY <2>1 DEF Contexts
    <2>3. LifecycleTypeOK'
        BY <1>2, <2>1, <2>2 DEF DeadlinePasses, globalVars, initVars
    <2>4. FlushAlive'
        BY <1>2, <2>1, <2>2 DEF DeadlinePasses, FlushAlive, Dead
    <2>5. \A h \in Inits : stop'[h] = stop[h] /\ (asked'[h] # {} => pc[h] = "up")
        BY <1>2 DEF DeadlinePasses
    <2>6. UNCHANGED <<globalVars, initialized, initMu, initVars, tp, mp>>
        BY <1>2 DEF DeadlinePasses
    <2> HIDE DEF LifecycleInv, LifecycleTypeOK
    <2> QED BY <2>1, <2>3, <2>4, <2>5, <2>6, QuietStepInv DEF globalVars
<1> QED BY <1>1, <1>2

\* A call of a shutdown arrives, enters once.Do or returns, or another component makes
\* its MeterProvider global.
LEMMA CallersInv ==
    ASSUME LifecycleInv,
           \/ ExternalUp
           \/ \E g \in Inits, k \in Callers :
                 ShutdownCalled(g, k) \/ Enter(g, k) \/ ShutdownReturns(g, k)
    PROVE  LifecycleInv'
<1>1. CASE ExternalUp
    <2>1. LifecycleTypeOK' /\ FlushAlive'
        BY <1>1 DEF ExternalUp, LifecycleInv, LifecycleTypeOK, FlushAlive, initVars, stopVars,
                    flushVars
    <2> QED BY <1>1, <2>1, QuietStepInv DEF ExternalUp, stopVars, flushVars, LifecycleInv, CallsInOrder
<1>2. ASSUME NEW g \in Inits, NEW k \in Callers,
             ShutdownCalled(g, k) \/ Enter(g, k) \/ ShutdownReturns(g, k)
      PROVE  LifecycleInv'
    <2> USE DEF ShutdownCalled, Enter, ShutdownReturns, StopAt, globalVars, flushVars
    <2>1. LifecycleTypeOK'
        BY <1>2 DEF LifecycleInv, LifecycleTypeOK, initVars
    <2>2. \A h \in Inits : \/ stop'[h] = stop[h]
                           \/ pc[h] = "up" /\ stop[h] = "none" /\ stop'[h] = "context"
        BY <1>2 DEF LifecycleInv, LifecycleTypeOK, CallsInOrder
    <2>3. \A h \in Inits : asked'[h] # {} => pc[h] = "up"
        BY <1>2 DEF LifecycleInv, LifecycleTypeOK, CallsInOrder
    <2>4. FlushAlive'
        BY <1>2, <2>2 DEF LifecycleInv, FlushAlive
    <2> QED BY <1>2, <2>1, <2>2, <2>3, <2>4, QuietStepInv
<1> QED BY <1>1, <1>2

-----------------------------------------------------------------------------
(* The specification                                                       *)

\* Every step preserves the invariant.
LEMMA LifecycleStep == LifecycleInv /\ [LifecycleNext]_lifeVars => LifecycleInv'
<1> SUFFICES ASSUME LifecycleInv, [LifecycleNext]_lifeVars PROVE LifecycleInv'
    OBVIOUS
<1>1. ASSUME NEW g \in Inits, InitRejected(g) \/ InitCalled(g) PROVE LifecycleInv'
    BY <1>1, PreparesInv
<1>2. ASSUME NEW g \in Inits, InitStep(g) PROVE LifecycleInv'
    BY <1>2, PreparesInv, CreatesInv, SucceedsInv, FailsInv DEF InitStep
<1>3. ASSUME NEW g \in Inits,
             FlushTraces(g) \/ FlushMetrics(g) \/ RetireStopped(g) \/ Reset(g)
      PROVE  LifecycleInv'
    BY <1>3, StopsInv
<1>4. ASSUME \/ ExternalUp
             \/ \E g \in Inits, k \in Callers :
                   ShutdownCalled(g, k) \/ Enter(g, k) \/ ShutdownReturns(g, k)
      PROVE  LifecycleInv'
    BY <1>4, CallersInv
<1>5. ASSUME NEW g \in Inits, DeriveContext(g) \/ DeadlinePasses(g) PROVE LifecycleInv'
    BY <1>5, ContextInv
<1>6. ASSUME UNCHANGED lifeVars PROVE LifecycleInv'
    <2> USE <1>6 DEF lifeVars, globalVars, initVars, stopVars, flushVars
    <2>1. LifecycleTypeOK' /\ FlushAlive'
        BY DEF LifecycleInv, LifecycleTypeOK, FlushAlive
    <2> QED BY <2>1, QuietStepInv DEF LifecycleInv, CallsInOrder
<1> QED BY <1>1, <1>2, <1>3, <1>4, <1>5, <1>6 DEF LifecycleNext, ShutdownStep

\* LifecycleInv is an invariant of the specification.
THEOREM LifecycleInvariance == LifecycleSpec => []LifecycleInv
<1>1. LifecycleInit => LifecycleInv
    BY LifecycleInitInv
<1>2. LifecycleInv /\ [LifecycleNext]_lifeVars => LifecycleInv'
    BY LifecycleStep
<1> QED BY <1>1, <1>2, PTL DEF LifecycleSpec

\* At most one Init's goroutines run, which is what the flag and initMu are for (Init).
THEOREM PipelinesNeverPileUp == LifecycleSpec => []OneLivePipeline
<1>1. LifecycleInv => OneLivePipeline
    <2> SUFFICES ASSUME LifecycleInv, NEW g \in Inits, NEW h \in Inits,
                        "live" \in {tp[g], mp[g]}, "live" \in {tp[h], mp[h]}
                 PROVE  g = h
        BY DEF OneLivePipeline
    <2>1. Engaged(g) /\ Engaged(h)
        BY DEF LifecycleInv, TracesRun, MetricsRun, Engaged, Holds, UpTo, Whole
    <2> QED BY <2>1 DEF LifecycleInv, OneEngaged
<1> QED BY <1>1, LifecycleInvariance, PTL

\* Under any contexts a provider leaks only if the deadline of its flush passes in the
\* window between flushContext and tp.Shutdown (flushContext, cleanupCtx).
THEOREM NoProviderLeaks == LifecycleSpec => []NothingLeaks
<1>1. LifecycleInv => NothingLeaks
    BY DEF LifecycleInv, TracesRun, NothingLeaks
<1> QED BY <1>1, LifecycleInvariance, PTL

\* The flag is set exactly while there is an Init to shut down (Init, its shutdown).
THEOREM FlagAlwaysOwned == LifecycleSpec => []FlagHasOwner
<1>1. LifecycleInv => FlagHasOwner
    BY DEF LifecycleInv
<1> QED BY <1>1, LifecycleInvariance, PTL

\* A running Init's globals are its own until its shutdown begins (Init, retire).
THEOREM RunningStaysWired == LifecycleSpec => []RunningIsWired
<1>1. LifecycleInv => RunningIsWired
    <2> SUFFICES ASSUME LifecycleInv, NEW g \in Inits, pc[g] = "up", stop[g] = "none"
                 PROVE  /\ initialized
                        /\ tracer = g /\ tp[g] = "live" /\ serviceName = g
                        /\ IF OwnsMetrics(g) THEN mp[g] = "live" /\ meter \in {g, External}
                                             ELSE meter = External
        BY DEF RunningIsWired
    <2> USE DEF LifecycleInv, UpTo, Wired, Whole
    <2>1. initialized
        BY DEF FlagHasOwner
    <2>2. tracer = g /\ tp[g] = "live" /\ serviceName = g
        BY DEF TracerWired, TracesRun, NameWired
    <2>3. OwnsMetrics(g) => mp[g] = "live"
        BY DEF MetricsRun
    <2>4. IF OwnsMetrics(g) THEN meter \in {g, External} ELSE meter = External
        BY DEF MeterWired
    <2> QED BY <2>1, <2>2, <2>3, <2>4
<1> QED BY <1>1, LifecycleInvariance, PTL

\* A failed Init and a finished shutdown leave nothing behind (retire, Cleanup).
THEOREM NothingStaysBehind == LifecycleSpec => []GoneWithoutTrace
<1>1. LifecycleInv => GoneWithoutTrace
    <2> SUFFICES ASSUME LifecycleInv, NEW g \in Inits, pc[g] = "failed" \/ stop[g] = "done"
                 PROVE  "live" \notin {tp[g], mp[g]} /\ g \notin {tracer, meter, serviceName}
        BY DEF GoneWithoutTrace
    <2> USE DEF LifecycleInv, UpTo, Wired, Whole
    <2>1. pc[g] = "failed" \/ (pc[g] = "up" /\ stop[g] = "done")
        BY DEF CallsInOrder
    <2>2. "live" \notin {tp[g], mp[g]}
        BY <2>1 DEF TracesRun, MetricsRun
    <2>3. g \notin {tracer, meter, serviceName}
        BY <2>1 DEF TracerWired, NameWired, MeterWired
    <2> QED BY <2>2, <2>3
<1> QED BY <1>1, LifecycleInvariance, PTL

\* A signal leaves over HTTP only if its deciding variable names HTTP, and new traces
\* are dropped only if the deciding ratio is a number that says so, for any
\* configuration and environment (resolveProtocol, resolveRatio).
THEOREM PipelinesAsAsked == LifecycleSpec => []PipelineAsAsked
<1>1. ASSUME NEW signal, NEW generic
      PROVE  OverHTTP(signal, generic) <=> ResolveProtocol(signal, generic) = "http/protobuf"
    BY LifecycleAssumption DEF OverHTTP, HTTP, ResolveProtocol
<1>2. ASSUME NEW ratio \in Int \cup {Unset, NaN}, NEW arg \in Int \cup {Unset, Garbage, NaN},
             Kept(ResolveRatio(ratio, arg)) = 0
      PROVE  LET word == IF ratio # Unset THEN ratio ELSE arg IN word \in Int /\ word <= 0
    BY <1>2, LifecycleAssumption DEF Kept, ResolveRatio
<1>3. LifecycleInv => PipelineAsAsked
    <2> SUFFICES ASSUME LifecycleInv, NEW g \in Inits, tp[g] = "live"
                 PROVE  /\ OverHTTP(env.traces, env.generic) <=> pipeline[g].spans[1] = "http/protobuf"
                        /\ mp[g] = "live" =>
                              (OverHTTP(env.metrics, env.generic) <=> pipeline[g].metrics[1] = "http/protobuf")
                        /\ Kept(pipeline[g].ratio) = 0 =>
                              LET word == IF given[g].ratio # Unset THEN given[g].ratio ELSE env.arg
                              IN  word \in Int /\ word <= 0
        BY DEF PipelineAsAsked
    <2>1. /\ pipeline[g].spans[1] = ResolveProtocol(env.traces, env.generic)
          /\ mp[g] = "live" => pipeline[g].metrics[1] = ResolveProtocol(env.metrics, env.generic)
          /\ pipeline[g].ratio = ResolveRatio(given[g].ratio, env.arg)
        BY DEF LifecycleInv, PipelineSet, SpanExporter, MetricExporter
    <2>2. given[g] \in Configs \cup {NoConfig} /\ env \in Envs
        BY DEF LifecycleInv, LifecycleTypeOK, PipelineSet
    <2>3. given[g].ratio \in Int \cup {Unset, NaN} /\ env.arg \in Int \cup {Unset, Garbage, NaN}
        BY <2>2, LifecycleAssumption DEF NoConfig
    <2> QED BY <2>1, <2>3, <1>1, <1>2
<1> QED BY <1>3, LifecycleInvariance, PTL

\* Only an Init that owns its metrics ever takes another component's MeterProvider out
\* of its place (startMetrics, retire).
THEOREM ExternalAlwaysKept == LifecycleSpec => ExternalKept
<1> DEFINE Takes == meter = External /\ meter' # External =>
               \E g \in Inits : OwnsMetrics(g) /\ (pc'[g] # pc[g] \/ stop'[g] # stop[g])
<1>1. LifecycleInv /\ LifecycleNext => Takes
    <2> SUFFICES ASSUME LifecycleInv, LifecycleNext, meter' # meter
                 PROVE  \/ meter' = External
                        \/ \E g \in Inits : OwnsMetrics(g) /\ (pc'[g] # pc[g] \/ stop'[g] # stop[g])
        OBVIOUS
    <2>1. \/ ExternalUp
          \/ \E g \in Inits : \/ UseExternal(g) \/ StartMetrics(g) \/ RetireFailed(g)
                             \/ RetireStopped(g)
        BY DEF LifecycleNext, InitStep, ShutdownStep, InitRejected, InitCalled, Lock, Setup,
               SpanProcessorFails, StartTracing, MetricReaderFails, RuntimeFails, RuntimeStarts,
               Cleanup, DeriveContext, DeadlinePasses, FlushTraces, FlushMetrics, Reset, Enter, ShutdownCalled,
               ShutdownReturns, globalVars
    <2>2. ASSUME NEW g \in Inits, UseExternal(g) PROVE meter' = External
        BY <2>2, LifecycleAssumption DEF UseExternal, LifecycleInv, CallsInOrder, OwnsMetrics
    <2>3. ASSUME NEW g \in Inits, StartMetrics(g) \/ RetireFailed(g)
          PROVE  OwnsMetrics(g) /\ pc'[g] # pc[g]
        BY <2>3 DEF StartMetrics, RetireFailed, Retire, Goto, LifecycleInv, LifecycleTypeOK
    <2>4. ASSUME NEW g \in Inits, RetireStopped(g) PROVE OwnsMetrics(g) /\ stop'[g] # stop[g]
        BY <2>4 DEF RetireStopped, Retire, StopAt, LifecycleInv, LifecycleTypeOK
    <2> QED BY <2>1, <2>2, <2>3, <2>4 DEF ExternalUp
<1>2. LifecycleInv /\ [LifecycleNext]_lifeVars => [Takes]_lifeVars
    BY <1>1
<1> QED BY <1>2, LifecycleInvariance, PTL DEF LifecycleSpec, ExternalKept
-----------------------------------------------------------------------------
(* One owner of the telemetry at a time                                    *)

\* A step of the Init the telemetry belongs to, which keeps it, is the owner's own.
LEMMA OwnerWrites ==
    ASSUME LifecycleInv, LifecycleInv', NEW g \in Inits, Engaged(g), Engaged(g)',
           tracer' \in {tracer, g, Noop},
           meter' \in {meter, g, External, Noop},
           serviceName' \in {serviceName, g, None}
    PROVE  Ownership!Write(g)
<1>1. {h \in Inits : Engaged(h)} = {g}
    BY DEF LifecycleInv, OneEngaged
<1>2. {h \in Inits : Engaged(h)}' = {g}
    BY DEF LifecycleInv, OneEngaged, Engaged
<1>3. ASSUME NEW h \in Inits, ("live" \in {tp[h], mp[h]})' PROVE h = g
    <2>1. Engaged(h)'
        BY <1>3 DEF LifecycleInv, TracesRun, MetricsRun, Engaged, Holds, UpTo, Whole
    <2> QED BY <2>1 DEF LifecycleInv, OneEngaged, Engaged
<1> QED BY <1>1, <1>2, <1>3 DEF Ownership!Write

\* A step after which no Init has the telemetry: its owner left nothing of its own.
LEMMA OwnerGivesUp ==
    ASSUME LifecycleInv, LifecycleInv', NEW g \in Inits,
           Engaged(g), \A h \in Inits : ~ Engaged(h)',
           tracer' \in {tracer, Noop}, meter' \in {meter, Noop},
           serviceName' \in {serviceName, None}
    PROVE  Ownership!GiveUp(g)
<1>1. {h \in Inits : Engaged(h)} = {g}
    BY DEF LifecycleInv, OneEngaged
<1>2. {h \in Inits : Engaged(h)}' = {}
    BY DEF Engaged
<1>3. ASSUME NEW h \in Inits PROVE ("live" \notin {tp[h], mp[h]})'
    BY DEF LifecycleInv, TracesRun, MetricsRun, Engaged, Holds, UpTo, Whole
<1>4. g \notin {tracer', meter', serviceName'}
    <2>1. ~ Engaged(g)'
        OBVIOUS
    <2> QED BY <2>1 DEF LifecycleInv, TracerWired, NameWired, MeterWired, Engaged, Holds, UpTo,
                        Wired, Whole
<1> QED BY <1>1, <1>2, <1>3, <1>4 DEF Ownership!GiveUp

\* A step that changes nobody's standing, no pipeline and no global cannot be told from none.
LEMMA NobodyMoves ==
    ASSUME UNCHANGED globalVars, UNCHANGED <<tp, mp>>,
           \A h \in Inits : Engaged(h)' <=> Engaged(h)
    PROVE  UNCHANGED Ownership!vars
<1>1. {h \in Inits : Engaged(h)}' = {h \in Inits : Engaged(h)}
    BY DEF Engaged
<1> QED BY <1>1 DEF Ownership!vars, Ownership!globals, globalVars

\* Init's way to initMu: refused, waiting, or the owner.
LEMMA EntryOwned ==
    ASSUME LifecycleInv, LifecycleInv', NEW g \in Inits,
           InitRejected(g) \/ InitCalled(g) \/ Lock(g)
    PROVE  [Ownership!Next]_(Ownership!vars)
<1> USE DEF Goto, LifecycleInv, LifecycleTypeOK, globalVars, initVars, stopVars, flushVars
<1>1. CASE InitRejected(g) \/ InitCalled(g)
    <2>1. \A h \in Inits : Engaged(h)' <=> Engaged(h)
        BY <1>1 DEF InitRejected, InitCalled, Engaged, Holds, UpTo
    <2> QED BY <1>1, <2>1, NobodyMoves DEF InitRejected, InitCalled
<1>2. CASE Lock(g) /\ initialized
    <2>1. \A h \in Inits : Engaged(h)' <=> Engaged(h)
        BY <1>2 DEF Lock, Engaged, Holds, UpTo
    <2> QED BY <1>2, <2>1, NobodyMoves DEF Lock
<1>3. CASE Lock(g) /\ ~ initialized
    <2>1. \A h \in Inits : ~ Engaged(h)
        BY <1>3, LifecycleAssumption DEF Lock, MutexHeld, FlagHasOwner, Engaged, UpTo, Whole
    <2>2. \A h \in Inits : Engaged(h)' <=> h = g
        BY <1>3, <2>1 DEF Lock, Engaged, Holds, UpTo
    <2>3. {h \in Inits : Engaged(h)} = {} /\ {h \in Inits : Engaged(h)}' = {g}
        BY <2>1, <2>2 DEF Engaged
    <2>4. Ownership!Take(g)
        BY <1>3, <2>3 DEF Lock, Ownership!Take, Ownership!globals
    <2> QED BY <2>4 DEF Ownership!Next
<1> QED BY <1>1, <1>2, <1>3

\* What an Init does under initMu, and hands over to its shutdown.
LEMMA InitOwned ==
    ASSUME LifecycleInv, LifecycleInv', NEW g \in Inits,
           \/ Setup(g) \/ SpanProcessorFails(g) \/ StartTracing(g) \/ UseExternal(g)
           \/ MetricReaderFails(g) \/ StartMetrics(g) \/ RuntimeFails(g) \/ RuntimeStarts(g)
           \/ Cleanup(g)
    PROVE  Ownership!Next
<1> USE DEF Setup, SpanProcessorFails, StartTracing, UseExternal, MetricReaderFails, StartMetrics,
            RuntimeFails, RuntimeStarts, Cleanup, LifecycleInv, globalVars
<1>1. Holds(g) /\ stop'[g] = stop[g]
    BY DEF Holds, stopVars
<1>2. pc'[g] \in {"tracing", "metrics", "runtime", "cleanup", "retire", "up"}
    BY DEF Goto, LifecycleTypeOK
<1>3. Engaged(g) /\ Engaged(g)'
    BY <1>1, <1>2 DEF Engaged, Holds, UpTo, Whole, CallsInOrder
<1>4. meter' \in {meter, g, External}
    BY LifecycleAssumption DEF CallsInOrder, OwnsMetrics
<1>5. tracer' \in {tracer, g} /\ serviceName' \in {serviceName, g}
    OBVIOUS
<1>6. Ownership!Write(g)
    <2> HIDE DEF LifecycleInv
    <2> QED BY <1>3, <1>4, <1>5, OwnerWrites
<1> QED BY <1>6 DEF Ownership!Next

\* What a shutdown does before it resets the flag, outside the mutex.
LEMMA StopOwned ==
    ASSUME LifecycleInv, LifecycleInv', NEW g \in Inits,
           FlushTraces(g) \/ FlushMetrics(g) \/ RetireStopped(g)
    PROVE  Ownership!Next
<1> USE DEF FlushTraces, FlushMetrics, RetireStopped
<1>1. pc[g] = "up" /\ pc'[g] = "up"
    BY DEF LifecycleInv, CallsInOrder, initVars
<1>2. stop[g] \in Whole /\ stop'[g] \in Whole
    BY DEF StopAt, LifecycleInv, LifecycleTypeOK, Whole
<1>3. Engaged(g) /\ Engaged(g)'
    BY <1>1, <1>2 DEF Engaged, UpTo
<1>4. /\ tracer' \in {tracer, Noop} /\ meter' \in {meter, Noop}
      /\ serviceName' \in {serviceName, None}
    BY DEF Retire, globalVars
<1>5. Ownership!Write(g)
    BY <1>3, <1>4, OwnerWrites
<1> QED BY <1>5 DEF Ownership!Next

\* The last step of a failing Init, and of a shutdown.
LEMMA LeavingOwned ==
    ASSUME LifecycleInv, LifecycleInv', NEW g \in Inits, RetireFailed(g) \/ Reset(g)
    PROVE  Ownership!Next
<1> USE DEF RetireFailed, Reset
<1>1. Engaged(g) /\ ~ Engaged(g)'
    BY DEF Engaged, Holds, UpTo, Whole, LifecycleInv, LifecycleTypeOK, CallsInOrder, Goto, StopAt,
           initVars, stopVars
<1>2. ASSUME NEW h \in Inits, h # g PROVE ~ Engaged(h)'
    <2>1. ~ Engaged(h)
        BY <1>1, <1>2 DEF LifecycleInv, OneEngaged
    <2>2. pc'[h] = pc[h] /\ stop'[h] = stop[h]
        BY <1>2 DEF LifecycleInv, LifecycleTypeOK, Goto, StopAt, initVars, stopVars
    <2> QED BY <2>1, <2>2 DEF Engaged, Holds, UpTo
<1>3. /\ tracer' \in {tracer, Noop} /\ meter' \in {meter, Noop}
      /\ serviceName' \in {serviceName, None}
    BY DEF Retire, globalVars
<1>4. Ownership!GiveUp(g)
    BY <1>1, <1>2, <1>3, OwnerGivesUp
<1> QED BY <1>4 DEF Ownership!Next

\* The calls of a shutdown and its context, and another component.
LEMMA CallersOwned ==
    ASSUME LifecycleInv,
           \/ ExternalUp
           \/ \E g \in Inits : DeriveContext(g) \/ DeadlinePasses(g)
           \/ \E g \in Inits, k \in Callers :
                 ShutdownCalled(g, k) \/ Enter(g, k) \/ ShutdownReturns(g, k)
    PROVE  [Ownership!Next]_(Ownership!vars)
<1>1. CASE ExternalUp
    <2>1. {h \in Inits : Engaged(h)}' = {h \in Inits : Engaged(h)}
        BY <1>1 DEF ExternalUp, initVars, stopVars, Engaged, Holds, UpTo
    <2>2. Ownership!Interfere
        BY <1>1, <2>1 DEF ExternalUp, Ownership!Interfere
    <2> QED BY <2>2 DEF Ownership!Next
<1>2. ASSUME NEW g \in Inits,
             \/ DeriveContext(g) \/ DeadlinePasses(g)
             \/ \E k \in Callers : ShutdownCalled(g, k) \/ Enter(g, k) \/ ShutdownReturns(g, k)
      PROVE  UNCHANGED Ownership!vars
    <2>1. \A h \in Inits : Engaged(h)' <=> Engaged(h)
        BY <1>2 DEF DeriveContext, DeadlinePasses, ShutdownCalled, Enter, ShutdownReturns, StopAt, Engaged, Holds, UpTo, Whole,
                    LifecycleInv, LifecycleTypeOK, CallsInOrder, initVars
    <2>2. UNCHANGED globalVars /\ UNCHANGED <<tp, mp>>
        BY <1>2 DEF DeriveContext, DeadlinePasses, ShutdownCalled, Enter, ShutdownReturns
    <2> QED BY <2>1, <2>2, NobodyMoves
<1> QED BY <1>1, <1>2

\* Every step is the owner's, another component's, or nobody's.
LEMMA OwnershipStep ==
    LifecycleInv /\ [LifecycleNext]_lifeVars => [Ownership!Next]_(Ownership!vars)
<1> SUFFICES ASSUME LifecycleInv, [LifecycleNext]_lifeVars
             PROVE  [Ownership!Next]_(Ownership!vars)
    OBVIOUS
<1>1. LifecycleInv'
    BY LifecycleStep
<1>2. ASSUME NEW g \in Inits, InitRejected(g) \/ InitCalled(g) \/ InitStep(g)
      PROVE  [Ownership!Next]_(Ownership!vars)
    BY <1>1, <1>2, EntryOwned, InitOwned, LeavingOwned DEF InitStep
<1>3. ASSUME NEW g \in Inits,
             FlushTraces(g) \/ FlushMetrics(g) \/ RetireStopped(g) \/ Reset(g)
      PROVE  [Ownership!Next]_(Ownership!vars)
    BY <1>1, <1>3, StopOwned, LeavingOwned
<1>4. ASSUME \/ ExternalUp
             \/ \E g \in Inits : DeriveContext(g) \/ DeadlinePasses(g)
             \/ \E g \in Inits, k \in Callers :
                   ShutdownCalled(g, k) \/ Enter(g, k) \/ ShutdownReturns(g, k)
      PROVE  [Ownership!Next]_(Ownership!vars)
    BY <1>4, CallersOwned
<1>5. ASSUME UNCHANGED lifeVars PROVE UNCHANGED Ownership!vars
    <2>1. \A h \in Inits : Engaged(h)' <=> Engaged(h)
        BY <1>5 DEF lifeVars, initVars, stopVars, Engaged, Holds, UpTo
    <2> QED BY <1>5, <2>1, NobodyMoves DEF lifeVars
<1> QED BY <1>2, <1>3, <1>4, <1>5 DEF LifecycleNext, ShutdownStep

\* Init and the shutdowns, interleaved in any way, hand the telemetry of the process from
\* one owner to the next (Init, shutdown, retire).
THEOREM OneOwnerAtATime == LifecycleSpec => ImplementsTelemetryOwnership
<1>1. LifecycleInit => Ownership!Init
    <2> SUFFICES ASSUME LifecycleInit PROVE Ownership!Init
        OBVIOUS
    <2>1. \A h \in Inits : ~ Engaged(h) /\ "live" \notin {tp[h], mp[h]}
        BY DEF LifecycleInit, Engaged, Holds, UpTo
    <2> QED BY <2>1 DEF Ownership!Init, LifecycleInit
<1>2. LifecycleInv /\ [LifecycleNext]_lifeVars => [Ownership!Next]_(Ownership!vars)
    BY OwnershipStep
<1> QED BY <1>1, <1>2, LifecycleInvariance, PTL
        DEF LifecycleSpec, ImplementsTelemetryOwnership, Ownership!Spec
-----------------------------------------------------------------------------
(* The log handler.  Folds over sequences are unfolded by induction, with  *)
(* sets of numbers in the place of predicates.                             *)

\* A set of numbers that is not empty has a least one.
LEMMA LeastOf ==
    ASSUME NEW S \in SUBSET Nat, S # {}
    PROVE  \E m \in S : \A k \in S : m <= k
<1>1. PICK m \in S : \A k \in S : ~ (<<k, m>> \in OpToRel(<, Nat))
    BY NatLessThanWellFounded, WFMin
<1>2. \A k \in S : ~ (k < m)
    BY <1>1 DEF OpToRel
<1> QED BY <1>2

\* Induction: a set that has 0 and with every number the next one has them all.
LEMMA NaturalsOf ==
    ASSUME NEW S, 0 \in S, \A n \in Nat : n \in S => n + 1 \in S
    PROVE  Nat \subseteq S
<1> SUFFICES ASSUME Nat \ S # {} PROVE FALSE
    OBVIOUS
<1>1. PICK m \in Nat \ S : \A k \in Nat \ S : m <= k
    BY LeastOf
<1>2. m - 1 \in Nat /\ m - 1 \in S
    BY <1>1
<1> QED BY <1>2, m = (m - 1) + 1

\* Some positions of a sequence have a greatest one.
LEMMA GreatestOf ==
    ASSUME NEW n \in Nat, NEW S \in SUBSET (1 .. n), S # {}
    PROVE  /\ Max(S) \in S /\ \A i \in S : i <= Max(S)
           /\ S \ {Max(S)} \in SUBSET (1 .. n - 1)
<1> DEFINE Rest == {n - i : i \in S}
<1>1. Rest \subseteq Nat /\ Rest # {}
    <2>1. \A i \in S : n - i \in Nat
        OBVIOUS
    <2> QED BY <2>1
<1>2. PICK k \in Rest : \A j \in Rest : k <= j
    <2> HIDE DEF Rest
    <2> QED BY <1>1, LeastOf
<1>3. PICK m \in S : k = n - m
    BY <1>1
<1>4. ASSUME NEW i \in S PROVE i <= m
    <2>1. n - i \in Rest
        OBVIOUS
    <2>2. n - m <= n - i
        BY <1>2, <1>3, <2>1
    <2> QED BY <2>2
<1>5. Max(S) \in S /\ \A i \in S : i <= Max(S)
    BY <1>4 DEF Max
<1> DEFINE top == Max(S)
<1>6. ASSUME NEW i \in S \ {top} PROVE i \in 1 .. n - 1
    <2> HIDE DEF top
    <2>1. i \in 1 .. n /\ top \in 1 .. n /\ i <= top /\ i # top
        BY <1>5 DEF top
    <2> QED BY <2>1
<1> QED BY <1>5, <1>6

\* OpenGroups folds over the prefixes of a sequence: f is the fold over the first i calls.
LEMMA GroupsFold ==
    ASSUME NEW G, NEW s \in Seq(G)
    PROVE  \E f : /\ f[0] = <<>> /\ OpenGroups(s) = f[Len(s)]
                  /\ \A i \in 1 .. Len(s) : f[i] = Under(f[i - 1], s[i])
<1> DEFINE Fold(iter, n) ==
               iter = [S \in SUBSET (1 .. n) |->
                          IF S = {} THEN <<>>
                          ELSE Under(iter[S \ {Max(S)}], s[Max(S)])]
           Ns == {n \in Nat : \E iter : Fold(iter, n)}
<1>1. 0 \in Ns
    <2>1. Fold([S \in SUBSET (1 .. 0) |-> <<>>], 0)
        OBVIOUS
    <2> QED BY <2>1
<1>2. ASSUME NEW n \in Nat, n \in Ns PROVE n + 1 \in Ns
    <2>1. PICK iter : Fold(iter, n)
        BY <1>2, Zenon
    <2> DEFINE longer == [S \in SUBSET (1 .. n + 1) |->
                             IF S = {} THEN <<>>
                             ELSE Under(iter[S \ {Max(S)}], s[Max(S)])]
    <2>2. ASSUME NEW S \in SUBSET (1 .. n + 1), S # {}
          PROVE  longer[S \ {Max(S)}] = iter[S \ {Max(S)}]
        <3>1. S \ {Max(S)} \in SUBSET (1 .. n) /\ S \ {Max(S)} \in SUBSET (1 .. n + 1)
            <4>1. S \ {Max(S)} \in SUBSET (1 .. (n + 1) - 1)
                BY <2>2, GreatestOf, n + 1 \in Nat
            <4> QED BY <4>1, (n + 1) - 1 = n
        <3> HIDE DEF longer
        <3>2. longer[S \ {Max(S)}] = IF S \ {Max(S)} = {} THEN <<>>
                 ELSE Under(iter[(S \ {Max(S)}) \ {Max(S \ {Max(S)})}], s[Max(S \ {Max(S)})])
            BY <3>1, Zenon DEF longer
        <3>3. iter[S \ {Max(S)}] = IF S \ {Max(S)} = {} THEN <<>>
                 ELSE Under(iter[(S \ {Max(S)}) \ {Max(S \ {Max(S)})}], s[Max(S \ {Max(S)})])
            BY <3>1, <2>1, Zenon
        <3> QED BY <3>2, <3>3
    <2>3. Fold(longer, n + 1)
        BY <2>2, Zenon
    <2> HIDE DEF longer, Fold
    <2> QED BY <2>3
<1>3. \E iter : Fold(iter, Len(s))
    <2> HIDE DEF Fold
    <2>1. Nat \subseteq Ns
        <3> HIDE DEF Ns
        <3> QED BY <1>1, <1>2, NaturalsOf
    <2> QED BY <2>1
<1>4. PICK iter : Fold(iter, Len(s)) /\ OpenGroups(s) = iter[1 .. Len(s)]
    <2>1. OpenGroups(s) = (CHOOSE iter : Fold(iter, Len(s)))[1 .. Len(s)]
        BY DOMAIN s = 1 .. Len(s), Zenon DEF OpenGroups, FoldLeft, MapThenFoldSet
    <2> QED BY <1>3, <2>1, Zenon
<1> DEFINE f == [i \in 0 .. Len(s) |-> iter[1 .. i]]
<1>5. f[0] = <<>> /\ OpenGroups(s) = f[Len(s)]
    BY <1>4
<1>6. ASSUME NEW i \in 1 .. Len(s) PROVE f[i] = Under(f[i - 1], s[i])
    <2>1. 1 .. i \in SUBSET (1 .. Len(s)) /\ 1 .. i # {} /\ Len(s) \in Nat
        <3>1. 1 \in 1 .. i
            OBVIOUS
        <3> QED BY <3>1
    <2>2. Max(1 .. i) = i
        <3>1. Max(1 .. i) \in 1 .. i /\ \A j \in 1 .. i : j <= Max(1 .. i)
            BY <2>1, GreatestOf
        <3>2. i \in 1 .. i
            OBVIOUS
        <3> QED BY <3>1, <3>2
    <2>3. (1 .. i) \ {i} = 1 .. (i - 1)
        OBVIOUS
    <2>4. iter[1 .. i] = Under(iter[(1 .. i) \ {Max(1 .. i)}], s[Max(1 .. i)])
        BY <1>4, <2>1, Zenon
    <2>5. f[i] = iter[1 .. i] /\ f[i - 1] = iter[1 .. (i - 1)]
        OBVIOUS
    <2> HIDE DEF f, Fold
    <2> QED BY <2>2, <2>3, <2>4, <2>5
<1> HIDE DEF f
<1> QED BY <1>5, <1>6

\* One more call opens its group under those that are open.
LEMMA GroupsAppend ==
    ASSUME NEW G, NEW s \in Seq(G), NEW d \in G
    PROVE  OpenGroups(<<>>) = <<>> /\ OpenGroups(Append(s, d)) = Under(OpenGroups(s), d)
<1>1. OpenGroups(<<>>) = <<>>
    <2>1. \E f : f[0] = <<>> /\ OpenGroups(<<>>) = f[Len(<<>>)]
        BY <<>> \in Seq(G), GroupsFold
    <2> QED BY <2>1
<1> DEFINE t == Append(s, d)
<1>2. t \in Seq(G) /\ Len(t) = Len(s) + 1 /\ t[Len(t)] = d /\ \A i \in 1 .. Len(s) : t[i] = s[i]
    OBVIOUS
<1> HIDE DEF t
<1>3. PICK f : /\ f[0] = <<>> /\ OpenGroups(s) = f[Len(s)]
               /\ \A i \in 1 .. Len(s) : f[i] = Under(f[i - 1], s[i])
    BY GroupsFold
<1>4. PICK g : /\ g[0] = <<>> /\ OpenGroups(t) = g[Len(t)]
               /\ \A i \in 1 .. Len(t) : g[i] = Under(g[i - 1], t[i])
    BY <1>2, GroupsFold
<1> DEFINE Ns == {n \in Nat : n <= Len(s) => f[n] = g[n]}
<1>5. 0 \in Ns
    BY <1>3, <1>4
<1>6. ASSUME NEW n \in Nat, n \in Ns PROVE n + 1 \in Ns
    <2> SUFFICES ASSUME n + 1 <= Len(s) PROVE f[n + 1] = g[n + 1]
        OBVIOUS
    <2>1. f[n + 1] = Under(f[(n + 1) - 1], s[n + 1]) /\ g[n + 1] = Under(g[(n + 1) - 1], t[n + 1])
        BY <1>2, <1>3, <1>4, n + 1 \in 1 .. Len(s), n + 1 \in 1 .. Len(t)
    <2>2. f[n] = g[n] /\ (n + 1) - 1 = n /\ t[n + 1] = s[n + 1]
        BY <1>2, <1>6
    <2> QED BY <2>1, <2>2
<1>7. Len(s) \in Ns
    <2> HIDE DEF Ns
    <2> QED BY <1>5, <1>6, NaturalsOf
<1>8. g[Len(t)] = Under(g[Len(s)], d)
    BY <1>2, <1>4, Len(t) \in 1 .. Len(t), Len(t) - 1 = Len(s)
<1> QED BY <1>1, <1>3, <1>4, <1>7, <1>8 DEF t

\* Derived folds over the prefixes of a sequence: f is the fold over the first i calls.
LEMMA CallsFold ==
    ASSUME NEW G, NEW s \in Seq(G)
    PROVE  \E f : /\ f[0] = NewLogHandler(<<>>) /\ Derived(s) = f[Len(s)]
                  /\ \A i \in 1 .. Len(s) : f[i] = Derive(f[i - 1], s[i])
<1> DEFINE Fold(iter, n) ==
               iter = [S \in SUBSET (1 .. n) |->
                          IF S = {} THEN NewLogHandler(<<>>)
                          ELSE Derive(iter[S \ {Max(S)}], s[Max(S)])]
           Ns == {n \in Nat : \E iter : Fold(iter, n)}
<1>1. 0 \in Ns
    <2>1. Fold([S \in SUBSET (1 .. 0) |-> NewLogHandler(<<>>)], 0)
        OBVIOUS
    <2> QED BY <2>1
<1>2. ASSUME NEW n \in Nat, n \in Ns PROVE n + 1 \in Ns
    <2>1. PICK iter : Fold(iter, n)
        BY <1>2, Zenon
    <2> DEFINE longer == [S \in SUBSET (1 .. n + 1) |->
                             IF S = {} THEN NewLogHandler(<<>>)
                             ELSE Derive(iter[S \ {Max(S)}], s[Max(S)])]
    <2>2. ASSUME NEW S \in SUBSET (1 .. n + 1), S # {}
          PROVE  longer[S \ {Max(S)}] = iter[S \ {Max(S)}]
        <3>1. S \ {Max(S)} \in SUBSET (1 .. n) /\ S \ {Max(S)} \in SUBSET (1 .. n + 1)
            <4>1. S \ {Max(S)} \in SUBSET (1 .. (n + 1) - 1)
                BY <2>2, GreatestOf, n + 1 \in Nat
            <4> QED BY <4>1, (n + 1) - 1 = n
        <3> HIDE DEF longer
        <3>2. longer[S \ {Max(S)}] = IF S \ {Max(S)} = {} THEN NewLogHandler(<<>>)
                 ELSE Derive(iter[(S \ {Max(S)}) \ {Max(S \ {Max(S)})}], s[Max(S \ {Max(S)})])
            BY <3>1, Zenon DEF longer
        <3>3. iter[S \ {Max(S)}] = IF S \ {Max(S)} = {} THEN NewLogHandler(<<>>)
                 ELSE Derive(iter[(S \ {Max(S)}) \ {Max(S \ {Max(S)})}], s[Max(S \ {Max(S)})])
            BY <3>1, <2>1, Zenon
        <3> QED BY <3>2, <3>3
    <2>3. Fold(longer, n + 1)
        BY <2>2, Zenon
    <2> HIDE DEF longer, Fold
    <2> QED BY <2>3
<1>3. \E iter : Fold(iter, Len(s))
    <2> HIDE DEF Fold
    <2>1. Nat \subseteq Ns
        <3> HIDE DEF Ns
        <3> QED BY <1>1, <1>2, NaturalsOf
    <2> QED BY <2>1
<1>4. PICK iter : Fold(iter, Len(s)) /\ Derived(s) = iter[1 .. Len(s)]
    <2>1. Derived(s) = (CHOOSE iter : Fold(iter, Len(s)))[1 .. Len(s)]
        BY DOMAIN s = 1 .. Len(s), Zenon DEF Derived, FoldLeft, MapThenFoldSet
    <2> QED BY <1>3, <2>1, Zenon
<1> DEFINE f == [i \in 0 .. Len(s) |-> iter[1 .. i]]
<1>5. f[0] = NewLogHandler(<<>>) /\ Derived(s) = f[Len(s)]
    BY <1>4
<1>6. ASSUME NEW i \in 1 .. Len(s) PROVE f[i] = Derive(f[i - 1], s[i])
    <2>1. 1 .. i \in SUBSET (1 .. Len(s)) /\ 1 .. i # {} /\ Len(s) \in Nat
        <3>1. 1 \in 1 .. i
            OBVIOUS
        <3> QED BY <3>1
    <2>2. Max(1 .. i) = i
        <3>1. Max(1 .. i) \in 1 .. i /\ \A j \in 1 .. i : j <= Max(1 .. i)
            BY <2>1, GreatestOf
        <3>2. i \in 1 .. i
            OBVIOUS
        <3> QED BY <3>1, <3>2
    <2>3. (1 .. i) \ {i} = 1 .. (i - 1)
        OBVIOUS
    <2>4. iter[1 .. i] = Derive(iter[(1 .. i) \ {Max(1 .. i)}], s[Max(1 .. i)])
        BY <1>4, <2>1, Zenon
    <2>5. f[i] = iter[1 .. i] /\ f[i - 1] = iter[1 .. (i - 1)]
        OBVIOUS
    <2> HIDE DEF f, Fold
    <2> QED BY <2>2, <2>3, <2>4, <2>5
<1> HIDE DEF f
<1> QED BY <1>5, <1>6

\* One more call derives one more handler.
LEMMA CallsAppend ==
    ASSUME NEW G, NEW s \in Seq(G), NEW d \in G
    PROVE  Derived(<<>>) = NewLogHandler(<<>>) /\ Derived(Append(s, d)) = Derive(Derived(s), d)
<1>1. Derived(<<>>) = NewLogHandler(<<>>)
    <2>1. \E f : f[0] = NewLogHandler(<<>>) /\ Derived(<<>>) = f[Len(<<>>)]
        BY <<>> \in Seq(G), CallsFold
    <2> QED BY <2>1
<1> DEFINE t == Append(s, d)
<1>2. t \in Seq(G) /\ Len(t) = Len(s) + 1 /\ t[Len(t)] = d /\ \A i \in 1 .. Len(s) : t[i] = s[i]
    OBVIOUS
<1> HIDE DEF t
<1>3. PICK f : /\ f[0] = NewLogHandler(<<>>) /\ Derived(s) = f[Len(s)]
               /\ \A i \in 1 .. Len(s) : f[i] = Derive(f[i - 1], s[i])
    BY CallsFold
<1>4. PICK g : /\ g[0] = NewLogHandler(<<>>) /\ Derived(t) = g[Len(t)]
               /\ \A i \in 1 .. Len(t) : g[i] = Derive(g[i - 1], t[i])
    BY <1>2, CallsFold
<1> DEFINE Ns == {n \in Nat : n <= Len(s) => f[n] = g[n]}
<1>5. 0 \in Ns
    BY <1>3, <1>4
<1>6. ASSUME NEW n \in Nat, n \in Ns PROVE n + 1 \in Ns
    <2> SUFFICES ASSUME n + 1 <= Len(s) PROVE f[n + 1] = g[n + 1]
        OBVIOUS
    <2>1. f[n + 1] = Derive(f[(n + 1) - 1], s[n + 1]) /\ g[n + 1] = Derive(g[(n + 1) - 1], t[n + 1])
        BY <1>2, <1>3, <1>4, n + 1 \in 1 .. Len(s), n + 1 \in 1 .. Len(t)
    <2>2. f[n] = g[n] /\ (n + 1) - 1 = n /\ t[n + 1] = s[n + 1]
        BY <1>2, <1>6
    <2> QED BY <2>1, <2>2
<1>7. Len(s) \in Ns
    <2> HIDE DEF Ns
    <2> QED BY <1>5, <1>6, NaturalsOf
<1>8. g[Len(t)] = Derive(g[Len(s)], d)
    BY <1>2, <1>4, Len(t) \in 1 .. Len(t), Len(t) - 1 = Len(s)
<1> QED BY <1>1, <1>3, <1>4, <1>7, <1>8 DEF t

\* What is added with one more call is under the groups open before it.
LEMMA AddedAppend ==
    ASSUME NEW G, NEW s \in Seq(G), NEW d \in G
    PROVE  Added(<<>>) = {} /\ Added(Append(s, d)) = Added(s) \cup ({OpenGroups(s)} \X d.attrs)
<1> DEFINE t == Append(s, d)
           At(h, i) == {OpenGroups(SubSeq(h, 1, i - 1))} \X h[i].attrs
<1>1. DOMAIN t = (1 .. Len(s)) \cup {Len(s) + 1} /\ DOMAIN s = 1 .. Len(s)
    OBVIOUS
<1>2. ASSUME NEW i \in 1 .. Len(s) PROVE At(t, i) = At(s, i)
    <2>1. SubSeq(t, 1, i - 1) = SubSeq(s, 1, i - 1) /\ t[i] = s[i]
        OBVIOUS
    <2> QED BY <2>1
<1>3. At(t, Len(s) + 1) = {OpenGroups(s)} \X d.attrs
    <2>1. SubSeq(t, 1, (Len(s) + 1) - 1) = s /\ t[Len(s) + 1] = d
        OBVIOUS
    <2> QED BY <2>1
<1>4. Added(t) = UNION {At(t, i) : i \in DOMAIN t} /\ Added(s) = UNION {At(s, i) : i \in DOMAIN s}
    BY DEF Added
<1>5. Added(<<>>) = {}
    BY DEF Added
<1> HIDE DEF At, t
<1>6. UNION {At(t, i) : i \in DOMAIN t} = (UNION {At(s, i) : i \in DOMAIN s}) \cup At(t, Len(s) + 1)
    BY <1>1, <1>2
<1> QED BY <1>3, <1>4, <1>5, <1>6 DEF t

\* What a derived handler has done is what its replay does, and at the top level nothing
\* of it is moved by stamps put first.
DerivedWell(G, chain, stamps) ==
    LET h == Derived(chain)
        replay == <<Attrs(stamps)>> \o h.goas IN
    /\ h.base = <<>> /\ h.goas \in Seq(G) /\ h.applied = h.goas
    /\ OpenGroups(h.goas) = OpenGroups(chain) /\ Added(h.goas) = Added(chain)
    /\ h.grouped \/ OpenGroups(chain) = <<>>
    /\ OpenGroups(replay) = OpenGroups(chain)
    /\ Added(replay) = Added(chain) \cup ({<<>>} \X stamps)

\* So it is at first ...
LEMMA NewWell ==
    ASSUME NEW stamps, NEW G, Attrs(stamps) \in G PROVE DerivedWell(G, <<>>, stamps)
<1>1. <<>> \in Seq(G) /\ <<Attrs(stamps)>> \in Seq(G)
    OBVIOUS
<1>2. /\ <<Attrs(stamps)>> = Append(<<>>, Attrs(stamps))
      /\ <<Attrs(stamps)>> \o <<>> = <<Attrs(stamps)>>
    OBVIOUS
<1>3. Derived(<<>>) = NewLogHandler(<<>>) /\ OpenGroups(<<>>) = <<>> /\ Added(<<>>) = {}
    BY <1>1, CallsAppend, GroupsAppend, AddedAppend
<1>4. OpenGroups(<<Attrs(stamps)>>) = <<>>
    BY <1>1, <1>2, <1>3, GroupsAppend DEF Under, Attrs
<1>5. Added(<<Attrs(stamps)>>) = {<<>>} \X stamps
    <2>1. Added(Append(<<>>, Attrs(stamps)))
              = Added(<<>>) \cup ({OpenGroups(<<>>)} \X Attrs(stamps).attrs)
        <3>1. \A s \in Seq(G) : Added(Append(s, Attrs(stamps)))
                                   = Added(s) \cup ({OpenGroups(s)} \X Attrs(stamps).attrs)
            BY AddedAppend
        <3> QED BY <1>1, <3>1, Zenon
    <2>2. Attrs(stamps).attrs = stamps
        BY DEF Attrs
    <2> QED BY <2>1, <2>2, <1>2, <1>3
<1>6. LET h == NewLogHandler(<<>>) IN h.base = <<>> /\ h.goas = <<>> /\ h.applied = <<>>
    BY DEF NewLogHandler
<1> QED BY <1>1, <1>2, <1>3, <1>4, <1>5, <1>6 DEF DerivedWell

\* ... and after one more call.
LEMMA DeriveWell ==
    ASSUME NEW stamps, NEW G, Attrs(stamps) \in G, NEW s \in Seq(G), NEW d \in G,
           DerivedWell(G, s, stamps)
    PROVE  DerivedWell(G, Append(s, d), stamps)
<1> DEFINE h == Derived(s)
           replay == <<Attrs(stamps)>> \o h.goas
<1>1. Derived(Append(s, d)) = Derive(h, d)
    BY CallsAppend
<1>2. OpenGroups(Append(s, d)) = Under(OpenGroups(s), d)
    BY GroupsAppend
<1>3. Added(Append(s, d)) = Added(s) \cup ({OpenGroups(s)} \X d.attrs)
    BY AddedAppend
<1>4. h.goas \in Seq(G) /\ replay \in Seq(G)
    BY DEF DerivedWell
<1>5. CASE d = Attrs({})
    <2>1. Derive(h, d) = h /\ Under(OpenGroups(s), d) = OpenGroups(s) /\ d.attrs = {}
        BY <1>5 DEF Derive, Under, Attrs
    <2>2. Added(Append(s, d)) = Added(s) /\ OpenGroups(Append(s, d)) = OpenGroups(s)
        BY <1>2, <1>3, <2>1
    <2> QED BY <1>1, <2>1, <2>2 DEF DerivedWell
<1>6. CASE d # Attrs({})
    <2> DEFINE k == Derived(Append(s, d))
    <2>1. /\ k.base = h.base /\ k.applied = Append(h.applied, d) /\ k.goas = Append(h.goas, d)
          /\ k.grouped = (h.grouped \/ d.group # "")
        BY <1>1, <1>6 DEF Derive, With
    <2>2. <<Attrs(stamps)>> \o k.goas = Append(replay, d)
        <3>1. ASSUME NEW g \in Seq(G), NEW a \in G
              PROVE  <<a>> \o Append(g, d) = Append(<<a>> \o g, d)
            OBVIOUS
        <3> HIDE DEF h, k
        <3> QED BY <2>1, <1>4, <3>1 DEF replay
    <2>3. /\ OpenGroups(k.goas) = Under(OpenGroups(h.goas), d)
          /\ OpenGroups(Append(replay, d)) = Under(OpenGroups(replay), d)
        BY <2>1, <1>4, GroupsAppend
    <2>4. /\ Added(k.goas) = Added(h.goas) \cup ({OpenGroups(h.goas)} \X d.attrs)
          /\ Added(Append(replay, d)) = Added(replay) \cup ({OpenGroups(replay)} \X d.attrs)
        <3> HIDE DEF h, k, replay
        <3>1. Added(Append(h.goas, d)) = Added(h.goas) \cup ({OpenGroups(h.goas)} \X d.attrs)
            BY <1>4, AddedAppend
        <3>2. Added(Append(replay, d)) = Added(replay) \cup ({OpenGroups(replay)} \X d.attrs)
            BY <1>4, AddedAppend
        <3> QED BY <2>1, <3>1, <3>2
    <2>5. OpenGroups(h.goas) = OpenGroups(s) /\ OpenGroups(replay) = OpenGroups(s)
        BY DEF DerivedWell
    <2>6. h.grouped \/ OpenGroups(s) = <<>>
        BY DEF DerivedWell
    <2>7. k.grouped \/ OpenGroups(Append(s, d)) = <<>>
        BY <2>1, <2>6, <1>2 DEF Under
    <2>8. Added(k.goas) = Added(Append(s, d))
        BY <2>4, <2>5, <1>3 DEF DerivedWell
    <2>9. Added(Append(replay, d)) = Added(Append(s, d)) \cup ({<<>>} \X stamps)
        <3>1. Added(replay) = Added(s) \cup ({<<>>} \X stamps)
            BY DEF DerivedWell
        <3> HIDE DEF h, k, replay
        <3> QED BY <3>1, <2>4, <2>5, <1>3
    <2>10. k.base = <<>> /\ k.applied = k.goas /\ k.goas \in Seq(G)
        <3>1. h.base = <<>> /\ h.applied = h.goas
            BY DEF DerivedWell
        <3> HIDE DEF h, k
        <3>2. Append(h.goas, d) \in Seq(G)
            BY <1>4
        <3> QED BY <2>1, <3>1, <3>2
    <2> HIDE DEF h
    <2> QED BY <2>2, <2>3, <2>5, <2>7, <2>8, <2>9, <2>10, <1>2 DEF DerivedWell
<1> QED BY <1>5, <1>6

\* Every logger a consumer derives is one step after another.
LEMMA ChainsWell ==
    ASSUME NEW stamps, NEW G, Attrs(stamps) \in G, NEW chain \in Seq(G)
    PROVE  DerivedWell(G, chain, stamps)
<1> DEFINE Ns == {n \in Nat : \A s \in Seq(G) : Len(s) = n => DerivedWell(G, s, stamps)}
<1>1. 0 \in Ns
    <2> SUFFICES ASSUME NEW s \in Seq(G), Len(s) = 0 PROVE DerivedWell(G, s, stamps)
        OBVIOUS
    <2>1. s = <<>>
        OBVIOUS
    <2> QED BY <2>1, NewWell
<1>2. ASSUME NEW n \in Nat, n \in Ns PROVE n + 1 \in Ns
    <2> SUFFICES ASSUME NEW s \in Seq(G), Len(s) = n + 1 PROVE DerivedWell(G, s, stamps)
        OBVIOUS
    <2> DEFINE t == SubSeq(s, 1, n)
    <2>1. t \in Seq(G) /\ Len(t) = n /\ s[n + 1] \in G /\ s = Append(t, s[n + 1])
        OBVIOUS
    <2>2. DerivedWell(G, t, stamps)
        BY <1>2, <2>1
    <2> HIDE DEF t
    <2>3. DerivedWell(G, Append(t, s[n + 1]), stamps)
        BY <2>1, <2>2, DeriveWell
    <2> QED BY <2>1, <2>3
<1>3. Len(chain) \in Ns
    <2> HIDE DEF Ns
    <2> QED BY <1>1, <1>2, NaturalsOf
<1> QED BY <1>3

\* Handle puts the stamps at the top level, and the rest where the consumer put it.
LEMMA HandleWell ==
    ASSUME NEW stamps, NEW attrs, NEW G, Attrs(stamps) \in G, NEW chain \in Seq(G)
    PROVE  Handle(Derived(chain), stamps, attrs) = Write(chain, attrs) \cup ({<<>>} \X stamps)
<1> DEFINE h == Derived(chain)
           replay == <<Attrs(stamps)>> \o h.goas
<1>1. /\ h.base = <<>> /\ h.applied = h.goas
      /\ OpenGroups(h.goas) = OpenGroups(chain) /\ Added(h.goas) = Added(chain)
      /\ h.grouped \/ OpenGroups(chain) = <<>>
      /\ OpenGroups(replay) = OpenGroups(chain)
      /\ Added(replay) = Added(chain) \cup ({<<>>} \X stamps)
    BY ChainsWell DEF DerivedWell
<1> HIDE DEF h, replay
<1>2. CASE stamps = {}
    <2>1. Handle(h, stamps, attrs) = Write(h.applied, attrs)
        BY <1>2 DEF Handle
    <2> QED BY <1>1, <1>2, <2>1 DEF Write, h
<1>3. CASE stamps # {} /\ ~ h.grouped
    <2>1. Handle(h, stamps, attrs) = Write(h.applied, attrs \cup stamps)
        BY <1>3 DEF Handle
    <2> QED BY <1>1, <1>3, <2>1 DEF Write, h
<1>4. CASE stamps # {} /\ h.grouped
    <2>1. Append(h.base, Attrs(stamps)) \o h.goas = replay
        BY <1>1 DEF replay
    <2>2. Handle(h, stamps, attrs) = Write(replay, attrs)
        BY <1>4, <2>1 DEF Handle
    <2> QED BY <1>1, <2>2 DEF Write, h
<1> QED BY <1>2, <1>3, <1>4

\* The ids and the service name of a record are where they can be found, whatever groups
\* the logger has open (Handle, with).
THEOREM RecordsAlwaysCorrelated == LifecycleSpec => []RecordsCorrelated
<1>1. RecordsCorrelated
    <2> SUFFICES ASSUME NEW chain \in Chains, NEW traced \in BOOLEAN
                 PROVE  LET stamps == Stamps(traced, serviceName, None) IN
                        Handle(Derived(chain), stamps, {"inline"})
                            = Write(chain, {"inline"}) \cup ({<<>>} \X stamps)
        BY DEF RecordsCorrelated
    <2> DEFINE stamps == Stamps(traced, serviceName, None)
               G == [group : STRING, attrs : SUBSET STRING] \cup {Attrs(stamps)}
    <2>1. chain \in Seq(G)
        <3> DEFINE Goas == [group : STRING, attrs : SUBSET STRING]
        <3>1. chain \in Seq(Goas)
            BY LifecycleAssumption
        <3>2. Goas \subseteq G
            OBVIOUS
        <3> HIDE DEF Goas, G
        <3> QED BY <3>1, <3>2
    <2>2. Attrs(stamps) \in G
        OBVIOUS
    <2> HIDE DEF stamps, G
    <2> QED BY <2>1, <2>2, HandleWell DEF stamps
<1> QED BY <1>1, PTL
=============================================================================
