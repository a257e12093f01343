-------------------------- MODULE TelemetryLifecycle --------------------------
(***************************************************************************)
(* Init and the shutdown it returns (telemetry-web/telemetry.go) over the  *)
(* process-wide state they share: the global TracerProvider and            *)
(* MeterProvider, the service name and the initialized flag.               *)
(*                                                                         *)
(* Several goroutines may call Init, each once here, and the shutdown of   *)
(* an Init that succeeded may be called by several.  Init runs under       *)
(* initMu; shutdown runs outside it and takes it only to reset the flag.   *)
(* Another component (observability's Publisher) may make its own          *)
(* MeterProvider global between any two steps.                             *)
(*                                                                         *)
(* The providers an Init creates are named after the Init.  A context is   *)
(* what a provider's Shutdown can tell of it: whether it was cancelled and *)
(* whether its deadline has passed, which it may do at any moment.         *)
(*                                                                         *)
(* Loggers are derived and used at any time; a record changes nothing.     *)
(***************************************************************************)
EXTENDS TelemetryOptions, LogHandler

CONSTANTS
    Inits,     \* calls to Init, and names for what each creates
    Callers,   \* callers of one shutdown
    External,  \* the MeterProvider another component owns
    NilPointer, \* a MeterProvider interface that holds a nil pointer
    Configs,   \* the Configs Init is called with, and ...
    Envs,      \* ... what the OTEL_ variables may be
    Chains,    \* WithGroup and WithAttrs calls loggers are derived by
    Default,   \* the providers otel starts with
    Noop,
    None

ASSUME LifecycleAssumption ==
    /\ External \notin {NilPointer, Default, Noop, None}
    /\ NilPointer \notin {Default, Noop, None} /\ None \notin {Default, Noop}
    /\ {External, NilPointer, Default, Noop, None} \cap (Inits \cup Callers) = {}
    /\ Configs \subseteq [provider : {None, External, NilPointer},
                          endpoint : Endpoints \cup {Unset},
                          ratio : Int \cup {Unset, NaN}]
    /\ \A env \in Envs : env.arg \in Int \cup {Unset, Garbage, NaN}
    /\ Chains \subseteq Seq([group : STRING, attrs : SUBSET STRING])
    /\ Unset \notin Int \cup {"http/protobuf", "http/json"} /\ NaN \notin Int \cup {Unset}

VARIABLES
    tracer,      \* otel.GetTracerProvider()
    meter,       \* otel.GetMeterProvider()
    serviceName, \* ident.ServiceName: the Init that set it, or None
    initialized,
    initMu,      \* the Init that holds initMu, or None
    pc,          \* where each Init is
    given,       \* its Config: MeterProvider (None for nil), endpoint and ratio
    env,         \* the OTEL_ variables of the process
    pipeline,    \* the exporters and the sampling ratio of each Init
    tp,          \* the TracerProvider of each Init
    mp,          \* the MeterProvider of each Init
    stop,        \* where the body of each shutdown (once.Do) is
    asked,       \* the calls to each shutdown that have not returned
    flushCtx,    \* its flushCtx, from flushContext to tp.Shutdown
    ranOut       \* the Inits whose flushCtx passed its deadline before tp.Shutdown

globalVars == <<tracer, meter, serviceName>>
initVars == <<pc, given, env, pipeline>>
flushVars == <<flushCtx, ranOut>>
stopVars == <<stop, asked, flushVars>>
lifeVars == <<globalVars, initialized, initMu, initVars, tp, mp, stopVars>>

NoConfig == [provider |-> None, endpoint |-> Unset, ratio |-> Unset]
NoPipeline == [spans |-> None, metrics |-> None, ratio |-> Unset]

ProviderStates == {"none", "live", "shut"}

\* A context without a deadline, with one that is past or ahead, or with flushFloor's.
Contexts == [cancelled : BOOLEAN, deadline : {"none", "past", "ahead", "floor"}]
CallerContexts == {x \in Contexts : x.deadline # "floor"}

\* The globals name what can be global: never a nil pointer, which every meter would
\* panic on.
LifecycleTypeOK ==
    /\ tracer \in Inits \cup {Default, Noop}
    /\ meter \in Inits \cup {External, Default, Noop}
    /\ serviceName \in Inits \cup {None}
    /\ initialized \in BOOLEAN
    /\ initMu \in Inits \cup {None}
    /\ pc \in [Inits -> {"new", "waiting", "setup", "tracing", "metrics", "runtime",
                         "cleanup", "retire", "up", "failed"}]
    /\ given \in [Inits -> Configs \cup {NoConfig}]
    /\ DOMAIN pipeline = Inits
    /\ tp \in [Inits -> ProviderStates \cup {"leaked"}]
    /\ mp \in [Inits -> ProviderStates]
    /\ stop \in [Inits -> {"none", "context", "flushTraces", "flushMetrics", "retire", "reset",
                           "done"}]
    /\ asked \in [Inits -> SUBSET Callers]
    /\ flushCtx \in [Inits -> Contexts \cup {None}]
    /\ ranOut \subseteq Inits

LifecycleInit ==
    /\ tracer = Default /\ meter = Default /\ serviceName = None
    /\ initialized = FALSE /\ initMu = None
    /\ pc = [g \in Inits |-> "new"]
    /\ given = [g \in Inits |-> NoConfig]
    /\ env \in Envs
    /\ pipeline = [g \in Inits |-> NoPipeline]
    /\ tp = [g \in Inits |-> "none"]
    /\ mp = [g \in Inits |-> "none"]
    /\ stop = [g \in Inits |-> "none"]
    /\ asked = [g \in Inits |-> {}]
    /\ flushCtx = [g \in Inits |-> None]
    /\ ranOut = {}

OwnsMetrics(g) == given[g].provider = None

Goto(g, where) == pc' = [pc EXCEPT ![g] = where]
StopAt(g, where) == stop' = [stop EXCEPT ![g] = where]

Dead(x) == x.cancelled \/ x.deadline = "past"

\* context.WithoutCancel: neither the cancellation nor the deadline of x.
WithoutCancel(x) == [cancelled |-> FALSE, deadline |-> "none"]

\* (slip) Only a missing deadline is replaced.
FlushContextCancellable(x) ==
    IF x.deadline = "none" THEN [x EXCEPT !.deadline = "floor"] ELSE x

\* flushContext: the caller's deadline if it is ahead, else that of flushFloor.
FlushContext(x) ==
    [WithoutCancel(x) EXCEPT !.deadline = IF x.deadline = "ahead" THEN "ahead" ELSE "floor"]

\* TracerProvider.Shutdown latches the provider shut, and returns at the first sight
\* of a dead context with the batch processor's goroutine running.  A provider
\* already shut stays as it is.
ShutdownTracer(state, x) ==
    IF state = "live" THEN (IF Dead(x) THEN "leaked" ELSE "shut") ELSE state

\* MeterProvider.Shutdown stops the reader before it looks at its context.
ShutdownMeter(state) == IF state = "live" THEN "shut" ELSE state

\* (slip) Both globals are reset.
RetireBoth(g) ==
    /\ tracer' = Noop
    /\ meter' = Noop
    /\ serviceName' = None

\* retire: the globals point at noops, the meter's only if this Init owned metrics.
Retire(g) ==
    /\ tracer' = Noop
    /\ meter' = IF OwnsMetrics(g) THEN Noop ELSE meter
    /\ serviceName' = None

-----------------------------------------------------------------------------
(* Init                                                                    *)

\* No service name: nothing has changed yet.
InitRejected(g) ==
    /\ pc[g] = "new"
    /\ Goto(g, "failed")
    /\ UNCHANGED <<globalVars, initialized, initMu, given, env, pipeline, tp, mp, stopVars>>

\* Or a nil pointer as MeterProvider, or a malformed endpoint; else Init waits for initMu.
\* (The Config of a refused Init is forgotten.)
InitCalled(g) ==
    /\ pc[g] = "new"
    /\ \E cfg \in Configs :
          IF cfg.provider # NilPointer /\ ValidEndpoint(cfg.endpoint)
          THEN Goto(g, "waiting") /\ given' = [given EXCEPT ![g] = cfg]
          ELSE Goto(g, "failed") /\ UNCHANGED given
    /\ UNCHANGED <<globalVars, initialized, initMu, env, pipeline, tp, mp, stopVars>>

\* (slip) The flag is not looked at.
LockUnchecked(g) ==
    /\ pc[g] = "waiting"
    /\ initMu = None
    /\ initMu' = g /\ Goto(g, "setup")
    /\ UNCHANGED <<globalVars, initialized, given, env, pipeline, tp, mp, stopVars>>

\* ErrAlreadyInitialized, or on with it.
Lock(g) ==
    /\ pc[g] = "waiting"
    /\ initMu = None
    /\ IF initialized
       THEN Goto(g, "failed") /\ UNCHANGED initMu
       ELSE Goto(g, "setup") /\ initMu' = g
    /\ UNCHANGED <<globalVars, initialized, given, env, pipeline, tp, mp, stopVars>>

\* The error handler, the service name, the resource and the propagator; without a
\* resource Init fails.
Setup(g) ==
    /\ pc[g] = "setup"
    /\ serviceName' = g
    /\ Goto(g, "tracing") \/ Goto(g, "retire")
    /\ UNCHANGED <<tracer, meter, initialized, initMu, given, env, pipeline, tp, mp, stopVars>>

\* newSpanProcessor fails ...
SpanProcessorFails(g) ==
    /\ pc[g] = "tracing"
    /\ Goto(g, "retire")
    /\ UNCHANGED <<globalVars, initialized, initMu, given, env, pipeline, tp, mp, stopVars>>

\* ... or gives a TracerProvider, which is made global.
StartTracing(g) ==
    /\ pc[g] = "tracing"
    /\ tp' = [tp EXCEPT ![g] = "live"]
    /\ pipeline' = [pipeline EXCEPT ![g].spans = SpanExporter(given[g], env),
                                    ![g].ratio = ResolveRatio(given[g].ratio, env.arg)]
    /\ tracer' = g
    /\ Goto(g, "metrics")
    /\ UNCHANGED <<meter, serviceName, initialized, initMu, given, env, mp, stopVars>>

\* startMetrics, with the provider of another component: only made global.
UseExternal(g) ==
    /\ pc[g] = "metrics"
    /\ ~OwnsMetrics(g)
    /\ meter' = given[g].provider
    /\ initialized' = TRUE /\ initMu' = None
    /\ Goto(g, "up")
    /\ UNCHANGED <<tracer, serviceName, given, env, pipeline, tp, mp, stopVars>>

\* startMetrics with none: newMetricReader fails ...
MetricReaderFails(g) ==
    /\ pc[g] = "metrics"
    /\ OwnsMetrics(g)
    /\ Goto(g, "cleanup")
    /\ UNCHANGED <<globalVars, initialized, initMu, given, env, pipeline, tp, mp, stopVars>>

\* ... or gives a MeterProvider, which is made global ...
StartMetrics(g) ==
    /\ pc[g] = "metrics"
    /\ OwnsMetrics(g)
    /\ mp' = [mp EXCEPT ![g] = "live"]
    /\ pipeline' = [pipeline EXCEPT ![g].metrics = MetricExporter(given[g], env)]
    /\ meter' = g
    /\ Goto(g, "runtime")
    /\ UNCHANGED <<tracer, serviceName, initialized, initMu, given, env, tp, stopVars>>

\* ... but the runtime metrics cannot be started on it ...
RuntimeFails(g) ==
    /\ pc[g] = "runtime"
    /\ mp' = [mp EXCEPT ![g] = ShutdownMeter(@)]
    /\ Goto(g, "cleanup")
    /\ UNCHANGED <<globalVars, initialized, initMu, given, env, pipeline, tp, stopVars>>

\* (slip) The mutex is not unlocked on success.
RuntimeStartsLocked(g) ==
    /\ pc[g] = "runtime"
    /\ initialized' = TRUE
    /\ Goto(g, "up")
    /\ UNCHANGED <<globalVars, initMu, given, env, pipeline, tp, mp, stopVars>>

\* ... or they can: Init is done.
RuntimeStarts(g) ==
    /\ pc[g] = "runtime"
    /\ initialized' = TRUE /\ initMu' = None
    /\ Goto(g, "up")
    /\ UNCHANGED <<globalVars, given, env, pipeline, tp, mp, stopVars>>

\* A failure of startMetrics shuts the TracerProvider down under cleanupCtx, whatever
\* has become of the context given to Init.
Cleanup(g) ==
    /\ pc[g] = "cleanup"
    /\ \E x \in CallerContexts : tp' = [tp EXCEPT ![g] = ShutdownTracer(@, WithoutCancel(x))]
    /\ Goto(g, "retire")
    /\ UNCHANGED <<globalVars, initialized, initMu, given, env, pipeline, mp, stopVars>>

\* (slip) A failing Init leaves the globals as they are.
RetireFailedNot(g) ==
    /\ pc[g] = "retire"
    /\ initMu' = None
    /\ Goto(g, "failed")
    /\ UNCHANGED <<globalVars, initialized, given, env, pipeline, tp, mp, stopVars>>

\* (slip) The deferred functions run in the other order: the mutex is free when the
\* globals are taken back.
RetireFailedUnlocked(g) ==
    /\ pc[g] = "retire"
    /\ IF initMu = g
       THEN initMu' = None /\ UNCHANGED <<globalVars, pc>>
       ELSE Retire(g) /\ Goto(g, "failed") /\ UNCHANGED initMu
    /\ UNCHANGED <<initialized, given, env, pipeline, tp, mp, stopVars>>

\* The deferred functions of a failing Init: retire, then unlock.
RetireFailed(g) ==
    /\ pc[g] = "retire"
    /\ Retire(g)
    /\ initMu' = None
    /\ Goto(g, "failed")
    /\ UNCHANGED <<initialized, given, env, pipeline, tp, mp, stopVars>>

-----------------------------------------------------------------------------
(* shutdown                                                                *)

ShutdownCalled(g, k) ==
    /\ pc[g] = "up"
    /\ k \notin asked[g]
    /\ stop[g] # "done"     \* bound: after that a call only returns
    /\ asked' = [asked EXCEPT ![g] = @ \cup {k}]
    /\ UNCHANGED <<globalVars, initialized, initMu, initVars, tp, mp, stop, flushVars>>

\* once.Do: the first caller enters, the others wait for it.
Enter(g, k) ==
    /\ stop[g] = "none"
    /\ k \in asked[g]
    /\ StopAt(g, "context")
    /\ UNCHANGED <<globalVars, initialized, initMu, initVars, tp, mp, asked, flushVars>>

\* flushContext of the context the caller passed, which SIGTERM may have cancelled.
DeriveContext(g) ==
    /\ stop[g] = "context"
    /\ \E x \in CallerContexts : flushCtx' = [flushCtx EXCEPT ![g] = FlushContext(x)]
    /\ StopAt(g, "flushTraces")
    /\ UNCHANGED <<globalVars, initialized, initMu, initVars, tp, mp, asked, ranOut>>

\* Its deadline passes before tp.Shutdown looks at it.
DeadlinePasses(g) ==
    /\ stop[g] = "flushTraces"
    /\ flushCtx[g].deadline \in {"ahead", "floor"}
    /\ flushCtx' = [flushCtx EXCEPT ![g].deadline = "past"]
    /\ ranOut' = ranOut \cup {g}
    /\ UNCHANGED <<globalVars, initialized, initMu, initVars, tp, mp, stop, asked>>

\* tp.Shutdown; an error of the flush is only remembered.  Whether the context is dead
\* makes no difference to anything that follows.
FlushTraces(g) ==
    /\ stop[g] = "flushTraces"
    /\ tp' = [tp EXCEPT ![g] = ShutdownTracer(@, flushCtx[g])]
    /\ flushCtx' = [flushCtx EXCEPT ![g] = None]
    /\ StopAt(g, "flushMetrics")
    /\ UNCHANGED <<globalVars, initialized, initMu, initVars, mp, asked, ranOut>>

\* (slip) Init is admitted again before the globals are reset.
FlushMetricsResets(g) ==
    /\ stop[g] = "flushMetrics"
    /\ initMu = None
    /\ mp' = [mp EXCEPT ![g] = ShutdownMeter(@)]
    /\ initialized' = FALSE
    /\ StopAt(g, "retire")
    /\ UNCHANGED <<globalVars, initMu, initVars, tp, asked, flushVars>>

\* mp.Shutdown, if Init created one.
FlushMetrics(g) ==
    /\ stop[g] = "flushMetrics"
    /\ mp' = [mp EXCEPT ![g] = ShutdownMeter(@)]
    /\ StopAt(g, "retire")
    /\ UNCHANGED <<globalVars, initialized, initMu, initVars, tp, asked, flushVars>>

\* retire, outside initMu.
RetireStopped(g) ==
    /\ stop[g] = "retire"
    /\ Retire(g)
    /\ StopAt(g, "reset")
    /\ UNCHANGED <<initialized, initMu, initVars, tp, mp, asked, flushVars>>

\* (slip) The flag stays set.
ResetForgotten(g) ==
    /\ stop[g] = "reset"
    /\ StopAt(g, "done")
    /\ UNCHANGED <<globalVars, initialized, initMu, initVars, tp, mp, asked, flushVars>>

\* initialized = false, under initMu.
Reset(g) ==
    /\ stop[g] = "reset"
    /\ initMu = None
    /\ initialized' = FALSE
    /\ StopAt(g, "done")
    /\ UNCHANGED <<globalVars, initMu, initVars, tp, mp, asked, flushVars>>

\* A call returns once the body has run.
ShutdownReturns(g, k) ==
    /\ stop[g] = "done"
    /\ k \in asked[g]
    /\ asked' = [asked EXCEPT ![g] = @ \ {k}]
    /\ UNCHANGED <<globalVars, initialized, initMu, initVars, tp, mp, stop, flushVars>>

-----------------------------------------------------------------------------
\* Another component makes its MeterProvider the global one (external).
ExternalUp ==
    /\ meter # External
    /\ meter' = External
    /\ UNCHANGED <<tracer, serviceName, initialized, initMu, initVars, tp, mp, stopVars>>

-----------------------------------------------------------------------------
\* A step of a call under way.
InitStep(g) ==
    \/ Lock(g) \/ Setup(g) \/ SpanProcessorFails(g) \/ StartTracing(g)
    \/ UseExternal(g) \/ MetricReaderFails(g) \/ StartMetrics(g)
    \/ RuntimeFails(g) \/ RuntimeStarts(g) \/ Cleanup(g) \/ RetireFailed(g)

ShutdownStep(g) ==
    \/ DeriveContext(g) \/ FlushTraces(g) \/ FlushMetrics(g) \/ RetireStopped(g) \/ Reset(g)
    \/ \E k \in Callers : Enter(g, k)

LifecycleNext ==
    \/ \E g \in Inits :
          \/ InitRejected(g) \/ InitCalled(g) \/ InitStep(g)
          \/ ShutdownStep(g) \/ DeadlinePasses(g)
          \/ \E k \in Callers : ShutdownCalled(g, k) \/ ShutdownReturns(g, k)
    \/ ExternalUp

LifecycleSpec == LifecycleInit /\ [][LifecycleNext]_lifeVars

(***************************************************************************)
(* Fairness: a call under way runs on, since exporters are built without   *)
(* dialling and a flush is bounded by flushContext; and sync.Mutex does    *)
(* not starve a goroutine that waits for initMu.                           *)
(***************************************************************************)
FairLifecycleSpec ==
    /\ LifecycleSpec
    /\ \A g \in Inits :
          /\ WF_lifeVars(InitStep(g)) /\ SF_lifeVars(Lock(g))
          /\ WF_lifeVars(ShutdownStep(g)) /\ SF_lifeVars(Reset(g))
          /\ \A k \in Callers : WF_lifeVars(ShutdownReturns(g, k))

-----------------------------------------------------------------------------
HTTP == {"http/protobuf", "http/json"}
OverHTTP(signal, generic) == signal \in HTTP \/ (signal = Unset /\ generic \in HTTP)

\* Init's pipelines never pile up: the goroutines of at most one Init are running,
\* which is what ErrAlreadyInitialized is for.
OneLivePipeline ==
    \A g, h \in Inits :
        "live" \in {tp[g], mp[g]} /\ "live" \in {tp[h], mp[h]} => g = h

\* The batch processor's goroutine is stopped whatever context Init and the shutdown are
\* given, cancelled by SIGTERM or long expired: it leaks only if the deadline that
\* flushContext settled on, still ahead then, passes before tp.Shutdown looks at it.
NothingLeaks == \A g \in Inits : tp[g] = "leaked" => g \in ranOut

\* Between a successful Init and its shutdown nobody unwires it: what an earlier
\* shutdown, a refused or a failing Init still does leaves the globals alone, and
\* only another component's MeterProvider may take its meter's place.
RunningIsWired ==
    \A g \in Inits : pc[g] = "up" /\ stop[g] = "none" =>
        /\ initialized
        /\ tracer = g /\ tp[g] = "live" /\ serviceName = g
        /\ IF OwnsMetrics(g) THEN mp[g] = "live" /\ meter \in {g, External}
                             ELSE meter = External

\* A failed Init and a finished shutdown leave no live provider and nothing wired to
\* what they shut down.  (For the goroutine that can leak: NothingLeaks.)
GoneWithoutTrace ==
    \A g \in Inits : pc[g] = "failed" \/ stop[g] = "done" =>
        /\ "live" \notin {tp[g], mp[g]}
        /\ g \notin {tracer, meter, serviceName}

\* The flag is set exactly while there is an Init to shut down: Init is refused then,
\* and admitted again once the shutdown has run.
FlagHasOwner ==
    initialized <=> \E g \in Inits : pc[g] = "up" /\ stop[g] # "done"

\* g holds initMu; g is up, and its shutdown has not come further than where.
Holds(g) == pc[g] \in {"setup", "tracing", "metrics", "runtime", "cleanup", "retire"}
UpTo(g, where) == pc[g] = "up" /\ stop[g] \in where
Whole == {"none", "context", "flushTraces", "flushMetrics", "retire", "reset"}

\* The telemetry is g's: it holds initMu, or the flag is set for it.
Engaged(g) == Holds(g) \/ UpTo(g, Whole)

Ownership ==
    INSTANCE TelemetryOwnership
    WITH owners <- {g \in Inits : Engaged(g)},
         running <- {g \in Inits : "live" \in {tp[g], mp[g]}}

\* One Init at a time owns the telemetry of the process: from the mutex over the flag to
\* a shutdown that runs outside the mutex, nobody else starts a pipeline or writes a
\* global, and it goes with everything of its own stopped and unwired.
ImplementsTelemetryOwnership == Ownership!Spec

\* An Init given another component's MeterProvider, its failure and its shutdown
\* never take that provider out of its place.
ExternalKept ==
    [][meter = External /\ meter' # External =>
         \E g \in Inits : OwnsMetrics(g) /\ (pc'[g] # pc[g] \/ stop'[g] # stop[g])]_lifeVars

\* Each signal leaves by the transport its own variable names, else the generic one, and
\* by gRPC if neither names one of HTTP; and new traces are dropped only at somebody's
\* word: no ratio that is not a number and none that cannot be read silences them.
PipelineAsAsked ==
    \A g \in Inits : tp[g] = "live" =>
        /\ OverHTTP(env.traces, env.generic) <=> pipeline[g].spans[1] = "http/protobuf"
        /\ mp[g] = "live" =>
              (OverHTTP(env.metrics, env.generic) <=> pipeline[g].metrics[1] = "http/protobuf")
        /\ Kept(pipeline[g].ratio) = 0 =>
              LET word == IF given[g].ratio # Unset THEN given[g].ratio ELSE env.arg
              IN  word \in Int /\ word <= 0

\* A record written now by a logger derived at any time carries the ids of its span and
\* the name of the service that is up at the top level, whatever groups are open, and
\* every attribute of the consumer's just where it put it.
RecordsCorrelated ==
    \A chain \in Chains, traced \in BOOLEAN :
        LET stamps == Stamps(traced, serviceName, None) IN
        Handle(Derived(chain), stamps, {"inline"})
            = Write(chain, {"inline"}) \cup ({<<>>} \X stamps)

\* Every call of Init and of a shutdown returns, and so can the next one.
LifecycleCallsReturn ==
    \A g \in Inits :
        /\ pc[g] = "waiting" ~> pc[g] \in {"up", "failed"}
        /\ \A k \in Callers : k \in asked[g] ~> k \notin asked[g]
=============================================================================
