# operator-utils: TLA+ models, checks and proofs

This directory holds TLA+ models of the parts of `operator-utils` whose
behaviour depends on the order of steps: the informer registry, the path of an
event to a reconcile, the process-wide telemetry state with the options it is
built from, the middleware chain around a request, and the metrics publisher with
its configuration and its custom metrics. TLC checks the models on small instances;
TLAPS proves all of the safety properties the runs find to hold, and four refinements, for
every value of the constants. Paths below are relative to the repository.

`PROJECT.json` lists every component, run, mutant, theorem and hazard, and maps
each definition to the lines it models.

## The system

| Component | State it keeps | Operations | What makes it correct |
|---|---|---|---|
| `dynamicinformer/registry.go`, `WatchRegistry` | `watches` (key → entry with its informer and per-consumer handlers), `consumerKeys` (consumer → keys), a mutex; per identity the provider's client count | `EnsureWatchSet`, `ReleaseAll`, `GetIndexer` | one informer per key; a call is all or nothing for its consumer and invisible to the others; indexes agree; each `ClientFor` is paired with one `Release`; nothing outlives its last consumer |
| `dynamicinformer/registry.go`, `callbacks.go`: handlers and helpers | the event channel | `callbackToHandler`, `extractObject`, the three helpers | no event gets lost but at a full channel; a resync makes good what can be made good |
| `telemetry-web/telemetry.go` | global `TracerProvider` and `MeterProvider`, service name, `initialized` | `Init`, the shutdown it returns | one pipeline at a time; a failure or shutdown leaves nothing behind; a running Init stays wired |
| `telemetry-web/endpoint`, `nethttp` (`followMeter`, `countActive`) | cached instruments and the provider they were built from | `get`, `handler`, requests | a caller writes to a provider that is global during its call; active requests balance |
| `telemetry-web/nethttp` (recovery, routes), `endpoint/panic.go`, adapters | per request: labeler, span, whether a response has begun | `Recovery`, `StampRoute`, `Instrument` of chi, gin, echo | a panic is counted once, `http.ErrAbortHandler` never; the route survives a panic |
| `telemetry-web/exporters.go`, sampling ratio | environment | `validEndpoint`, `resolveProtocol`, `endpointOpts`, `resolveRatio` | each signal leaves by the transport its own variable names; traces are dropped only at somebody's word |
| `telemetry-web/logging` | per handler: what it was derived by, and whether a group is open; the process logger | `WithAttrs`, `WithGroup`, `Handle`, `SetDefault`, `Logger` | a record's ids stay at its top level, whatever groups are open |
| `observability/pkg/publisher`: `New`, readers, bridge | the claim on controller-runtime's registry, the readers, the global MeterProvider | `New`, `Shutdown` | one Prometheus reader on controller-runtime's registry; a Publisher's bridge leaves out its own families and no others |
| `observability/pkg/publisher/custom.go` | reserved metric names and their mutex | `Counter`, `Gauge`, `Histogram`, `reserve`, `release` | no family on `/metrics` has two sources; a refused metric leaves no name behind |
| `observability/pkg/publisher/config.go` | the caller's OTLP block, the environment | `applyDefaults`, `applyEnvOverrides`, `parseHeaders` | the environment wins over the defaults, also where several `New`s write through one pointer |
| `util/*` | none | filters, finalizers, labels, wrappers | each function's documented semantics |

How they interact. Consumers (controllers) call the registry from their own
goroutines; the registry calls the client provider and the `InformerFunc` under
its mutex, starts a goroutine per informer, and hands consumers registrations
that they use without the mutex. Informers call the consumers' handlers, which
send to channels that controllers drain. `Init`, shutdowns and `Publisher.New` all
write OpenTelemetry's global providers; `endpoint` and `nethttp` read the global
provider on each use and rebuild their instruments when it has changed.

What is hard: failures and panics in the middle of a call that has already changed the
registry; lock-free readers; asynchronous cancellation; a bounded channel written
without blocking; several writers of process-wide globals; caches validated by
comparison; a check made by registering a probe on a registry that others use; and
settings written through a pointer that is shared. `PROJECT.json` lists these hazards
line by line.

## Modules

### `WatchRegistry.tla`: the registry

`EnsureWatchSet` and `ReleaseAll` hold the registry's mutex from beginning to
end, so there is one call at a time, and its locals (`pc`, `caller`,
`parentCtx`, `slice`, `at`, `newlyAdded`, `work`, `regs`) are variables. The
call still takes many steps, because what does not need the mutex interleaves
with it: a parent context can be cancelled (`CancelContext`), an informer's
`Run` can return (`RunReturns`), a registration can be read.

| Code | Model |
|---|---|
| `r.watches[key]`, absent | `watches[k]`, `None` |
| a new `WatchEntry` | an unused member of `Informers`; `keyOf` and `ctxOf` say what it was made for |
| `entry.handlers[consumerID]` | `handlers[i][c]`, a member of `Handles` |
| `close(hr.released)` | `released` |
| `entry.cancel()`; `entry.done` closed | `cancelled`; `Done(i)`, true too when the parent context is done |
| provider's reference count | `refs` |
| start of `EnsureWatchSet`, stale set | `EnsureWatchSet` |
| `startWatchLocked` | `ClientFor`, `ClientForFails`, `InformerFuncFails`, `StartInformer` |
| the loop body | `Deduplicate`, `AddEventHandler`, `AddEventHandlerFails` |
| stale removal, last assignment | `ReleaseStale`, `Commit` |
| `rollbackNewlyAddedLocked`, also from `recover` | `StartRollback`, `RollbackRelease`, `RollbackReturn` |
| `ReleaseAll`, or an empty slice | `ReleaseAll`, `ReleaseAllRelease`, `ReleaseAllReturn` |
| `releaseWatchLocked`, `stopWatchLocked` | `ReleaseWatchLocked`, `StopWatch` |

An error and a panic of the provider or of the `InformerFunc` end in the same
state, so one action stands for both. `AddEventHandler` must fail once the
informer has stopped, and may fail at any time. The errors of
`RemoveEventHandler` are collected and change nothing, so they are left out.

`WatchRegistryInvariant.tla` states the inductive invariant `IInv`;
`WatchReaders.tla` adds `GetIndexer`, as the two channel looks it is made of;
`ConsumerWatches.tla` is the abstract specification: each consumer has a set of
registrations, and a call replaces it at one instant or does nothing.
`ImplementsConsumerWatches` states that the registry implements it, under a
mapping that puts the effect of a successful `EnsureWatchSet` at the step that
serves its last request, and that of a failed one at its first failure.

### `EventDelivery.tla`: from the cluster to a reconcile

One watch and one consumer: the cluster, the informer's store, the events it has
queued, the requests of the event being handled (`sending`), the channel, and
what each owner found at its last reconcile (`seen`). `owed` and `lost` record
what events asked for and what the full channel dropped. `Shapes` says which contents
an object may take; with one each, objects are only created and deleted. `helper` picks
one of the three callback helpers, `ResyncWalks` are the orders in which a resync may walk the
store. The informer, the API server and the controller are
external and modelled from how the code uses them: the store is written before
the handler is told, a resync hands out the objects of the store, a deletion may
come as a tombstone, a reconcile reads the store.

### `MeterFollower.tla`: instruments that follow the global provider

`endpoint.get` and `followMeter.handler` are the same algorithm and one module
models both: read the global provider, compare, lock, compare again, build,
store. `countActive` adds the request that uses the result. `lived` records which
providers were global during a call. The warning belongs to `endpoint` only.

`UncachedInstruments.tla` is the abstract specification: no cache and no mutex, a call
picks the provider that is global when it begins and counts its request on that one.
`ImplementsUncachedInstruments` maps a call's pick to the provider it read, so that
everything from the comparison to the store has to be invisible.

### `TelemetryLifecycle.tla`: Init and shutdown

Each `Init` and each shutdown takes several steps over the globals. `Init` holds
`initMu` throughout; a shutdown runs outside it and takes it only to reset
`initialized`. Every `return nil, err` of `Init` is an action. A provider is
`live`, `shut`, or `leaked` (shut down under a dead context: it latches shut with
its goroutines running). `CallerContexts` are those a caller of shutdown may pass:
cancelled or not, with a deadline ahead, past or none. `DeriveContext` picks one and
keeps what `FlushContext` makes of it in `flushCtx`; until `FlushTraces` hands that to
the provider, `DeadlinePasses` may end it, be it the caller's deadline or the five
seconds of `flushFloor`, and `ranOut` remembers that. `ExternalUp` is another component, such as the
Publisher, that makes its own `MeterProvider` global at any moment.

Each Init gets a Config (`given`), reads the `OTEL_` variables (`env`) and leaves
the exporters and the ratio it settled on in `pipeline`.

`TelemetryOwnership.tla` is the abstract specification: one Init at a time owns the
telemetry of the process, only the owner runs pipelines and writes the globals, and it
gives them up with nothing of its own left. `ImplementsTelemetryOwnership` maps the
owner to the Init that is `Engaged`: it holds `initMu` or has not reset `initialized` yet.

`TelemetryOptions.tla` holds the operators for that, `ValidEndpoint`,
`ResolveProtocol`, `EndpointOpt` and `ResolveRatio`: an endpoint is what the code's
own tests can tell of it, a ratio a number of percent or NaN. `LogHandler.tla` holds
those for the log handler: a `slog.Handler` is the sequence of calls it was derived
by, `Handle` says what ours writes, `Write` what `log/slog` would: what the calls `Added`
and what the record brings, each under the path of the `OpenGroups`. A record changes
nothing, so logging has no action; `RecordsCorrelated` compares the two for every
logger in every state of the life cycle.

### `RequestChain.tla`: one request through the middleware

`Chain` is the list of layers that `nethttp.Handler` and an adapter's `Instrument`
put around the application, for one of the possible wirings: adapter (or none, for
a router wired by hand), with or without `WithoutRecovery`, a skipped path, a route
that matches or not, a mux around it, the framework's own recovery outside or
inside ours. `at` walks down the list and back up; while `raised` holds a panic
only what a layer defers runs. `before`, `after` and `handler` are the application:
it begins the response in any way a `ResponseWriter` offers, returns early, or
panics, on the way down or up.

| Code | Actions |
|---|---|
| `countActive`, otelhttp (external) | `CountActive`, `StartSpan`, `EndSpan` |
| `nethttp.Recovery`, `trackWrites` | `Recovery`, `PassRecovery`, `Begin` |
| gin's and echo's `Recovery` | `AdapterRecovery`, `PassRecovery` |
| `Recovered`, `RecordPanic` | `Recorded`, within the two recoveries |
| `RouteTag`, `StampRoute` | `RouteTag`, `ChiRouteTag` |
| the application, the router, chi's router of a mount without a route for the request (external) | `CallNext`, `EnterMount`, `Return`, `Respond`, `Panic` |

The labeler, the span's name and route and the recorded metric are kept apart, as
in the code; `panics` is `http.server.panics` with the route each was counted under.

### `Publisher.tla`: the publisher and its custom metrics

Several calls of `New`, each making one Publisher from one Config, several
registrations of a counter, gauge or histogram on them, and the gathers of their OTLP
bridges, over the registries of the process.

| Code | Actions |
|---|---|
| `New` up to its resource: the look at the protocol, the defaults, the environment | `FindProtocol`, `WriteDefaults`, `WriteEnv` |
| `buildPrometheusReader`: the claim, the exporter, giving the claim back | `Claim`, `ExporterBuilt`, `ExporterFails` |
| `buildOTLPReader`, `bridgeGathererFor`, the global provider | `Return` |
| `Publisher.Shutdown` | `Shutdown` |
| `exceptGatherer.Gather`: the registry, then its own reader | `GatherBase`, `GatherOwn` |
| validation of the name, in the three constructors | `Register` |
| `reserve`, under `mu`, with `claimedOn` | `NameTaken`, `ReserveUnprobed`, `ProbeRefused`, or `Probe` and `Reserve` |
| the SDK's constructor, `release` | `Create`, `Release` |
| another component's `Register` (external) | `OtherRegisters` |

The probe is put on and taken off in two steps, because the registry's own mutex is
free in between: `mu` keeps out other registrations on the same Publisher, but not
those of another Publisher or of another component. A registry remembers the help
text of whatever was ever on it (`probed`), even unregistered: client_golang refuses
another component's collector of that family from then on, and `OneSourceEach` rests on
it.

`FamilySources.tla` is the abstract specification: a family on controller-runtime's
registry is taken in one step, by one registration or by another component, only while it
is free; it is served by who took it, and given back only unserved.
`ImplementsFamilySources` maps the taking to the step that claims the keys (`Reserve`), so
the claim on the registry, the mutex of each Publisher and the probe together have to
come to that one test-and-set.

A bridge whose reader writes to controller-runtime's registry (`FiltersOwn`) gathers
twice, and `base` holds what it found the first time; anything may happen before the
second gather, and `Bridged` is what it would hand on if that came now. `OnlyOwnLeftOut`
says what the filter does, and no more than it does:

- While a Publisher is up, its own families do not go over its bridge, and neither
  another component's nor another Publisher's are left out.
- A `Shutdown` between the two gathers stops the reader (`publisher.go:198`), so the second finds
  nothing to leave out and the families of the first get through, once.
- A Publisher refused the claim has no filter and bridges the families of the one that
  has it, which also exports them itself: "exactly once" (`publisher.go:9-14`) holds for
  the one Publisher per process that `New` is documented for (`publisher.go:107`).
- A probe that is on the registry when it is gathered is bridged too. It is an empty
  family of a metric about to be registered or refused.

A gather that fails hands on nothing and changes nothing, so it has no action.

`PublisherConfig.tla` is `config.go`. The OTLP block is a pointer and nothing locks it,
so `New` takes three steps over it: the look at the protocol, the defaults by what it saw
(`FillDefaults`), the environment (`Override`, with `ParseHeaders`) and the last look
at the defaults. `Fresh` is the block `New` makes when there was none, `Settings` what it
has of its own. A pointer to a block is the set of what it points to, empty for nil.

`overlapped` are the `New`s that shared the block while it was being written. One of
them may find the protocol empty, and write the default (`config.go:119-120`) over what
another has just taken from the environment: the block says "grpc" until the first gets
to its own environment, and a `New` that builds its exporter in between uses gRPC. So
`EnvironmentWins` claims the protocol and the transport only for a `New` that none
overlapped, and everything else for each. Two `New`s that copy headers into one map at
once may end the process (`config.go:157`); in the model they then go no further.

Definitions marked `(slip)` are not part of the models: each is a definition with
a plausible mistake in it, and `PROJECT.json` names the property it must break.

## Runs

| Run | Instance | What it shows |
|---|---|---|
| `registry` | 2 keys of one identity, 2 consumers, 1 context, 3 informers, 4 handles, slices of one or two keys, one with a duplicate; fairness | all safety properties of the registry, the inductive invariant and the refinement of `ConsumerWatches`; every call returns and a dropped informer's goroutine ends |
| `registry_release` | an identity per key, 3 handles | violation: a client is given back while its informer runs |
| `readers` | 2 contexts, 2 informers, 3 handles, 1 reader | `GetIndexer` without the mutex |
| `delivery` | 2 objects, 2 contents, 2 owners, channel of 2, 3 changes, both resync orders, each helper; fairness | nothing is lost but at the full channel; existing objects reach their owners |
| `delivery_dropped` | the same, channel of 1, one content and one request per object, so that objects are only created and deleted | violation: a dropped deletion is not recovered |
| `follower` | 2 callers, 4 calls, 2 real providers and the noop, both real ones unable to create an instrument; fairness | the cache, its mutex, the active count, the refinement of `UncachedInstruments` |
| `follower_warnings` | the same | violation: more than one warning per provider |
| `lifecycle` | 2 Inits, 2 callers of each shutdown, every context of theirs, 5 Configs, 3 environments, loggers derived by up to 3 calls; fairness | the globals under every failure of Init, the refinement of `TelemetryOwnership`, what each Init sets up, what a logger writes, and that every call returns |
| `chain` | one request, every wiring, two panics | panics are counted once and with their route, spans and metrics agree, no response is overwritten |
| `chain_methods` | the same | violation: a client's method in the name of a finished request's span, for a router served at the root |
| `publisher` | 2 Publishers, 2 registrations of 4 metrics, 2 registries, 3 Configs, 2 environments, symmetric in Publishers and registrations | one source per family, the refinement of `FamilySources`, one reader, no probe or name left behind, what each bridge leaves out, the environment wins |
| `publisher_flattened` | a histogram, and a gauge of one of the names it is served under | violation: both are accepted, and the registry cannot be gathered |

The type invariants are no invariants of their own in the runs: each is part of the
invariant its module's proofs show inductive, and the `registry` run checks `IInv`
with its own. Three properties are stated and proved but are in no run by name,
because a property of the run implies them: `CancelledIffDropped` is a conjunct of
`IInv`, `BoundWasGlobal` follows from `ImplementsUncachedInstruments` for every call that is
served, and `OneLivePipeline` from `ImplementsTelemetryOwnership`.

Bounds, and why they are enough:

- `RoomFor`: a call of the registry starts only with a name left for every
  informer and handle it may create. Three informers on two keys let one key be
  dropped and watched again; four handles let a consumer add, roll back and add
  again while the other holds one. Nothing in the code depends on which name is used.
  The guard is part of `Spec`, so the proofs carry it too, for any number of names;
  `NamesAlwaysSuffice` proves that it takes no outcome away from a call it lets start.
- Two keys and two consumers give a shared informer, a last and a not last
  consumer, a call that fails on its second key after adding its first, and a stale
  key beside a new one.
- `MaxChanges`, `MaxCalls`: a behaviour ends when they are used up, so these runs
  do not check deadlock. Three changes create, change and delete an object under a
  channel already full; four calls of two callers put one caller anywhere in its
  call while the other runs two.
- Each object of `delivery_dropped` keeps its one content, because an owner may also be
  left behind by an update that no longer maps to it, and that is another matter: the
  run is about deletions.
- The channel of two holds all requests of one event. With a channel shorter than
  what one event asks for, the first requests of an event can starve the rest for
  ever, resync or not; `delivery_dropped` uses a mapping with one request per event.
- A `Resync` waits until the handler has no work, and each order in which it may
  walk the store (a Go map) turns up again and again.
- One request suffices for the chain: requests share no state there but the count of
  `MeterFollower`. The second panic is one raised after the first was recovered.
- Each Init is called once, so the `lifecycle` run ends too. Two Inits give an Init
  that races another, one that waits for a shutdown, and one after a shutdown.
- The five Configs and three environments give each branch of the options: an
  endpoint with a scheme, without one, unset and malformed; a ratio given, unset and
  NaN; the variable of a signal set, unset and unknown, beside a generic one that
  says otherwise. Loggers derived by three calls put attributes before, under and
  after a group, with a call that adds nothing anywhere among them.
- Every `New` and every registration is called once, so the publisher's runs end.
  Two of each give every race of the claim, of the keys and of a probe, on one
  Publisher and on two; the four metrics hold two names and two types that meet in one
  family (a counter gets its suffix, and the translation collapses underscores in any
  name), a name the SDK refuses after it was reserved, and one of a namespace that is
  not legal. A bridge gathers any number of times. The proofs have no such bound.

## Fairness

The specifications of readers, chain and publisher state no fairness, and no liveness
is claimed of them.

- `WatchRegistry!FairSpec`: the goroutine holding the mutex runs on, since the
  documentation requires the provider and the `InformerFunc` to be quick, and
  `informer.Run` returns once its stop channel is closed. Nobody has to call the
  registry or cancel a context.
- `EventDelivery!FairDeliverySpec`: the informer follows the cluster, the handler
  and the controller run on, resyncs keep coming, every order among those that find
  the channel drained. `PresentObjectsSeen` has as its premise that the consumer
  catches up with its events again and again.
- `MeterFollower!FairFollowerSpec` and `TelemetryLifecycle!FairLifecycleSpec`:
  calls under way run on (exporters do not dial when built, a flush is bounded by
  `flushContext`), and a `sync.Mutex` does not starve a waiter, which its starvation
  mode guarantees; hence strong fairness on taking it.

## Proofs

The theorems about the registry are about `Spec` of `WatchRegistry`, for any sets
of keys, consumers and contexts and any set of slices. The only assumption is
`ConstantsAssumption`: keys and the names for entries and handles are finite sets,
`None` is none of the values, and slices are sequences of keys.

`WatchRegistry_proofs.tla` proves type correctness, then the inductive invariant
`IInv`, and from it `IndexInSync`, `NoOrphanInformer`, `LiveRegistrationIsCurrent`
and `CancelledIffDropped`. None of these is inductive alone:

- that `Commit` leaves the two indexes in step needs to know what the loop has
  gathered (`LoopBookkeeping`): the caller's keys are those it has passed, those to
  come and the stale ones, and what it has passed is held or newly added;
- that a release leaves no live registration behind needs every handler to be on
  the entry its key is watched by (`EntriesCurrent`, `HandlersCurrent`);
- that a new name is unused needs `UnusedEntries` and `UnusedHandles`;
- the shape of the locals (`CallShape`) says when each of them means something.

The proof has one lemma for each helper (`StopWatch`, `ReleaseWatchLocked`), used
by the three actions that release, and one step per action under each part.

`WatchRegistryCalls_proofs.tla` adds `ClientsBalanced` (by the cardinality of the
set of keys watched under an identity, which every action changes by at most one
element), `RegsMatchRequests` and the action property `OthersUndisturbed`. Of the
liveness property `EveryCallReturns` it proves what needs no fairness, `CallsAlwaysWindDown`:
`StepsLeft`, a natural number that is zero exactly between calls, goes down with every
step of the call that holds the mutex, through failures and rollbacks alike, and no other
step changes it. What remains is that the goroutine runs on. `NamesAlwaysSuffice` says that a
call that `RoomFor` lets start finds a name whenever it creates something: its
success is as possible as its failure, so the models of the failures hide no success.

`WatchRegistryRefinement_proofs.tla` proves `ImplementsConsumerWatches`: the empty
registry maps to the empty abstract state, and each action maps to an abstract
step or a stutter. The step at which a call has its effect is
`Deduplicate` or `AddEventHandler` for the last request (`LoopSucceeds`), or the
first failure (`RollbackFails`); everything before is hidden by the mapping, and
the releases after it concern handles the abstract state has retired already.

`MeterFollower_proofs.tla` proves the safety properties of the `follower` run, and
`BoundWasGlobal`, for any providers and any finite set of callers, from `FollowerAssumption` (the noop
is a provider on which nothing fails; `None` is none of the values). The inductive
invariant `FollowerInv` adds

- `CacheFaithful` and `CallersCurrent`: the cache writes to the provider it is kept
  under, and a caller's provider was global during its call, so a hit hands out
  nothing older than the call (`BoundWasGlobal`);
- `MutexHeld` and `KnownProviders`, and with them `QuietInv`: in quiet times all
  callers work for one provider, whose warning was given by whoever stored its
  instruments or still holds the mutex to do so. A swap in quiet times restores this
  because the new provider is one nobody was warned about: it is new, or the noop;
- `ActiveBalanced` is inductive with these, by the cardinality of `Serving`, which
  only `StartServing` and `EndServing` change.

The refinement `CacheIsInvisible` follows from the same invariant: only the read of the
global provider, the start and the end of the request and a swap are steps of
`UncachedInstruments`, and `CallersCurrent` says that the instruments a request is counted
with are those of the provider the call read.

`WatchRegistryCalls_proofs.tla` goes on to `WatchReaders`, with `IInv` as its ground.
`ReadersInv` adds that a registration's informer was started and runs until its
context is done (`InformersKnown`), that what was handed out is registered
(`HandedRegistered`), and what a read in progress knows (`ReadsSound`): if the
registration was stopped when the read began and the first look did not show it, the
second will. `ServedWasLive`, `RefusalIsJustified` and `LiveRegistrationIsFed` follow.

`EventDelivery_proofs.tla` proves `OwedIsPending` for any objects, mapping and capacity;
with the types it is inductive as it stands. The work is in the sequences: what is
owed stays among the events, the requests being sent or the channel when a head is
taken or a tail appended, unless the channel is full.

`TelemetryLifecycle_proofs.tla` proves every safety property of the `lifecycle` run for
any Inits, callers, Configs and environments, from `LifecycleAssumption` (the providers
of others are none of an Init's; a Config's fields have the values the options allow; a
logger is derived by finitely many calls). `LifecycleInv` says for each Init where it is
and therefore what runs and what is wired. Its heart is `OneEngaged`: the Inits that
hold `initMu` and those that are up and have not reset the flag are one at most. It
keeps `retire`, which a shutdown runs outside the mutex, from meeting another Init's
globals, and it needs `FlagHasOwner` and `MutexHeld` to be kept by `Lock`. `NothingLeaks`
is about every context a caller may pass: whatever its cancellation and deadline, the
derived one is alive, and only its own deadline can end it before `tp.Shutdown`; Init's
`cleanupCtx` has none, so a failing Init leaks nothing. Each action
moves one Init, and there is a lemma for each stretch of its way (it prepares, creates
its pipelines, succeeds, fails, stops) and one for the callers that wait. `PipelineSet`
remembers what the options were resolved to, for `PipelineAsAsked`.

`OneOwnerAtATime` is the refinement of `TelemetryOwnership`. `OneEngaged` makes the owner
unique; an Init takes the telemetry when it passes the flag and gives it up when it fails
or resets the flag, and that nothing of its own is wired by then is what `TracerWired`,
`MeterWired` and `NameWired` say of those two places.

`RecordsAlwaysCorrelated` is about every logger, whatever calls it was derived by. It is
an induction over the calls, which the provers have no theorem for that they can
instantiate; so it is done with sets of numbers: a set that has 0 and the successor of each
of its members has them all (`NaturalsOf`, from the least member of the rest). With it the
folds of the module are unfolded call by call (`GroupsFold`, `CallsFold`), and
`DerivedWell` is what holds after each call: replaying all calls on top of the stamps opens the
same groups and writes the same attributes as the consumer's own handler, and a handler
whose flag is down has no group open.

`Publisher_proofs.tla` proves every safety property of the `publisher` run, for any
Publishers, registrations, names and registries, from `PublisherAssumption`.
`PublisherInv` adds to the properties

- `ProbesStand`: a registration that looks holds `mu`, its probe is on the registry,
  and the keys it found free are free still;
- `ProbedIsClosed`: a family ever probed for is closed to other components, and that of
  each registration which has its keys was probed for. `OneSourceEach` follows from it
  for other components, from `ReservationsBacked` for two instruments of one Publisher,
  and from `ClaimHasReader` for those of two;
- `NewInOrder` and `CallsOnPublishers`: a reader never moves once registrations can be
  made, and a filter is on only if the reader writes to controller-runtime's registry.
  `OnlyOwnLeftOut` follows for whatever the first gather found: what the second takes
  away is served by the Publisher's own reader on that registry, and by `OneSourceEach`
  it is no other component's.

`FamiliesTakenAtOnce` is the refinement of `FamilySources`. At the step that claims the
keys the family is nobody's (`ProbedIsFree`): no other component's by `ProbedIsClosed`, no
other Publisher's by `ClaimHasReader`, and of no registration on the same Publisher by
`ReservationsBacked` and the keys `ProbesStand` keeps free. Before it a registration has no
family, and a New or a Shutdown moves no reader of a Publisher that has registrations.

`EnvironmentWins` has an invariant of its own, `ConfigInv`: the block of every configured
`New` heeds the environment (`Heeds`), and whatever another `New` writes into it
afterwards keeps that (`DefaultedBlock`, `OverriddenBlock`), with one exception: a default
written on an earlier look. Of the `New`s between that look and their last write, all
have overlapped if there are two; and one that begins after the block was written finds a
protocol there and has no default to write.

`RequestChain_proofs.tla` proves all five safety properties of the `chain` run, for any
number of panics. `ChainOrdered` says what every wiring has in common: `countActive`
and otelhttp come first, the recoveries before `RouteTag`, the application last. With
it a position in the chain tells what has happened: `PathInv` (what is counted and
measured), `SpanInv` (the labeler, the span and the metric have one route) and
`RouteInv` (a panic from behind `RouteTag` meets a recovery only after the route was
stamped: on the way in on gin, echo and by hand, in a deferred call on chi).
`NoStatusOverResponse` rests on `TrackersKnow`: whatever began the response is
known to `trackWrites`, and to the framework's writer but for a flush or a hijack
through echo's, which is why the property leaves those to net/http.

Only model-checked are the liveness properties: `EveryCallReturns`,
`DroppedInformerStops`, `PresentObjectsSeen`, `CallsFinish` and `LifecycleCallsReturn`.
Liveness under fairness and `ENABLED` are out of the prover's reach, and so are `RECURSIVE`
operators, which no module here declares, and the library's induction theorems, which
take an operator; the inductions here go over sets of numbers instead.

## Disagreements between code and documentation

1. `registry_release`: `stopWatchLocked` gives the client back right after `cancel`,
   while `Run` may still be using it; `dynamicinformer/README.md:120-121` says
   "when the informer started with it stops". A provider that closes what it
   evicts at zero would close it under a running informer.
2. `delivery_dropped`: a resync re-delivers what is in the informer's store, so a
   dropped deletion is never recovered; `callbacks.go:19`, `:36` and
   `dynamicinformer/README.md:168`, `:403` say dropped events are.
3. `follower_warnings`: a caller that read the provider before a swap rebuilds for
   it afterwards, with a new `sync.Once`; `endpoint.go:75-76` says a creation
   failure is warned about once per provider generation.
4. `chain_methods`: `StampRoute` renames the span with the request's own method, so
   for a router served at the root a method outside `stdMethods` is in the name;
   `stamp_test.go:185-187` and the comment on `stdMethods` say it never is.
5. `publisher_flattened`: `reserve` compares the names of families, but a histogram is
   served under three more, and client_golang refuses to gather a registry in which
   another metric has one of those: a histogram `latency` and a gauge `latency_count`
   are both accepted and every scrape fails from then on. `custom.go:27-32` says that
   `reserve` rejects what would make the registry fail to gather.

## Not modelled

- `util/*`: functions of a line or two, or wrappers around one controller-runtime call
  each, without state or actors; unit tests reach all of it.
- Of `telemetry-web`: the process logger (`SetDefault`, `Logger`: an atomic pointer with
  a fallback) and `Enabled`; `Transport`, `HTTPClient` and `WrapClient`, which wrap
  library types; the set-up checks of the adapters; `adaptertest`, which is test
  support.
- Wrappers and constants: `pkg/bridge`, `pkg/resource` (that `New` may fail for want of a
  resource is part of `WriteEnv`), `internal/ident` (the service name is a variable of
  `TelemetryLifecycle`).
- Of the publisher: the stdout reader and the Go runtime metrics, whose failure is
  logged and changes nothing else; the instrument interfaces; the reader's own families,
  such as `target_info`; the `Must` variants, which only panic.
- A provider or `InformerFunc` that calls back into the registry or never returns
  (documented as forbidden), a typed nil informer (documented as undetected), a
  `Release` that panics.
- Data that no property tells apart: resources, attributes, samplers, log text, TLS and
  compression settings.
- Generated code and example programs.

## Hazards without a property

`PROJECT.json` gives the reason beside each. In short: a callback into the registry's
own mutex is forbidden by the documentation, and that a consumer may be joined to an
informer whose context is cancelled is documented as it is; an update that no longer maps
to an owner, an endpoint with its "://" in the middle, a log record with two equal keys
and a family that can never be registered again by others are modelled, or plain to read
in the code, but nothing in the repository says what should happen; and `target_info`
would need the reader's own families.

## What is left

The components are modelled one by one and meet in the global `MeterProvider`:
`TelemetryLifecycle` sees the Publisher as `ExternalUp`, `MeterFollower` sees both as swaps.
A composition of the three would add no step that one of them does not allow
already; it would say which swaps can follow one another. A `New` after a
`Shutdown` gets no Prometheus reader on controller-runtime's registry, because the
claim stays made: "one Prometheus reader per process", says the comment on
`ctrlRegistryClaimed`, and the model has that case.
