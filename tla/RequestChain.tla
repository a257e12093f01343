---------------------------- MODULE RequestChain ----------------------------
(***************************************************************************)
(* One request through the middleware chain: nethttp.Handler               *)
(* (telemetry-web/nethttp/nethttp.go) around a router that one of the      *)
(* adapters instrumented (telemetry-web/adapters), or that was wired by    *)
(* hand with StampRoute.  Control goes down the chain, layer by layer, and *)
(* back up; a panic unwinds it, and only deferred code of a layer runs     *)
(* then.  The application's middleware and handler do what they like:      *)
(* begin the response, answer without calling next, panic on the way down  *)
(* or on the way up, panic with http.ErrAbortHandler.                      *)
(*                                                                         *)
(* otelhttp, the routers and their response writers are external, modelled *)
(* from how the chain relies on them.                                      *)
(***************************************************************************)
EXTENDS Integers, Sequences

CONSTANTS
    MaxPanics,  \* bound: errors the application panics with while serving the request
    None

Adapters == {"none", "chi", "gin", "echo"}
App == {"before", "after", "handler"}   \* the layers of the application
Routes == {"template", "mount", "mux"}  \* a route's template, a chi mount's pattern, the
                                        \* pattern of the net/http mux around Handler
Commits == {"WriteHeader", "Write", "Flush", "Hijack", "ReadFrom"}
SpanNames == [method : {"std", "HTTP", "raw"}, route : Routes \cup {None}]
Spans == [name : SpanNames, route : Routes \cup {None}]

ASSUME ChainAssumption == MaxPanics \in Nat /\ None \notin Routes \cup App \cup Spans

\* How the service is wired, and what the request is like.
Wirings == [
    adapter : Adapters,
    recovery : BOOLEAN,   \* no WithoutRecovery
    ownOuter : BOOLEAN,   \* the framework's own recovery, used before Instrument ...
    ownInner : BOOLEAN,   \* ... and after it
    topLevel : BOOLEAN,   \* RouteTag sits on the top router
    skip : BOOLEAN,       \* the path is one of WithSkipPaths
    matched : BOOLEAN,    \* a route matches
    mounted : BOOLEAN,    \* Handler is under a mux: r.Pattern # ""
    std : BOOLEAN]        \* the method is in stdMethods

\* Only chi's RouteTag is used in mounted routers; chi and gin match methods by name,
\* while echo has a path for any method and a handler wired by hand answers them all.
Possible(w) ==
    /\ w.adapter # "chi" => w.topLevel
    /\ w.matched /\ w.adapter \in {"chi", "gin"} => w.std

If(present, layer) == IF present THEN <<layer>> ELSE <<>>

\* What Instrument makes of a chi router: no recovery of its own ...
ChiEngine(w) ==
    If(w.ownOuter, "own") \o <<"before">> \o <<"RouteTag">> \o If(w.ownInner, "own")
    \o <<"after", "handler">>

\* ... of a gin engine, unless WithoutRecovery ...
GinEngine(w) ==
    If(w.ownOuter, "own") \o <<"before">> \o If(w.recovery, "AdapterRecovery")
    \o <<"RouteTag">> \o If(w.ownInner, "own") \o <<"after", "handler">>

\* ... and of an echo, where Pre middleware is before it too.
EchoEngine(w) == GinEngine(w)

\* Handler: the layers, outermost first.
Chain(w) ==
    <<"countActive", "otelhttp">> \o If(w.recovery, "Recovery")
    \o CASE w.adapter = "gin" -> GinEngine(w)
         [] w.adapter = "echo" -> EchoEngine(w)
         [] OTHER -> ChiEngine(w)

VARIABLES
    wiring,
    at,            \* the layer that runs: an index of Chain, 0 when Handler has returned
    down,          \* it runs the part before next
    raised,        \* the panic that unwinds: "none", "error" or "abort" (ErrAbortHandler)
    origin,        \* the layer of the application that panicked last
    routed,        \* the router has called the handler or, in chi, a mounted router
    sent,          \* what began the response, "nothing" at first
    wrote,         \* trackWrites' wrote
    committed,     \* the framework's response writer knows that the response has begun
    overwrote,     \* who wrote a status over a response that had begun
    active,        \* http.server.active_requests
    instrumented,  \* otelhttp put a span and a labeler in the context
    labeler,       \* http.route of the labeler, or None
    span,          \* name and http.route of the server span, or None
    measured,      \* http.server.request.duration was recorded ...
    metricRoute,   \* ... with this http.route
    warned,        \* warnNoLabeler has fired
    panics,        \* http.server.panics: where each came from and its http.route
    thrown,        \* errors the application panicked with (bounded by MaxPanics)
    consumed       \* those of them that the framework's own recovery consumed

controlVars == <<at, down>>
panicVars == <<raised, origin, panics, thrown, consumed>>
responseVars == <<sent, wrote, committed, overwrote>>
telemetryVars == <<active, instrumented, labeler, span, measured, metricRoute, warned>>
chainVars == <<wiring, routed, controlVars, panicVars, responseVars, telemetryVars>>

Layer == Chain(wiring)[at]

\* The shape of a request under way.
ChainTypeOK ==
    /\ wiring \in Wirings
    /\ at \in 0..Len(Chain(wiring)) /\ down \in BOOLEAN
    /\ raised \in {"none", "error", "abort"} /\ origin \in App \cup {None}
    /\ routed \in BOOLEAN
    /\ sent \in Commits \cup {"nothing"}
    /\ wrote \in BOOLEAN /\ committed \in BOOLEAN
    /\ overwrote \subseteq {"Recovery", "AdapterRecovery"}
    /\ active \in 0..1
    /\ instrumented \in BOOLEAN /\ labeler \in Routes \cup {None}
    /\ span \in Spans \cup {None}
    /\ measured \in BOOLEAN /\ metricRoute \in Routes \cup {None} /\ warned \in BOOLEAN
    /\ panics \in Seq([origin : App, route : Routes \cup {None}])
    /\ thrown \in 0..MaxPanics /\ consumed \in 0..MaxPanics

ChainInit ==
    /\ wiring \in {w \in Wirings : Possible(w)}
    /\ at = 1 /\ down = TRUE
    /\ raised = "none" /\ origin = None /\ panics = <<>> /\ thrown = 0 /\ consumed = 0
    /\ routed = FALSE
    /\ sent = "nothing" /\ wrote = FALSE /\ committed = FALSE /\ overwrote = {}
    /\ active = 0 /\ instrumented = FALSE /\ labeler = None /\ span = None
    /\ measured = FALSE /\ metricRoute = None /\ warned = FALSE

Forward == at' = at + 1 /\ down' = TRUE
Back == at' = at - 1 /\ down' = FALSE

-----------------------------------------------------------------------------
(* The response and its trackers.                                          *)

\* (slip) Flush and ReadFrom are not hooked.
HooksOfHeader == {"WriteHeader", "Write", "Hijack"}

\* The methods of the ResponseWriter that trackWrites hooks.
Hooks == {"WriteHeader", "Write", "Hijack", "Flush", "ReadFrom"}

\* What the framework's writer notices: gin's all, echo's only what goes through its
\* own Write and WriteHeader; net/http keeps no such flag.
FrameworkSees ==
    CASE wiring.adapter = "gin" -> Commits
      [] wiring.adapter = "echo" -> {"WriteHeader", "Write"}
      [] OTHER -> {}

\* Neither gin's writer nor echo's is an io.ReaderFrom.
Available == IF wiring.adapter \in {"gin", "echo"} THEN Commits \ {"ReadFrom"} ELSE Commits

Begin(kind) ==
    /\ sent' = IF sent = "nothing" THEN kind ELSE sent
    /\ wrote' = (wrote \/ kind \in Hooks)
    /\ committed' = (committed \/ kind \in FrameworkSees)

\* A recovery answers 500, through every writer above it.
WriteStatus(who) ==
    /\ overwrote' = IF sent = "nothing" THEN overwrote ELSE overwrote \cup {who}
    /\ Begin("WriteHeader")

-----------------------------------------------------------------------------
(* Span names and routes.                                                  *)

\* (slip) otelhttp's own naming: the mux pattern whatever was stamped.
SpanNameOfPattern(route) ==
    [method |-> IF wiring.std THEN "std" ELSE "HTTP",
     route |-> IF wiring.mounted THEN "mux" ELSE None]

\* spanName, given the labeler's route: that, or else the path of r.Pattern.
SpanName(route) ==
    [method |-> IF wiring.std THEN "std" ELSE "HTTP",
     route |-> IF route # None THEN route ELSE IF wiring.mounted THEN "mux" ELSE None]

\* The route the adapter knows.  chi looks up the pattern that would match a request
\* that was not routed, unless RouteTag sits in a mounted router, which keeps the
\* mount's pattern, as does a request that no route of a mounted router matches; gin
\* and echo route before their middleware runs.
MatchedRoute ==
    IF wiring.adapter = "chi" /\ (IF routed THEN ~wiring.matched ELSE ~wiring.topLevel)
    THEN "mount"
    ELSE IF wiring.matched THEN "template" ELSE None

\* (slip) The labeler is looked for on skipped paths too.
StampSkippedToo(route) ==
    IF route = None THEN UNCHANGED <<labeler, span, warned>>
    ELSE /\ labeler' = IF instrumented THEN route ELSE labeler
         /\ warned' = (warned \/ ~instrumented)
         /\ span' = IF span = None THEN None
                    ELSE [name |-> [method |-> IF wiring.std THEN "std" ELSE "raw", route |-> route],
                          route |-> route]

\* StampRoute, called with r.Method when there is a route: nothing on a skipped path;
\* else the labeler, or the warning without one, and the span's route and name.
StampRoute(route) ==
    IF route = None \/ wiring.skip THEN UNCHANGED <<labeler, span, warned>>
    ELSE /\ labeler' = IF instrumented THEN route ELSE labeler
         /\ warned' = (warned \/ ~instrumented)
         /\ span' = IF span = None THEN None
                    ELSE [name |-> [method |-> IF wiring.std THEN "std" ELSE "raw", route |-> route],
                          route |-> route]

-----------------------------------------------------------------------------
(* countActive and otelhttp, outside every recovery.                       *)

\* One up on the way down, one down in a deferred call, unless the path is skipped.
CountActive ==
    /\ Layer = "countActive"
    /\ IF down
       THEN active' = (IF wiring.skip THEN active ELSE active + 1) /\ Forward
       ELSE active' = (IF wiring.skip THEN active ELSE active - 1) /\ Back
    /\ UNCHANGED <<wiring, routed, panicVars, responseVars, instrumented, labeler, span,
                   measured, metricRoute, warned>>

\* The filter lets a skipped request through untouched.  The span gets its first name
\* before there is a labeler.
StartSpan ==
    /\ Layer = "otelhttp" /\ down
    /\ Forward
    /\ IF wiring.skip THEN UNCHANGED <<instrumented, span>>
       ELSE instrumented' = TRUE /\ span' = [name |-> SpanName(None), route |-> None]
    /\ UNCHANGED <<wiring, routed, panicVars, responseVars, active, labeler, measured,
                   metricRoute, warned>>

\* After next the span is named again when the request has a pattern, and the
\* duration recorded; only the span's end is deferred.
EndSpan ==
    /\ Layer = "otelhttp" /\ ~down
    /\ Back
    /\ IF instrumented /\ raised = "none"
       THEN /\ span' = IF wiring.mounted THEN [span EXCEPT !.name = SpanName(labeler)] ELSE span
            /\ measured' = TRUE /\ metricRoute' = labeler
       ELSE UNCHANGED <<span, measured, metricRoute>>
    /\ UNCHANGED <<wiring, routed, panicVars, responseVars, active, instrumented, labeler, warned>>

-----------------------------------------------------------------------------
(* The recoveries.                                                         *)

\* Recovered(ctx, p, attrs): an error is recorded and may be answered.
Recorded(route) ==
    /\ raised = "error"
    /\ raised' = "none"
    /\ panics' = Append(panics, [origin |-> origin, route |-> route])

\* What the framework's own recovery takes for an error: gin's also the sentinel.
OwnConsumes == raised = "error" \/ (raised = "abort" /\ wiring.adapter = "gin")

\* On the way down, and on the way up when there is nothing for it to do, a recovery
\* only passes on; http.ErrAbortHandler is raised again.
PassRecovery ==
    /\ Layer \in {"Recovery", "AdapterRecovery", "own"}
    /\ IF down THEN Forward
       ELSE raised # "error" /\ ~(Layer = "own" /\ OwnConsumes) /\ Back
    /\ UNCHANGED <<wiring, routed, panicVars, responseVars, telemetryVars>>

\* nethttp.Recovery: the route is the labeler's, the 500 written unless wrote.
Recovery ==
    /\ Layer = "Recovery" /\ ~down
    /\ Recorded(labeler)
    /\ IF wrote THEN UNCHANGED responseVars ELSE WriteStatus("Recovery")
    /\ Back
    /\ UNCHANGED <<wiring, routed, origin, thrown, consumed, telemetryVars>>

\* (slip) The adapter records the panic and raises it again for the outer layer.
AdapterRecoveryRaises ==
    /\ Layer = "AdapterRecovery" /\ wiring.adapter \in {"gin", "echo"} /\ ~down
    /\ raised = "error"
    /\ panics' = Append(panics, [origin |-> origin, route |-> MatchedRoute])
    /\ Back
    /\ UNCHANGED <<wiring, routed, raised, origin, thrown, consumed, responseVars, telemetryVars>>

\* gin's and echo's Recovery: the route is the framework's, and so is the 500, which it
\* leaves out when it knows that the response has begun.
AdapterRecovery ==
    /\ Layer = "AdapterRecovery" /\ wiring.adapter \in {"gin", "echo"} /\ ~down
    /\ Recorded(MatchedRoute)
    /\ IF committed THEN UNCHANGED responseVars ELSE WriteStatus("AdapterRecovery")
    /\ Back
    /\ UNCHANGED <<wiring, routed, origin, thrown, consumed, telemetryVars>>

\* The framework's own recovery consumes the panic and answers 500 if nothing was sent.
OwnRecovery ==
    /\ Layer = "own" /\ ~down
    /\ OwnConsumes
    /\ consumed' = IF raised = "error" THEN consumed + 1 ELSE consumed
    /\ raised' = "none"
    /\ IF sent = "nothing" THEN Begin("WriteHeader") ELSE UNCHANGED <<sent, wrote, committed>>
    /\ Back
    /\ UNCHANGED <<wiring, routed, origin, panics, thrown, overwrote, telemetryVars>>

-----------------------------------------------------------------------------
(* RouteTag.                                                               *)

\* gin's and echo's, and one wired by hand, stamp before next.
RouteTag ==
    /\ Layer = "RouteTag" /\ wiring.adapter # "chi"
    /\ IF down THEN StampRoute(MatchedRoute) /\ Forward ELSE UNCHANGED <<labeler, span, warned>> /\ Back
    /\ UNCHANGED <<wiring, routed, panicVars, responseVars, active, instrumented, measured,
                   metricRoute>>

\* (slip) chi's stamps after next, without a defer.
ChiRouteTagAfter ==
    /\ Layer = "RouteTag" /\ wiring.adapter = "chi"
    /\ IF ~down /\ raised = "none" THEN StampRoute(MatchedRoute) ELSE UNCHANGED <<labeler, span, warned>>
    /\ IF down THEN Forward ELSE Back
    /\ UNCHANGED <<wiring, routed, panicVars, responseVars, active, instrumented, measured,
                   metricRoute>>

\* chi's stamps in a deferred call, once chi has routed.
ChiRouteTag ==
    /\ Layer = "RouteTag" /\ wiring.adapter = "chi"
    /\ IF down THEN UNCHANGED <<labeler, span, warned>> /\ Forward ELSE StampRoute(MatchedRoute) /\ Back
    /\ UNCHANGED <<wiring, routed, panicVars, responseVars, active, instrumented, measured,
                   metricRoute>>

-----------------------------------------------------------------------------
(* The application.                                                        *)

Respond(kind) ==
    /\ Layer \in App /\ raised = "none"
    /\ sent = "nothing" /\ kind \in Available
    /\ Begin(kind)
    /\ UNCHANGED <<wiring, routed, controlVars, panicVars, overwrote, telemetryVars>>

\* Middleware calls next; behind the last one the router calls the handler.
CallNext ==
    /\ Layer \in {"before", "after"} /\ down
    /\ Layer = "after" => wiring.matched
    /\ routed' = (routed \/ Layer = "after")
    /\ Forward
    /\ UNCHANGED <<wiring, panicVars, responseVars, telemetryVars>>

\* chi's router enters a mounted one that has no route for the request either.
EnterMount ==
    /\ Layer = "after" /\ down
    /\ wiring.adapter = "chi" /\ ~wiring.matched /\ wiring.std /\ ~routed
    /\ routed' = TRUE
    /\ UNCHANGED <<wiring, controlVars, panicVars, responseVars, telemetryVars>>

\* A layer returns, with or without having called next; or a panic unwinds it.
Return ==
    /\ Layer \in App
    /\ raised # "none" => ~down
    /\ Back
    /\ UNCHANGED <<wiring, routed, panicVars, responseVars, telemetryVars>>

Panic(p) ==
    /\ Layer \in App /\ raised = "none"
    /\ p = "error" => thrown < MaxPanics
    /\ raised' = p /\ origin' = Layer
    /\ thrown' = IF p = "error" THEN thrown + 1 ELSE thrown
    /\ Back
    /\ UNCHANGED <<wiring, routed, panics, consumed, responseVars, telemetryVars>>

-----------------------------------------------------------------------------
ChainNext ==
    /\ at > 0
    /\ \/ CountActive \/ StartSpan \/ EndSpan
       \/ PassRecovery \/ Recovery \/ AdapterRecovery \/ OwnRecovery
       \/ RouteTag \/ ChiRouteTag
       \/ CallNext \/ EnterMount \/ Return
       \/ \E kind \in Commits : Respond(kind)
       \/ \E p \in {"error", "abort"} : Panic(p)

ChainSpec == ChainInit /\ [][ChainNext]_chainVars

-----------------------------------------------------------------------------
Returned == at = 0

\* "A panic is counted exactly once on each" adapter (README): every error the
\* application panicked with is counted, consumed by a recovery that is not ours, or
\* still on its way; http.ErrAbortHandler is never counted.
PanicsAccounted ==
    thrown = Len(panics) + consumed + (IF raised = "error" THEN 1 ELSE 0)

\* A panic inside RouteTag is counted with the route of the request, on every adapter
\* and whichever layer catches it; one of a request that matched none has none, or that of
\* a mount that covers it.
PanicsCarryRoute ==
    \A i \in 1..Len(panics) :
        IF wiring.matched
        THEN panics[i].origin \in {"after", "handler"} /\ ~wiring.skip => panics[i].route # None
        ELSE panics[i].route \in {None, "mount"}

\* The span and the duration metric have the same http.route, and the span's name
\* shows it, be the router mounted under a mux or not.
SpanAgreesWithMetric ==
    Returned /\ measured =>
        /\ span.route = metricRoute
        /\ span.route # None => span.name.route = span.route

\* With recovery no error escapes; a request is measured unless it was skipped or a
\* panic escapes, its count comes down in every case, and a skipped path neither
\* makes a span nor warns about the labeler it lacks.
MeasuredUnlessSkipped ==
    Returned =>
        /\ measured <=> ~wiring.skip /\ raised = "none"
        /\ wiring.recovery => raised # "error"
        /\ active = 0
        /\ wiring.skip => span = None
        /\ ~warned

\* No status is written over a response that has begun: neither by nethttp.Recovery,
\* however it was begun, nor by gin's, nor over what went through echo's own writer.
NoStatusOverResponse ==
    /\ "Recovery" \notin overwrote
    /\ "AdapterRecovery" \in overwrote => wiring.adapter = "echo" /\ sent \in {"Flush", "Hijack"}

\* "A client cannot mint a span name per request" (stamp_test.go): StampRoute names
\* the span with the method as it came, and that of a router served at the root is
\* not named again before it is exported.
MethodsCollapse ==
    Returned /\ ~wiring.mounted /\ span # None => span.name.method # "raw"
=============================================================================
