-------------------------- MODULE TelemetryOwnership --------------------------
(***************************************************************************)
(* What initMu, the initialized flag and the order of Init's and the       *)
(* shutdown's steps are for: the telemetry of the process has one owner at *)
(* a time.  Only the owner runs pipelines and writes the globals, and it   *)
(* gives them up with nothing of its own running or wired.  The one        *)
(* exception is another component, which may make its MeterProvider global *)
(* whenever it likes.                                                      *)
(***************************************************************************)
CONSTANTS Inits, External, Default, Noop, None

VARIABLES
    owners,       \* the Init that owns the telemetry, if there is one
    running,      \* the Inits that have a live provider
    tracer, meter, serviceName

globals == <<tracer, meter, serviceName>>
vars == <<owners, running, globals>>

Init ==
    /\ owners = {} /\ running = {}
    /\ tracer = Default /\ meter = Default /\ serviceName = None

Take(g) ==
    /\ owners = {} /\ owners' = {g}
    /\ UNCHANGED <<running, globals>>

\* The owner starts and stops its pipelines, puts itself where the globals are or takes
\* itself out of them.
Write(g) ==
    /\ owners = {g} /\ UNCHANGED owners
    /\ running' \subseteq {g}
    /\ tracer' \in {tracer, g, Noop}
    /\ meter' \in {meter, g, External, Noop}
    /\ serviceName' \in {serviceName, g, None}

GiveUp(g) ==
    /\ owners = {g} /\ owners' = {}
    /\ running' = {}
    /\ tracer' \in {tracer, Noop} /\ meter' \in {meter, Noop} /\ serviceName' \in {serviceName, None}
    /\ g \notin {tracer', meter', serviceName'}

Interfere ==
    /\ meter' = External
    /\ UNCHANGED <<owners, running, tracer, serviceName>>

Next == Interfere \/ \E g \in Inits : Take(g) \/ Write(g) \/ GiveUp(g)

Spec == Init /\ [][Next]_vars
=============================================================================
