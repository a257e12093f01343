--------------------------- MODULE TelemetryOptions ---------------------------
(***************************************************************************)
(* What Init makes of its Config and of the OTEL_ variables: the endpoint, *)
(* the transport of each signal and the sampling ratio                     *)
(* (telemetry-web/exporters.go; validEndpoint and resolveRatio of          *)
(* telemetry.go).                                                          *)
(*                                                                         *)
(* An endpoint is what the code asks of it, a ratio a number of percent or *)
(* NaN, and a variable's value is trimmed.                                 *)
(***************************************************************************)
EXTENDS Integers

CONSTANTS
    Unset,   \* an empty string, a nil SampleRatio
    NaN,     \* not a number
    Garbage  \* a sampler argument ParseFloat refuses

\* hasSep: it contains "://"; parses: url.Parse takes it; scheme: it begins with a
\* scheme and "://"; hostPort: net.SplitHostPort takes it.
Endpoints == [hasSep : BOOLEAN, parses : BOOLEAN, scheme : BOOLEAN, hostPort : BOOLEAN]

\* validEndpoint
ValidEndpoint(ep) ==
    \/ ep = Unset
    \/ IF ep.hasSep THEN ep.parses ELSE ep.hostPort

HasScheme(ep) == ep.parses /\ ep.scheme

\* endpointOpts: the option that passes the endpoint on, or the exporter's own
\* environment decides.
EndpointOpt(ep) ==
    IF ep = Unset THEN "none" ELSE IF HasScheme(ep) THEN "WithEndpointURL" ELSE "WithEndpoint"

\* resolveProtocol: the first of the two that is set decides; JSON is sent as protobuf
\* to the same HTTP endpoint, and anything unknown over gRPC.
ResolveProtocol(signal, generic) ==
    LET p == IF signal # Unset THEN signal ELSE generic
    IN  IF p \in {"http/protobuf", "http/json"} THEN "http/protobuf" ELSE "grpc"

\* newSpanProcessor and newMetricReader: [transport, endpoint option] of the exporter.
SpanExporter(cfg, env) ==
    <<ResolveProtocol(env.traces, env.generic), EndpointOpt(cfg.endpoint)>>

MetricExporter(cfg, env) ==
    <<ResolveProtocol(env.metrics, env.generic), EndpointOpt(cfg.endpoint)>>

\* (slip) The sampler argument is not checked for NaN.
ResolveRatioUnchecked(ratio, arg) ==
    CASE ratio = NaN -> 100
      [] ratio \notin {Unset, NaN} -> ratio
      [] ratio = Unset -> IF arg \in {Unset, Garbage} THEN 100 ELSE arg

\* resolveRatio: Config.SampleRatio, else OTEL_TRACES_SAMPLER_ARG, else every trace; a
\* number is passed on as it is.
ResolveRatio(ratio, arg) ==
    CASE ratio = NaN -> 100
      [] ratio \notin {Unset, NaN} -> ratio
      [] ratio = Unset -> IF arg \in {Unset, Garbage, NaN} THEN 100 ELSE arg

\* The share of new roots TraceIDRatioBased keeps (external): clamped, and none at all
\* for NaN, which passes both its bounds.
Kept(ratio) == IF ratio = NaN \/ ratio <= 0 THEN 0 ELSE IF ratio >= 100 THEN 100 ELSE ratio
=============================================================================
