------------------------- MODULE MCTelemetryLifecycle -------------------------
(* Instances of TelemetryLifecycle for TLC.                                *)
EXTENDS TelemetryLifecycle

Endpoint(hasSep, parses, scheme, hostPort) ==
    [hasSep |-> hasSep, parses |-> parses, scheme |-> scheme, hostPort |-> hostPort]

\* http://collector:4318, collector:4317, and a host without a port.
URLForm == Endpoint(TRUE, TRUE, TRUE, FALSE)
BareForm == Endpoint(FALSE, FALSE, FALSE, TRUE)
NoPort == Endpoint(FALSE, TRUE, FALSE, FALSE)

Cfg(provider, endpoint, ratio) == [provider |-> provider, endpoint |-> endpoint, ratio |-> ratio]
MCConfigs == {Cfg(None, URLForm, Unset), Cfg(None, Unset, NaN), Cfg(External, BareForm, 0),
              Cfg(NilPointer, Unset, Unset), Cfg(None, NoPort, 25)}

Vars(generic, traces, metrics, arg) ==
    [generic |-> generic, traces |-> traces, metrics |-> metrics, arg |-> arg]

\* A ratio alone; the per-signal variables against the generic one; values unknown or
\* without an encoder.
MCEnvs == {Vars(Unset, Unset, Unset, 0),
           Vars("http/protobuf", "grpc", Unset, NaN),
           Vars("thrift", "http/json", Unset, Garbage)}

MaxCalls == 3 \* calls a logger is derived by; those that change nothing, in chains of two
ChainsOf(calls, max) == UNION {[1 .. n -> calls] : n \in 0 .. max}
MCChains ==
    LET useful == {Group("request"), Attrs({"user"})} IN
    ChainsOf(useful, MaxCalls) \cup ChainsOf(useful \cup {Group(""), Attrs({})}, 2)
=============================================================================
