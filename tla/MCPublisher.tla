------------------------------ MODULE MCPublisher ------------------------------
(* Instances of Publisher for TLC.                                         *)
EXTENDS Publisher, TLC

CONSTANTS p1, p2, c1, c2, c3

Symmetric == Permutations(Publishers) \cup Permutations(Calls)

MCNames == {"widgets", "widgets__total", "widgets_total", "latency", "latency_count", "go_widgets"}
Plain(n) == IF n = "widgets__total" THEN "widgets_total" ELSE n
MCTranslated ==
    [t \in Types |-> [n \in MCNames |->
        IF t # "counter" THEN Plain(n)
        ELSE CASE Plain(n) \in {"widgets", "widgets_total"} -> "widgets_total"
               [] n = "latency" -> "latency_total"
               [] n = "latency_count" -> "latency_count_total"
               [] n = "go_widgets" -> "go_widgets_total"]]

M(name, typ) == [name |-> name, typ |-> typ]

\* Two names and two types that meet in one family, a name only the SDK refuses and one
\* of another component's namespace.
MCMetrics == {M("widgets", "counter"), M("widgets__total", "gauge"),
              M("latency_count", "counter"), M("go_widgets", "gauge")}

\* A histogram, and a gauge of a name the histogram is flattened into.
MCFlattened == {M("latency", "histogram"), M("latency_count", "gauge")}
MCMagic == {<<"latency_count", "latency">>}

\* The name, the OTLP block and the Prometheus block of Config.
Cfg(name, o, r, disabled) ==
    [name |-> name, otlp |-> o, registerer |-> r, disabled |-> disabled]
Given == [Blank EXCEPT !.endpoint = "a:4317", !.headers = [tenant |-> "t", auth |-> "x"]]

MCConfigs == {Cfg("op", {Given}, Unset, FALSE), Cfg("op", {}, Unset, TRUE),
              Cfg(Unset, {}, "own", FALSE)}
MCConfig == {Cfg("op", {}, Unset, FALSE)}

Vars(service, endpoint, protocol, headers) ==
    [service |-> service, endpoint |-> endpoint, protocol |-> protocol, headers |-> headers]
NoVars == Vars(Unset, Unset, Unset, Unset)

\* Nothing; a service name; one block of OTLP settings; headers with a malformed pair
\* and a repeated one.
MCEnvs == {NoVars,
           Vars("svc", Unset, "http/protobuf", <<<<"auth", "1">>, <<"bad">>, <<"auth", "2">>>>)}
MCEnv == {NoVars}
=============================================================================
