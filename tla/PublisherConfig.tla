---------------------------- MODULE PublisherConfig ----------------------------
(***************************************************************************)
(* How publisher.New turns the Config it is given and the environment into *)
(* the settings it runs with (observability/pkg/publisher/config.go).      *)
(*                                                                         *)
(* New gets Config by value but Config.OTLP is a pointer: the defaults and *)
(* the environment are written through it, into the block the caller still *)
(* holds, and no lock is held.  Config.Prometheus is copied first.  A      *)
(* pointer to a block is the set of what it points to, empty for nil.      *)
(***************************************************************************)
EXTENDS Naturals, Sequences, FiniteSetsExt

CONSTANTS
    Ctrl,  \* controller-runtime's registry
    Unset, \* an empty string, a zero duration, an unset variable
    Nil    \* no registry, no settings

\* OTLPConfig as Config.OTLP points to it; Headers are a function.  rest stands for
\* Timeout, Interval and Compression, which only the defaults touch.
Blank == [endpoint |-> Unset, protocol |-> Unset, headers |-> <<>>, rest |-> Unset]

Otherwise(v, default) == IF v = Unset THEN default ELSE v

\* applyOTLPDefaults, by what it found in the protocol; the other defaults are the same
\* for every New.
FillDefaults(o, blank) == [o EXCEPT !.protocol = IF blank THEN "grpc" ELSE @,
                                    !.rest = Otherwise(@, "default")]
OTLPDefaults(o) == FillDefaults(o, o.protocol = Unset)

\* applyDefaults, on what New has of its own: the Prometheus block is a copy, absent
\* when the reader is disabled.
ApplyDefaults(cfg) ==
    [cfg EXCEPT !.registerer = IF cfg.disabled THEN Nil ELSE Otherwise(@, Ctrl)]

\* parseHeaders: a pair without "=" is skipped, of two pairs of one key the last wins.
ParseHeaders(pairs) ==
    LET whole == {i \in DOMAIN pairs : Len(pairs[i]) = 2}
        of(k) == {i \in whole : pairs[i][1] = k}
    IN  [k \in {pairs[i][1] : i \in whole} |-> pairs[Max(of(k))][2]]

NamesOTLP(env) == <<env.endpoint, env.protocol, env.headers>> # <<Unset, Unset, Unset>>

\* The headers with those of h written over them.
Onto(headers, h) ==
    [k \in DOMAIN headers \cup DOMAIN h |-> IF k \in DOMAIN h THEN h[k] ELSE headers[k]]

\* (slip) The caller's header is kept where the environment has one of its name.
OverrideKeepingHeaders(o, env) ==
    [o EXCEPT !.endpoint = Otherwise(env.endpoint, @),
              !.protocol = Otherwise(@, env.protocol),
              !.headers = IF env.headers = Unset THEN @ ELSE Onto(ParseHeaders(env.headers), @)]

\* What each OTEL_EXPORTER_OTLP_ variable that is set writes into the block.
Override(o, env) ==
    [o EXCEPT !.endpoint = Otherwise(env.endpoint, @),
              !.protocol = Otherwise(env.protocol, @),
              !.headers = IF env.headers = Unset THEN @ ELSE Onto(@, ParseHeaders(env.headers))]

\* The block applyEnvOverrides makes when the caller gave none.
Fresh(cfg, env) ==
    IF cfg.otlp = {} /\ NamesOTLP(env) THEN {Override(OTLPDefaults(Blank), env)} ELSE {}

\* What a New has of its own once it is configured: otlp is its own block, empty where
\* it works on the caller's.
Settings(cfg, env) ==
    [ApplyDefaults(cfg) EXCEPT !.name = Otherwise(env.service, @), !.otlp = Fresh(cfg, env)]
=============================================================================
