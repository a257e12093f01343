------------------------------- MODULE Publisher -------------------------------
(***************************************************************************)
(* publisher.New and Shutdown, and the custom metrics registered on the    *)
(* Publisher New returns, over the Prometheus registries of the process    *)
(* (observability/pkg/publisher: publisher.go, exporters.go, dedup.go,     *)
(* custom.go; pkg/naming).                                                 *)
(*                                                                         *)
(* Every call of New gets the same Config, and makes one Publisher; News,  *)
(* calls of Counter, Gauge and Histogram and the gathers of the OTLP       *)
(* readers run concurrently.                                               *)
(* Other components register client_golang collectors on the registries.   *)
(*                                                                         *)
(* A Prometheus reader is an unchecked collector: a registry takes any     *)
(* number of them, and asks each for its families when it is gathered.  A  *)
(* checked collector is refused if its family is registered, or ever was   *)
(* under another help text (external: client_golang keeps that on          *)
(* Unregister).                                                            *)
(***************************************************************************)
EXTENDS PublisherConfig, FiniteSets

CONSTANTS
    Publishers, \* calls of New, and the Publisher each returns
    Calls,      \* calls of Counter, Gauge and Histogram, one registration each
    Registries, \* Ctrl and the caller's own
    Names,      \* metric names
    Legal,      \* those ValidateMetricName accepts
    TooLong,    \* those the SDK refuses: more than 255 bytes
    Metrics,    \* the registrations: [name, typ]
    Translated, \* the family the reader serves a metric of that type and name as
    Foreign,    \* families other components may register
    Magic,      \* <<f, h>>: f is family h with _count, _sum or _bucket appended
    Configs,    \* what Config and ...
    Envs,       \* ... the environment may be
    None

Types == {"counter", "gauge", "histogram"}
Families == Names \cup {Translated[t][n] : t \in Types, n \in Names} \cup Foreign

ASSUME PublisherAssumption ==
    /\ Ctrl \in Registries
    /\ Legal \subseteq Names
    /\ Metrics \subseteq [name : Names, typ : Types]
    /\ Translated \in [Types -> [Names -> Families]]
    /\ None \notin Publishers \cup Calls \cup Registries \cup Names
    /\ Nil \notin Registries
    /\ Unset # "grpc"
    /\ \A cfg \in Configs :
          /\ DOMAIN cfg = {"name", "otlp", "registerer", "disabled"}
          /\ cfg.registerer \in Registries \cup {Unset}
          /\ \A o \in cfg.otlp : DOMAIN o = DOMAIN Blank /\ cfg.otlp = {o}

VARIABLES
    config,   \* the Config the caller holds
    env,      \* the OTEL_ variables
    new,      \* where each New is
    settings, \* the Config each New has of its own
    blank,    \* the News that found no protocol in the caller's OTLP block
    overlapped, \* (history) those configured while another wrote the same block
    claimed,  \* ctrlRegistryClaimed
    reader,   \* the registry the Prometheus reader of each is on
    otlp,     \* the transport of the OTLP reader of each
    filtered, \* whether its bridge leaves out the Publisher's own families
    base,     \* the first of the two gathers of such a bridge, until the second; or Nil
    global,   \* otel.GetMeterProvider(): whose, or None
    probes,   \* the families probed for on each registry right now
    probed,   \* the families ever probed for on it
    others,   \* the families other components have on it
    owners,   \* CustomMetrics.names
    mu,       \* CustomMetrics.mu: the call that holds it
    call      \* [pc, pub, metric] of each call

newVars == <<config, env, new, settings, blank, overlapped, claimed, reader, otlp, filtered,
             global, base>>
registryVars == <<probes, probed, others>>
customVars == <<owners, mu, call>>
pubVars == <<newVars, registryVars, customVars>>

NoMetric == [name |-> None, typ |-> None]

PublisherTypeOK ==
    /\ new \in [Publishers -> {"new", "defaults", "env", "prometheus", "exporter", "otlp",
                              "up", "shut", "failed"}]
    /\ blank \subseteq Publishers
    /\ overlapped \subseteq Publishers
    /\ claimed \in BOOLEAN
    /\ reader \in [Publishers -> Registries \cup {None}]
    /\ otlp \in [Publishers -> {"grpc", "http", None}]
    /\ filtered \in [Publishers -> BOOLEAN]
    /\ global \in Publishers \cup {None}
    /\ base \in [Publishers -> (SUBSET Families) \cup {Nil}]
    /\ probes \in [Registries -> SUBSET Families]
    /\ probed \in [Registries -> SUBSET Families]
    /\ others \in [Registries -> SUBSET Families]
    /\ owners \in [Publishers -> [Families -> Names \cup {None}]]
    /\ mu \in [Publishers -> Calls \cup {None}]
    /\ call \in [Calls -> [pc : {"idle", "reserve", "probed", "create", "release",
                                 "created", "refused"},
                           pub : Publishers \cup {None},
                           metric : Metrics \cup {NoMetric}]]

PublisherInit ==
    /\ config \in Configs /\ env \in Envs
    /\ new = [p \in Publishers |-> "new"]
    /\ settings = [p \in Publishers |-> Nil]
    /\ blank = {} /\ overlapped = {}
    /\ claimed = FALSE
    /\ reader = [p \in Publishers |-> None]
    /\ otlp = [p \in Publishers |-> None]
    /\ filtered = [p \in Publishers |-> FALSE]
    /\ global = None
    /\ base = [p \in Publishers |-> Nil]
    /\ probes = [r \in Registries |-> {}]
    /\ probed = [r \in Registries |-> {}]
    /\ others = [r \in Registries |-> {}]
    /\ owners = [p \in Publishers |-> [f \in Families |-> None]]
    /\ mu = [p \in Publishers |-> None]
    /\ call = [c \in Calls |-> [pc |-> "idle", pub |-> None, metric |-> NoMetric]]

-----------------------------------------------------------------------------
(* New                                                                     *)

NewAt(p, where) == new' = [new EXCEPT ![p] = where]

\* The News between their first look at the caller's OTLP block and their last write.
Configuring == {p \in Publishers : new[p] \in {"defaults", "env"}}

\* applyDefaults looks at the protocol through the caller's pointer ...
FindProtocol(p) ==
    /\ new[p] = "new"
    /\ blank' = IF \E o \in config.otlp : o.protocol = Unset THEN blank \cup {p} ELSE blank
    /\ overlapped' = IF config.otlp = {} \/ Configuring = {} THEN overlapped
                     ELSE overlapped \cup Configuring \cup {p}
    /\ NewAt(p, "defaults")
    /\ UNCHANGED <<config, env, settings, claimed, reader, otlp, filtered, global, base,
                   registryVars, customVars>>

\* ... and writes the default if there was none, whatever is there by now ...
WriteDefaults(p) ==
    /\ new[p] = "defaults"
    /\ config' = [config EXCEPT !.otlp = {FillDefaults(o, p \in blank) : o \in @}]
    /\ NewAt(p, "env")
    /\ UNCHANGED <<env, settings, blank, overlapped, claimed, reader, otlp, filtered, global,
                   base, registryVars, customVars>>

\* ... then the environment's settings are written over it, whatever comes of the New,
\* and the defaults once more; without an operator name or a host name New fails.  Two
\* News that write the headers at once may end the process: it goes no further.  A
\* torn protocol is no HTTP one, and so as good as the default.
WriteEnv(p) ==
    /\ new[p] = "env"
    /\ config' = [config EXCEPT !.otlp = {OTLPDefaults(Override(o, env)) : o \in @}]
    /\ settings' = [settings EXCEPT ![p] = Settings(config, env)]
    /\ blank' = blank \ {p}
    /\ \/ settings'[p].name # Unset /\ NewAt(p, "prometheus")
       \/ NewAt(p, "failed")
    /\ UNCHANGED <<env, overlapped, claimed, reader, otlp, filtered, global, base,
                   registryVars, customVars>>

\* The OTLP block a configured New reads.
Block(p) == IF config.otlp # {} THEN config.otlp ELSE settings[p].otlp

Target(p) == settings[p].registerer

\* (slip) The claim is stored, not swapped in.
ClaimUnchecked(p) ==
    /\ new[p] = "prometheus"
    /\ IF Target(p) = Nil
       THEN NewAt(p, "otlp") /\ UNCHANGED claimed
       ELSE NewAt(p, "exporter") /\ claimed' = (claimed \/ Target(p) = Ctrl)
    /\ UNCHANGED <<config, env, settings, blank, overlapped, reader, otlp, filtered, global,
                   base, registryVars, customVars>>

\* buildPrometheusReader claims controller-runtime's registry, or New goes on without
\* a reader; a registry of the caller's own needs no claim.
Claim(p) ==
    /\ new[p] = "prometheus"
    /\ IF Target(p) = Nil \/ (Target(p) = Ctrl /\ claimed)
       THEN NewAt(p, "otlp") /\ UNCHANGED claimed
       ELSE NewAt(p, "exporter") /\ claimed' = (claimed \/ Target(p) = Ctrl)
    /\ UNCHANGED <<config, env, settings, blank, overlapped, reader, otlp, filtered, global,
                   base, registryVars, customVars>>

\* prometheusexporter.New registers the reader's collector ...
ExporterBuilt(p) ==
    /\ new[p] = "exporter"
    /\ reader' = [reader EXCEPT ![p] = Target(p)]
    /\ NewAt(p, "otlp")
    /\ UNCHANGED <<config, env, settings, blank, overlapped, claimed, otlp, filtered, global,
                   base, registryVars, customVars>>

\* (slip) The claim is kept.
ExporterFailsClaimed(p) ==
    /\ new[p] = "exporter"
    /\ NewAt(p, "otlp")
    /\ UNCHANGED <<config, env, settings, blank, overlapped, claimed, reader, otlp, filtered,
                   global, base, registryVars, customVars>>

\* ... or fails, and the claim is given back.
ExporterFails(p) ==
    /\ new[p] = "exporter"
    /\ claimed' = (claimed /\ Target(p) # Ctrl)
    /\ NewAt(p, "otlp")
    /\ UNCHANGED <<config, env, settings, blank, overlapped, reader, otlp, filtered, global,
                   base, registryVars, customVars>>

\* (slip) The filter is built whenever there is a Prometheus reader.
FiltersOwnAnywhere(p) == reader[p] # None

\* bridgeGathererFor: the bridge reads controller-runtime's registry, without the
\* families of a reader that writes to it.
FiltersOwn(p) == reader[p] = Ctrl

\* buildOTLPReader: any protocol but the one of HTTP is gRPC.
Transport(o) == IF o.protocol = "http/protobuf" THEN "http" ELSE "grpc"

\* It succeeds or fails, then the provider is made the global one.
Return(p) ==
    /\ new[p] = "otlp"
    /\ otlp' \in {[otlp EXCEPT ![p] = t] :
                     t \in {None} \cup {Transport(o) : o \in Block(p)}}
    /\ filtered' = [filtered EXCEPT ![p] = otlp'[p] # None /\ FiltersOwn(p)]
    /\ global' = p
    /\ NewAt(p, "up")
    /\ UNCHANGED <<config, env, settings, blank, overlapped, claimed, reader, base,
                   registryVars, customVars>>

\* Shutdown stops the readers; the collector stays registered and serves nothing more,
\* and the claim stays made.
Shutdown(p) ==
    /\ new[p] = "up"
    /\ NewAt(p, "shut")
    /\ UNCHANGED <<config, env, settings, blank, overlapped, claimed, reader, otlp, filtered,
                   global, base, registryVars, customVars>>

-----------------------------------------------------------------------------
(* Counter, Gauge and Histogram                                            *)

\* promNamer.Build: a counter gets its suffix, and underscores are collapsed in every
\* name.
PromName(m) == Translated[m.typ][m.name]

\* (slip) Only the name passed is reserved.
NameOnly(m) == {m.name}

\* keysFor
KeysFor(m) == {m.name, PromName(m)}

CallAt(c, where) == call' = [call EXCEPT ![c].pc = where]
CallEnds(c) == call' = [call EXCEPT ![c] = [pc |-> "refused", pub |-> None, metric |-> NoMetric]]
At(c, where) == call[c].pc = where

Refused(p, m) == \E k \in KeysFor(m) : owners[p][k] # None

Own(p, m) == owners' = [owners EXCEPT ![p] = [f \in Families |->
                            IF f \in KeysFor(m) THEN m.name ELSE owners[p][f]]]

\* A call for metric m on a Publisher that New has returned; the name is validated.
Register(c, p, m) ==
    /\ At(c, "idle")
    /\ new[p] \in {"up", "shut"}
    /\ IF m.name \in Legal
       THEN call' = [call EXCEPT ![c] = [pc |-> "reserve", pub |-> p, metric |-> m]]
       ELSE CallEnds(c)
    /\ UNCHANGED <<newVars, registryVars, owners, mu>>

\* reserve, under mu: a key that has an owner refuses the metric.
NameTaken(c) ==
    LET p == call[c].pub IN
    /\ At(c, "reserve") /\ mu[p] = None
    /\ Refused(p, call[c].metric)
    /\ CallEnds(c)
    /\ UNCHANGED <<newVars, registryVars, owners, mu>>

\* Without a Prometheus reader (CustomMetrics.reg is nil) the keys are claimed.
ReserveUnprobed(c) ==
    LET p == call[c].pub
        m == call[c].metric
    IN
    /\ At(c, "reserve") /\ mu[p] = None
    /\ ~Refused(p, m)
    /\ reader[p] = None
    /\ Own(p, m)
    /\ CallAt(c, "create")
    /\ UNCHANGED <<newVars, registryVars, mu>>

OnRegistry(r, f) == f \in probes[r] \cup others[r]

\* claimedOn: the probe is refused, and the metric with it ...
ProbeRefused(c) ==
    LET p == call[c].pub
        m == call[c].metric
    IN
    /\ At(c, "reserve") /\ mu[p] = None
    /\ ~Refused(p, m)
    /\ reader[p] # None
    /\ OnRegistry(reader[p], PromName(m))
    /\ CallEnds(c)
    /\ UNCHANGED <<newVars, registryVars, owners, mu>>

\* ... or taken, mu still held ...
Probe(c) ==
    LET p == call[c].pub
        m == call[c].metric
        r == reader[p]
    IN
    /\ At(c, "reserve") /\ mu[p] = None
    /\ ~Refused(p, m)
    /\ r # None
    /\ ~OnRegistry(r, PromName(m))
    /\ probes' = [probes EXCEPT ![r] = @ \cup {PromName(m)}]
    /\ probed' = [probed EXCEPT ![r] = @ \cup {PromName(m)}]
    /\ mu' = [mu EXCEPT ![p] = c]
    /\ CallAt(c, "probed")
    /\ UNCHANGED <<newVars, others, owners>>

\* (slip) The probe stays on the registry.
ReserveProbeStays(c) ==
    LET p == call[c].pub IN
    /\ At(c, "probed")
    /\ Own(p, call[c].metric)
    /\ mu' = [mu EXCEPT ![p] = None]
    /\ CallAt(c, "create")
    /\ UNCHANGED <<newVars, registryVars>>

\* ... and taken off again; then the keys are claimed and mu unlocked.
Reserve(c) ==
    LET p == call[c].pub
        m == call[c].metric
        r == reader[p]
    IN
    /\ At(c, "probed")
    /\ probes' = [probes EXCEPT ![r] = @ \ {PromName(m)}]
    /\ Own(p, m)
    /\ mu' = [mu EXCEPT ![p] = None]
    /\ CallAt(c, "create")
    /\ UNCHANGED <<newVars, probed, others>>

\* The SDK creates the instrument ...
Create(c) ==
    /\ At(c, "create")
    /\ CallAt(c, IF call[c].metric.name \in TooLong THEN "release" ELSE "created")
    /\ UNCHANGED <<newVars, registryVars, owners, mu>>

\* (slip) Only the name passed is released.
ReleaseNameOnly(c) ==
    LET p == call[c].pub IN
    /\ At(c, "release") /\ mu[p] = None
    /\ owners' = [owners EXCEPT ![p][call[c].metric.name] = None]
    /\ CallEnds(c)
    /\ UNCHANGED <<newVars, registryVars, mu>>

\* ... or refuses its name, and the keys are released.
Release(c) ==
    LET p == call[c].pub IN
    /\ At(c, "release") /\ mu[p] = None
    /\ owners' = [owners EXCEPT ![p] = [f \in Families |->
                      IF f \in KeysFor(call[c].metric) THEN None ELSE owners[p][f]]]
    /\ CallEnds(c)
    /\ UNCHANGED <<newVars, registryVars, mu>>

-----------------------------------------------------------------------------
\* Another component registers a collector (external).
OtherRegisters(r, f) ==
    /\ f \notin others[r]
    /\ f \notin probed[r]
    /\ others' = [others EXCEPT ![r] = @ \cup {f}]
    /\ UNCHANGED <<newVars, probes, probed, customVars>>

-----------------------------------------------------------------------------
(* The bridge of the OTLP reader                                           *)

Family(c) == PromName(call[c].metric)

\* The instruments on a Prometheus reader that is on registry r.
ServedOn(r) == {c \in Calls : At(c, "created") /\ reader[call[c].pub] = r}

\* The families a Publisher's reader serves until it is shut down.
Serves(p) == IF new[p] = "up"
             THEN {Family(c) : c \in {d \in Calls : At(d, "created") /\ call[d].pub = p}}
             ELSE {}

\* What a gather of controller-runtime's registry finds: other components' collectors,
\* whatever probe is on it, and what its readers serve.
Gathered == others[Ctrl] \cup probes[Ctrl] \cup
            UNION {Serves(p) : p \in {q \in Publishers : reader[q] = Ctrl}}

\* exceptGatherer gathers that registry ...
GatherBase(p) ==
    /\ filtered[p] /\ base[p] = Nil
    /\ base' = [base EXCEPT ![p] = Gathered]
    /\ UNCHANGED <<config, env, new, settings, blank, overlapped, claimed, reader, otlp,
                   filtered, global, registryVars, customVars>>

\* ... then asks the Publisher's own reader once more, alone, and hands on what is left;
\* nothing if either fails.
GatherOwn(p) ==
    /\ base[p] # Nil
    /\ base' = [base EXCEPT ![p] = Nil]
    /\ UNCHANGED <<config, env, new, settings, blank, overlapped, claimed, reader, otlp,
                   filtered, global, registryVars, customVars>>

\* What the bridge of p hands on if its gather is done, or finishes, now: without the
\* filter the registry's own gather is all there is.
Whole(p) == IF filtered[p] THEN base[p] ELSE Gathered
Bridged(p) == IF filtered[p] THEN base[p] \ Serves(p) ELSE Gathered

NewStep(p) ==
    \/ FindProtocol(p) \/ WriteDefaults(p) \/ WriteEnv(p)
    \/ Claim(p) \/ ExporterBuilt(p) \/ ExporterFails(p) \/ Return(p)

BridgeStep(p) == GatherBase(p) \/ GatherOwn(p)

CallStep(c) ==
    \/ NameTaken(c) \/ ReserveUnprobed(c) \/ ProbeRefused(c) \/ Probe(c) \/ Reserve(c)
    \/ Create(c) \/ Release(c)

PublisherNext ==
    \/ \E p \in Publishers : NewStep(p) \/ Shutdown(p) \/ BridgeStep(p)
    \/ \E c \in Calls :
          \/ CallStep(c)
          \/ \E p \in Publishers, m \in Metrics : Register(c, p, m)
    \/ \E r \in Registries, f \in Foreign : OtherRegisters(r, f)

PublisherSpec == PublisherInit /\ [][PublisherNext]_pubVars
-----------------------------------------------------------------------------
\* /metrics gathers: on controller-runtime's registry no family has two sources, be
\* they two instruments of one Publisher or of two, under whatever names and types
\* they were registered, or an instrument and another component's collector that is
\* registered before, during or after.
OneSourceEach ==
    \A c \in ServedOn(Ctrl) :
        /\ Family(c) \notin others[Ctrl]
        /\ \A d \in ServedOn(Ctrl) : Family(c) = Family(d) => c = d

\* The registrations that have their family on registry r, served or not yet.
TakenOn(r) ==
    {c \in Calls : call[c].pc \in {"create", "release", "created"} /\ reader[call[c].pub] = r}

Sources ==
    INSTANCE FamilySources
    WITH held <- {<<Family(c), c>> : c \in TakenOn(Ctrl)},
         served <- ServedOn(Ctrl),
         others <- others[Ctrl]

\* Reserving names under a mutex of each Publisher's own, probing a registry others use
\* and claiming that registry come to one test-and-set per family: it is taken at one
\* instant, only when nobody has it, and nobody else gets it until it is given back.
ImplementsFamilySources == Sources!Spec

\* The calls on p that have reserved their keys and not given them back.
Holders(p) == {c \in Calls : call[c].pub = p /\ call[c].pc \in {"create", "release", "created"}}

\* Every reserved key belongs to exactly one registration that is under way or has its
\* instrument: one the SDK refused leaves no key behind and frees nobody else's.
ReservationsBacked ==
    \A p \in Publishers :
        /\ \A k \in Families :
              owners[p][k] # None <=> \E c \in Holders(p) : k \in KeysFor(call[c].metric)
        /\ \A c, d \in Holders(p) :
              KeysFor(call[c].metric) \cap KeysFor(call[d].metric) # {} => c = d

\* A probe is on a registry only while the registration it stands for looks, under
\* the mutex, and the mutex is held by nobody else: no path of reserve leaves either
\* behind.
NoProbeStays ==
    /\ \A r \in Registries : \A f \in probes[r] :
          \E c \in Calls : /\ At(c, "probed") /\ Family(c) = f
                           /\ reader[call[c].pub] = r /\ mu[call[c].pub] = c
    /\ \A p \in Publishers : mu[p] # None => At(mu[p], "probed") /\ call[mu[p]].pub = p

\* The Publishers that have, or are building, a reader on controller-runtime's registry.
OnCtrl == {p \in Publishers : \/ reader[p] = Ctrl
                              \/ new[p] = "exporter" /\ Target(p) = Ctrl}

\* controller-runtime's registry has one reader at most, and is claimed exactly while
\* there is one or one is being built: what fails gives the claim back.
ClaimHasReader ==
    /\ claimed <=> OnCtrl # {}
    /\ \A p, q \in OnCtrl : p = q

\* While a Publisher is up, its bridge never hands on a family its own reader serves on
\* controller-runtime's registry, which goes out natively; and it leaves out nothing
\* else: not another component's family, whatever its own reader serves on another
\* registry under that name, and not that of another Publisher's reader.  Once it is
\* shut its families are let through if they were gathered before.
OnlyOwnLeftOut ==
    \A p \in Publishers : otlp[p] # None /\ (filtered[p] => base[p] # Nil) =>
        LET own == {Family(c) : c \in {d \in ServedOn(Ctrl) : call[d].pub = p}} IN
        /\ new[p] = "up" => own \cap Bridged(p) = {}
        /\ Whole(p) \ Bridged(p) \subseteq own
        /\ Whole(p) \cap others[Ctrl] \subseteq Bridged(p)

\* Every New reads what the environment says where it says something, although the
\* defaults are written first, and although every other New writes through the OTLP
\* pointer they share; and a New that no other ran beside until it was configured
\* exports over the transport its block names from then on.  (One that did overlap may
\* read the default another was late to write.)
EnvironmentWins ==
    \A p \in Publishers : settings[p] # Nil =>
        /\ env.service # Unset => settings[p].name = env.service
        /\ NamesOTLP(env) => Block(p) # {}
        /\ \A o \in Block(p) :
              /\ o.endpoint = Otherwise(env.endpoint, o.endpoint)
              /\ env.headers # Unset =>
                    \A k \in DOMAIN ParseHeaders(env.headers) :
                        o.headers[k] = ParseHeaders(env.headers)[k]
              /\ p \notin overlapped =>
                    /\ o.protocol = Otherwise(env.protocol, o.protocol)
                    /\ otlp[p] # None => otlp[p] = Transport(o)

\* What custom.go says reserve is for: the metrics it accepts leave the registry fit to
\* gather.  A histogram also takes the names it is flattened into.
MetricsServable ==
    \A c, d \in ServedOn(Ctrl) :
        call[c].metric.typ = "histogram" => <<Family(d), Family(c)>> \notin Magic
=============================================================================
