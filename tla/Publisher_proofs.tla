--------------------------- MODULE Publisher_proofs ---------------------------
(***************************************************************************)
(* The safety of Publisher for any number of Publishers, registrations,    *)
(* registries and names.  PublisherInv is inductive, and so, beside it, is *)
(* ConfigInv, for the configuration; the properties follow from them.      *)
(***************************************************************************)
EXTENDS Publisher, TLAPS

\* A call under way is on a Publisher that New has returned.
CallsOnPublishers ==
    \A c \in Calls : call[c].pc \notin {"idle", "refused"} =>
        /\ call[c].pub \in Publishers
        /\ call[c].metric \in Metrics
        /\ new[call[c].pub] \in {"up", "shut"}

\* What the settings and the readers of a New are at each of its steps.
NewInOrder ==
    /\ DOMAIN config = {"name", "otlp", "registerer", "disabled"}
    /\ config.registerer \in Registries \cup {Unset}
    /\ DOMAIN settings = Publishers
    /\ \A p \in Publishers :
          /\ new[p] = "prometheus" => Target(p) \in Registries \cup {Nil}
          /\ new[p] = "exporter" => Target(p) \in Registries
          /\ reader[p] # None => new[p] \in {"otlp", "up", "shut"}
          /\ otlp[p] # None => /\ new[p] \in {"up", "shut"}
                               /\ filtered[p] = (reader[p] = Ctrl)
          /\ filtered[p] => reader[p] = Ctrl

\* A registration that looks holds mu, its probe is on the registry, alone for its
\* family, and its keys are still free.
ProbesStand ==
    /\ \A c \in Calls : At(c, "probed") =>
          /\ mu[call[c].pub] = c
          /\ reader[call[c].pub] # None
          /\ Family(c) \in probes[reader[call[c].pub]]
          /\ ~Refused(call[c].pub, call[c].metric)
    /\ \A c, d \in Calls :
          /\ At(c, "probed") /\ At(d, "probed")
          /\ reader[call[c].pub] = reader[call[d].pub] /\ Family(c) = Family(d)
          => c = d

\* A family that was ever probed for is closed to other components, and that of every
\* registration that has its keys was.
ProbedIsClosed ==
    /\ \A r \in Registries : probes[r] \subseteq probed[r] /\ probed[r] \cap others[r] = {}
    /\ \A p \in Publishers : \A c \in Holders(p) :
          reader[p] # None => Family(c) \in probed[reader[p]]

PublisherInv ==
    /\ PublisherTypeOK
    /\ NewInOrder
    /\ CallsOnPublishers
    /\ ClaimHasReader
    /\ NoProbeStays
    /\ ProbesStand
    /\ ProbedIsClosed
    /\ ReservationsBacked
-----------------------------------------------------------------------------
(* Lemmas                                                                  *)

\* The keys of a metric are families, and its own family is one of them.
LEMMA MetricKeys ==
    ASSUME NEW m \in Metrics
    PROVE  /\ m.name \in Names /\ m.name # None
           /\ PromName(m) \in Families
           /\ KeysFor(m) \subseteq Families
           /\ m.name \in KeysFor(m) /\ PromName(m) \in KeysFor(m)
BY PublisherAssumption DEF Families, PromName, KeysFor, Types

\* No registry is the absent one.
LEMMA RegistriesReal == Ctrl # None /\ \A r \in Registries : r # None /\ r # Nil
BY PublisherAssumption

\* New decides the registry from the Prometheus block alone.
LEMMA SettingsRegistry ==
    ASSUME NEW cfg, NEW e,
           DOMAIN cfg = {"name", "otlp", "registerer", "disabled"},
           cfg.registerer \in Registries \cup {Unset}
    PROVE  Settings(cfg, e).registerer \in Registries \cup {Nil}
BY PublisherAssumption DEF Settings, ApplyDefaults, Otherwise

\* Init establishes the invariant.
LEMMA PublisherInitInv == PublisherInit => PublisherInv
<1> SUFFICES ASSUME PublisherInit PROVE PublisherInv
    OBVIOUS
<1>1. PublisherTypeOK
    BY PublisherAssumption DEF PublisherInit, PublisherTypeOK
<1>2. NewInOrder
    BY PublisherAssumption DEF PublisherInit, NewInOrder
<1>3. CallsOnPublishers /\ NoProbeStays /\ ProbesStand /\ ProbedIsClosed /\ ReservationsBacked
    BY DEF PublisherInit, CallsOnPublishers, NoProbeStays, ProbesStand, ProbedIsClosed,
           ReservationsBacked, Holders, At
<1>4. ClaimHasReader
    BY PublisherAssumption DEF PublisherInit, ClaimHasReader, OnCtrl
<1> QED BY <1>1, <1>2, <1>3, <1>4 DEF PublisherInv

\* A step of a New or a Shutdown leaves the registrations' part of the invariant alone:
\* it moves no reader of a Publisher they can be on.
LEMMA NewFrame ==
    ASSUME PublisherInv, UNCHANGED <<registryVars, customVars>>,
           \A q \in Publishers : new[q] \in {"up", "shut"} =>
                reader'[q] = reader[q] /\ new'[q] \in {"up", "shut"}
    PROVE  /\ CallsOnPublishers' /\ NoProbeStays' /\ ProbesStand'
           /\ ProbedIsClosed' /\ ReservationsBacked'
<1> USE DEF PublisherInv, registryVars, customVars
<1>1. CallsOnPublishers'
    BY DEF CallsOnPublishers
<1>2. \A c \in Calls : At(c, "probed") => reader'[call[c].pub] = reader[call[c].pub]
    BY DEF CallsOnPublishers, At
<1>3. NoProbeStays'
    BY <1>2 DEF NoProbeStays, At, Family, PromName
<1>4. ProbesStand'
    BY <1>2 DEF ProbesStand, At, Family, PromName, Refused, KeysFor
<1>5. \A p \in Publishers : \A c \in Holders(p) : reader'[p] = reader[p]
    BY DEF CallsOnPublishers, Holders
<1>6. ProbedIsClosed'
    BY <1>5 DEF ProbedIsClosed, Holders, Family, PromName
<1>7. ReservationsBacked'
    BY DEF ReservationsBacked, Holders, KeysFor, PromName
<1> QED BY <1>1, <1>3, <1>4, <1>6, <1>7

-----------------------------------------------------------------------------
(* New and Shutdown                                                        *)

\* FindProtocol preserves the invariant.
LEMMA FindProtocolInv ==
    ASSUME PublisherInv, NEW p \in Publishers, FindProtocol(p) PROVE PublisherInv'
<1> USE DEF FindProtocol, NewAt, PublisherInv
<1>1. PublisherTypeOK'
    BY DEF PublisherTypeOK, registryVars, customVars, Configuring
<1>2. NewInOrder'
    BY DEF NewInOrder, PublisherTypeOK, Target
<1>3. ClaimHasReader'
    <2>1. \A q \in Publishers : q \in OnCtrl' <=> q \in OnCtrl
        BY DEF PublisherTypeOK, OnCtrl, Target
    <2> QED BY <2>1 DEF ClaimHasReader, OnCtrl
<1>4. \A q \in Publishers : new[q] \in {"up", "shut"} =>
          reader'[q] = reader[q] /\ new'[q] \in {"up", "shut"}
    BY DEF PublisherTypeOK
<1> QED BY <1>1, <1>2, <1>3, <1>4, NewFrame

\* WriteDefaults preserves the invariant.
LEMMA WriteDefaultsInv ==
    ASSUME PublisherInv, NEW p \in Publishers, WriteDefaults(p) PROVE PublisherInv'
<1> USE DEF WriteDefaults, NewAt, PublisherInv
<1>1. PublisherTypeOK'
    BY DEF PublisherTypeOK, registryVars, customVars
<1>2. NewInOrder'
    BY DEF NewInOrder, PublisherTypeOK, Target
<1>3. ClaimHasReader'
    <2>1. \A q \in Publishers : q \in OnCtrl' <=> q \in OnCtrl
        BY DEF PublisherTypeOK, OnCtrl, Target
    <2> QED BY <2>1 DEF ClaimHasReader, OnCtrl
<1>4. \A q \in Publishers : new[q] \in {"up", "shut"} =>
          reader'[q] = reader[q] /\ new'[q] \in {"up", "shut"}
    BY DEF PublisherTypeOK
<1> QED BY <1>1, <1>2, <1>3, <1>4, NewFrame

\* WriteEnv preserves the invariant: the settings name a registry, or none.
LEMMA WriteEnvInv ==
    ASSUME PublisherInv, NEW p \in Publishers, WriteEnv(p) PROVE PublisherInv'
<1> USE DEF WriteEnv, NewAt, PublisherInv
<1>1. PublisherTypeOK'
    BY DEF PublisherTypeOK, registryVars, customVars
<1>2. NewInOrder'
    <2>1. settings'[p].registerer \in Registries \cup {Nil}
        BY SettingsRegistry DEF NewInOrder
    <2>2. \A q \in Publishers \ {p} : settings'[q] = settings[q] /\ new'[q] = new[q]
        BY DEF NewInOrder, PublisherTypeOK
    <2>3. new'[p] \in {"prometheus", "failed"} /\ new[p] = "env"
        BY DEF PublisherTypeOK
    <2>4. DOMAIN config' = {"name", "otlp", "registerer", "disabled"}
          /\ config'.registerer \in Registries \cup {Unset} /\ DOMAIN settings' = Publishers
        BY DEF NewInOrder
    <2> QED BY <2>1, <2>2, <2>3, <2>4 DEF NewInOrder, Target
<1>3. ClaimHasReader'
    <2>1. \A q \in Publishers : q \in OnCtrl' <=> q \in OnCtrl
        BY DEF NewInOrder, PublisherTypeOK, OnCtrl, Target
    <2> QED BY <2>1 DEF ClaimHasReader, OnCtrl
<1>4. \A q \in Publishers : new[q] \in {"up", "shut"} =>
          reader'[q] = reader[q] /\ new'[q] \in {"up", "shut"}
    BY DEF PublisherTypeOK
<1> QED BY <1>1, <1>2, <1>3, <1>4, NewFrame

\* Claim preserves the invariant: controller-runtime's registry is claimed only if no
\* Publisher has it.
LEMMA ClaimInv ==
    ASSUME PublisherInv, NEW p \in Publishers, Claim(p) PROVE PublisherInv'
<1> USE DEF Claim, NewAt, PublisherInv
<1>1. PublisherTypeOK'
    BY DEF PublisherTypeOK, registryVars, customVars
<1>2. NewInOrder'
    BY PublisherAssumption DEF NewInOrder, PublisherTypeOK, Target
<1>3. ClaimHasReader'
    <2>1. CASE Target(p) = Ctrl /\ ~claimed
        <3>1. OnCtrl = {}
            BY <2>1 DEF ClaimHasReader
        <3>2. \A q \in Publishers : q \in OnCtrl' <=> q = p
            BY <2>1, <3>1, PublisherAssumption DEF OnCtrl, Target, PublisherTypeOK
        <3>3. claimed'
            BY <2>1, PublisherAssumption DEF Target
        <3> QED BY <3>2, <3>3 DEF ClaimHasReader, OnCtrl
    <2>2. CASE ~(Target(p) = Ctrl /\ ~claimed)
        <3>1. \A q \in Publishers : q \in OnCtrl' <=> q \in OnCtrl
            BY <2>2 DEF OnCtrl, Target, PublisherTypeOK
        <3>2. claimed' = claimed
            BY <2>2 DEF PublisherTypeOK, Target
        <3> QED BY <3>1, <3>2 DEF ClaimHasReader, OnCtrl
    <2> QED BY <2>1, <2>2
<1>4. \A q \in Publishers : new[q] \in {"up", "shut"} =>
          reader'[q] = reader[q] /\ new'[q] \in {"up", "shut"}
    BY DEF PublisherTypeOK
<1> QED BY <1>1, <1>2, <1>3, <1>4, NewFrame

\* A reader that was built keeps the claim.
LEMMA ExporterBuiltInv ==
    ASSUME PublisherInv, NEW p \in Publishers, ExporterBuilt(p) PROVE PublisherInv'
<1> USE DEF ExporterBuilt, NewAt, PublisherInv
<1>1. PublisherTypeOK'
    BY DEF PublisherTypeOK, registryVars, customVars, NewInOrder
<1>2. NewInOrder'
    <2>1. reader[p] = None /\ otlp[p] = None
        BY DEF NewInOrder
    <2>4. ~filtered[p]
        BY <2>1, RegistriesReal DEF NewInOrder
    <2>2. \A q \in Publishers \ {p} : new'[q] = new[q] /\ reader'[q] = reader[q]
        BY DEF PublisherTypeOK
    <2>3. new'[p] = "otlp" /\ new[p] = "exporter"
        BY DEF PublisherTypeOK
    <2>5. UNCHANGED <<config, settings, otlp, filtered>>
        OBVIOUS
    <2>6. \A q \in Publishers : filtered[q] => reader[q] = Ctrl
        BY DEF NewInOrder
    <2>7. \A q \in Publishers : /\ new'[q] # "prometheus" \/ q # p
                               /\ filtered'[q] => reader'[q] = Ctrl
        BY <2>2, <2>3, <2>4, <2>5, <2>6
    <2> QED BY <2>1, <2>2, <2>3, <2>5, <2>7 DEF NewInOrder, Target
<1>3. ClaimHasReader'
    <2>1. \A q \in Publishers : q \in OnCtrl' <=> q \in OnCtrl
        BY PublisherAssumption DEF NewInOrder, OnCtrl, Target, PublisherTypeOK
    <2> QED BY <2>1 DEF ClaimHasReader, OnCtrl
<1>4. \A q \in Publishers : new[q] \in {"up", "shut"} =>
          reader'[q] = reader[q] /\ new'[q] \in {"up", "shut"}
    BY DEF PublisherTypeOK
<1> QED BY <1>1, <1>2, <1>3, <1>4, NewFrame

\* One that failed gives it back, and nobody else has one.
LEMMA ExporterFailsInv ==
    ASSUME PublisherInv, NEW p \in Publishers, ExporterFails(p) PROVE PublisherInv'
<1> USE DEF ExporterFails, NewAt, PublisherInv
<1>1. PublisherTypeOK'
    BY DEF PublisherTypeOK, registryVars, customVars
<1>2. NewInOrder'
    BY DEF NewInOrder, PublisherTypeOK, Target
<1>3. ClaimHasReader'
    <2>1. CASE Target(p) = Ctrl
        <3>1. OnCtrl = {p}
            BY <2>1 DEF ClaimHasReader, OnCtrl
        <3>4. new'[p] = "otlp" /\ \A q \in Publishers \ {p} : new'[q] = new[q]
            BY DEF PublisherTypeOK
        <3>5. reader'[p] # Ctrl
            BY RegistriesReal DEF NewInOrder
        <3>6. \A q \in Publishers \ {p} : q \in OnCtrl' => q \in OnCtrl
            BY <3>4 DEF OnCtrl, Target
        <3>2. OnCtrl' = {}
            BY <3>1, <3>4, <3>5, <3>6 DEF OnCtrl
        <3>3. ~claimed'
            BY <2>1
        <3> QED BY <3>2, <3>3 DEF ClaimHasReader
    <2>2. CASE Target(p) # Ctrl
        <3>1. \A q \in Publishers : q \in OnCtrl' <=> q \in OnCtrl
            BY <2>2 DEF OnCtrl, Target, PublisherTypeOK
        <3>2. claimed' = claimed
            BY <2>2 DEF PublisherTypeOK
        <3> QED BY <3>1, <3>2 DEF ClaimHasReader, OnCtrl
    <2> QED BY <2>1, <2>2
<1>4. \A q \in Publishers : new[q] \in {"up", "shut"} =>
          reader'[q] = reader[q] /\ new'[q] \in {"up", "shut"}
    BY DEF PublisherTypeOK
<1> QED BY <1>1, <1>2, <1>3, <1>4, NewFrame

\* Return preserves the invariant.
LEMMA ReturnInv ==
    ASSUME PublisherInv, NEW p \in Publishers, Return(p) PROVE PublisherInv'
<1> USE DEF Return, NewAt, PublisherInv
<1>1. PICK t \in {"grpc", "http", None} : otlp' = [otlp EXCEPT ![p] = t]
    BY DEF Transport
<1>2. PublisherTypeOK'
    BY <1>1 DEF PublisherTypeOK, registryVars, customVars, FiltersOwn
<1>3. NewInOrder'
    BY <1>1 DEF NewInOrder, PublisherTypeOK, Target, FiltersOwn
<1>4. ClaimHasReader'
    <2>1. \A q \in Publishers : q \in OnCtrl' <=> q \in OnCtrl
        BY DEF OnCtrl, Target, PublisherTypeOK
    <2> QED BY <2>1 DEF ClaimHasReader, OnCtrl
<1>5. \A q \in Publishers : new[q] \in {"up", "shut"} =>
          reader'[q] = reader[q] /\ new'[q] \in {"up", "shut"}
    BY DEF PublisherTypeOK
<1> QED BY <1>2, <1>3, <1>4, <1>5, NewFrame

\* Shutdown preserves the invariant.
LEMMA ShutdownInv ==
    ASSUME PublisherInv, NEW p \in Publishers, Shutdown(p) PROVE PublisherInv'
<1> USE DEF Shutdown, NewAt, PublisherInv
<1>1. PublisherTypeOK'
    BY DEF PublisherTypeOK, registryVars, customVars
<1>2. NewInOrder'
    BY DEF NewInOrder, PublisherTypeOK, Target
<1>3. ClaimHasReader'
    <2>1. \A q \in Publishers : q \in OnCtrl' <=> q \in OnCtrl
        BY DEF OnCtrl, Target, PublisherTypeOK
    <2> QED BY <2>1 DEF ClaimHasReader, OnCtrl
<1>4. \A q \in Publishers : new[q] \in {"up", "shut"} =>
          reader'[q] = reader[q] /\ new'[q] \in {"up", "shut"}
    BY DEF PublisherTypeOK
<1> QED BY <1>1, <1>2, <1>3, <1>4, NewFrame

\* A gather preserves the invariant: it finds families.
LEMMA BridgeInv ==
    ASSUME PublisherInv, NEW p \in Publishers, BridgeStep(p) PROVE PublisherInv'
<1> USE DEF BridgeStep, GatherBase, GatherOwn, PublisherInv
<1>1. UNCHANGED <<config, env, new, settings, blank, overlapped, claimed, reader, otlp,
                  filtered, global, registryVars, customVars>>
    OBVIOUS
<1>2. Gathered \in SUBSET Families
    <2>1. \A c \in Calls : At(c, "created") => Family(c) \in Families
        BY MetricKeys DEF CallsOnPublishers, Family, At
    <2>2. \A q \in Publishers : Serves(q) \subseteq Families
        BY <2>1 DEF Serves
    <2>3. others[Ctrl] \subseteq Families /\ probes[Ctrl] \subseteq Families
        BY PublisherAssumption DEF PublisherTypeOK
    <2> QED BY <2>2, <2>3 DEF Gathered
<1>3. base' \in [Publishers -> (SUBSET Families) \cup {Nil}]
    BY <1>2 DEF PublisherTypeOK
<1>4. PublisherTypeOK'
    BY <1>1, <1>3 DEF PublisherTypeOK, registryVars, customVars
<1>5. NewInOrder'
    BY <1>1 DEF NewInOrder, Target
<1>6. ClaimHasReader'
    <2>1. OnCtrl' = OnCtrl
        BY <1>1 DEF OnCtrl, Target
    <2> QED BY <1>1, <2>1 DEF ClaimHasReader
<1> QED BY <1>1, <1>4, <1>5, <1>6, NewFrame

-----------------------------------------------------------------------------
(* Counter, Gauge and Histogram                                            *)

\* No step of a registration touches what New decided.
LEMMA CallFrame ==
    ASSUME PublisherInv, UNCHANGED newVars
    PROVE  NewInOrder' /\ ClaimHasReader'
<1>1. NewInOrder'
    BY DEF PublisherInv, newVars, NewInOrder, Target
<1>2. OnCtrl' = OnCtrl
    BY DEF newVars, OnCtrl, Target
<1> QED BY <1>1, <1>2 DEF PublisherInv, newVars, ClaimHasReader

\* A call that is not looking and holds no key, and goes on to look or ends, changes
\* nothing the invariant speaks of.
LEMMA QuietCallInv ==
    ASSUME PublisherInv, UNCHANGED <<newVars, registryVars, owners, mu>>, NEW c \in Calls,
           PublisherTypeOK',
           call[c].pc \in {"idle", "reserve"},
           call'[c].pc \in {"reserve", "refused"},
           call'[c].pc = "reserve" => /\ call'[c].pub \in Publishers
                                      /\ call'[c].metric \in Metrics
                                      /\ new[call'[c].pub] \in {"up", "shut"},
           \A d \in Calls \ {c} : call'[d] = call[d]
    PROVE  PublisherInv'
<1> USE DEF PublisherInv, newVars, registryVars
<1>1. CallsOnPublishers'
    BY DEF CallsOnPublishers
<1>2. \A d \in Calls : call'[d].pc = "probed" <=> call[d].pc = "probed"
    OBVIOUS
<1>3. \A d \in Calls : call'[d].pc = "probed" => call'[d] = call[d]
    OBVIOUS
<1>4. NoProbeStays'
    <2>1. ASSUME NEW r \in Registries, NEW f \in probes[r]
          PROVE  \E d \in Calls : /\ At(d, "probed")' /\ Family(d)' = f
                                  /\ reader[call'[d].pub] = r /\ mu[call'[d].pub] = d
        BY <2>1, <1>2, <1>3 DEF NoProbeStays, At, Family, PromName
    <2>2. \A p \in Publishers : mu[p] # None => mu[p] \in Calls
        BY DEF PublisherTypeOK
    <2>3. \A p \in Publishers : mu[p] # None => At(mu[p], "probed")' /\ call'[mu[p]].pub = p
        BY <2>2, <1>2, <1>3 DEF NoProbeStays, At
    <2> QED BY <2>1, <2>3 DEF NoProbeStays, At
<1>5. ProbesStand'
    <2>1. \A d \in Calls : At(d, "probed")' => /\ At(d, "probed") /\ call'[d] = call[d]
                                              /\ Family(d)' = Family(d)
        BY <1>2, <1>3 DEF At, Family, PromName
    <2>2. \A d \in Calls : At(d, "probed")' =>
              (Refused(call[d].pub, call[d].metric)' <=> Refused(call[d].pub, call[d].metric))
        BY <2>1 DEF Refused, KeysFor, PromName
    <2> QED BY <2>1, <2>2 DEF ProbesStand
<1>6. \A p \in Publishers : Holders(p)' = Holders(p)
    BY DEF Holders
<1>7. \A p \in Publishers : \A d \in Holders(p) : call'[d] = call[d]
    BY DEF Holders
<1>8. ProbedIsClosed'
    BY <1>6, <1>7 DEF ProbedIsClosed, Family, PromName
<1>9. ReservationsBacked'
    BY <1>6, <1>7 DEF ReservationsBacked, KeysFor, PromName
<1> QED BY <1>1, <1>4, <1>5, <1>8, <1>9, CallFrame

\* A registration begins, or its name is not valid.
LEMMA RegisterInv ==
    ASSUME PublisherInv, NEW c \in Calls, NEW p \in Publishers, NEW m \in Metrics,
           Register(c, p, m)
    PROVE  PublisherInv'
<1> USE DEF Register, CallEnds, At
<1>1. PICK s \in {[pc |-> "reserve", pub |-> p, metric |-> m],
                  [pc |-> "refused", pub |-> None, metric |-> NoMetric]} :
          call' = [call EXCEPT ![c] = s]
    OBVIOUS
<1>2. PublisherTypeOK'
    BY <1>1 DEF PublisherInv, PublisherTypeOK, newVars, registryVars
<1>3. call'[c] = s /\ \A d \in Calls \ {c} : call'[d] = call[d]
    BY <1>1 DEF PublisherInv, PublisherTypeOK
<1>4. call[c].pc = "idle" /\ new[p] \in {"up", "shut"}
      /\ UNCHANGED <<newVars, registryVars, owners, mu>>
    OBVIOUS
<1> QED BY <1>2, <1>3, <1>4, QuietCallInv

\* It is refused: a key has an owner, or the probe found the family taken.
LEMMA RefusalInv ==
    ASSUME PublisherInv, NEW c \in Calls, NameTaken(c) \/ ProbeRefused(c)
    PROVE  PublisherInv'
<1> USE DEF NameTaken, ProbeRefused, CallEnds, At
<1>1. call' = [call EXCEPT ![c] = [pc |-> "refused", pub |-> None, metric |-> NoMetric]]
      /\ UNCHANGED <<newVars, registryVars, owners, mu>> /\ call[c].pc = "reserve"
    OBVIOUS
<1>2. PublisherTypeOK'
    BY <1>1 DEF PublisherInv, PublisherTypeOK, newVars, registryVars
<1> QED BY <1>1, <1>2, QuietCallInv DEF PublisherInv, PublisherTypeOK

\* The instrument is created, or the SDK refuses it: the keys are held in both.
LEMMA CreateInv ==
    ASSUME PublisherInv, NEW c \in Calls, Create(c) PROVE PublisherInv'
<1> USE DEF Create, CallAt, PublisherInv, newVars, registryVars
<1>1. PublisherTypeOK'
    <2>1. PICK w \in {"release", "created"} : call' = [call EXCEPT ![c].pc = w]
        OBVIOUS
    <2>2. call' \in [Calls -> [pc : {"idle", "reserve", "probed", "create", "release",
                                    "created", "refused"},
                              pub : Publishers \cup {None},
                              metric : Metrics \cup {NoMetric}]]
        BY <2>1 DEF PublisherTypeOK
    <2> QED BY <2>2 DEF PublisherTypeOK
<1>2. \A d \in Calls \ {c} : call'[d] = call[d]
    BY DEF PublisherTypeOK
<1>3. \A d \in Calls : call'[d].pub = call[d].pub /\ call'[d].metric = call[d].metric
    BY DEF PublisherTypeOK
<1>4. call[c].pc = "create" /\ call'[c].pc \in {"release", "created"}
    BY DEF At, PublisherTypeOK
<1>5. \A d \in Calls : Family(d)' = Family(d) /\ (At(d, "probed")' <=> At(d, "probed"))
    BY <1>2, <1>3, <1>4 DEF Family, PromName, At
<1>6. CallsOnPublishers'
    BY <1>2, <1>3, <1>4 DEF CallsOnPublishers
<1>7. NoProbeStays'
    <2>1. \A p \in Publishers : mu[p] # None => mu[p] \in Calls
        BY DEF PublisherTypeOK
    <2> QED BY <2>1, <1>3, <1>5 DEF NoProbeStays
<1>8. ProbesStand'
    <2>1. \A d \in Calls : At(d, "probed")' => At(d, "probed") /\ call'[d] = call[d]
        BY <1>2, <1>4 DEF At
    <2>3. UNCHANGED <<reader, probes, mu, owners>>
        OBVIOUS
    <2>2. ASSUME NEW d \in Calls, At(d, "probed")', ~Refused(call[d].pub, call[d].metric)
          PROVE  ~Refused(call[d].pub, call[d].metric)'
        <3>1. call'[d] = call[d]
            BY <2>1, <2>2
        <3>2. \A k \in KeysFor(call[d].metric) : owners[call[d].pub][k] = None
            BY <2>2 DEF Refused
        <3>3. KeysFor(call[d].metric)' = KeysFor(call[d].metric)
            BY <3>1 DEF KeysFor, PromName
        <3> QED BY <2>3, <3>1, <3>2, <3>3 DEF Refused
    <2>4. ASSUME NEW d \in Calls, At(d, "probed")'
          PROVE  /\ mu'[call'[d].pub] = d /\ reader'[call'[d].pub] # None
                 /\ Family(d)' \in probes'[reader'[call'[d].pub]]
                 /\ ~Refused(call[d].pub, call[d].metric)'
        BY <1>5, <2>1, <2>2, <2>3, <2>4 DEF ProbesStand
    <2>5. ASSUME NEW d \in Calls, NEW e \in Calls, At(d, "probed")', At(e, "probed")',
                 reader'[call'[d].pub] = reader'[call'[e].pub], Family(d)' = Family(e)'
          PROVE  d = e
        BY <1>5, <2>1, <2>3, <2>5 DEF ProbesStand
    <2> QED BY <2>4, <2>5 DEF ProbesStand
<1>9. \A p \in Publishers : Holders(p)' = Holders(p)
    BY <1>2, <1>3, <1>4 DEF Holders
<1>10. ProbedIsClosed'
    BY <1>5, <1>9 DEF ProbedIsClosed, Holders
<1>11. ReservationsBacked'
    BY <1>3, <1>9 DEF ReservationsBacked, KeysFor, PromName, Holders
<1> QED BY <1>1, <1>6, <1>7, <1>8, <1>10, <1>11, CallFrame

\* Keys that are free are claimed by the registration they were free for.
LEMMA OwnBacked ==
    ASSUME PublisherInv, NEW c \in Calls, call[c].pc \in {"reserve", "probed"},
           ~Refused(call[c].pub, call[c].metric),
           Own(call[c].pub, call[c].metric), CallAt(c, "create")
    PROVE  /\ owners' \in [Publishers -> [Families -> Names \cup {None}]]
           /\ \A d \in Calls \ {c} : call'[d] = call[d]
           /\ call'[c].pc = "create"
           /\ \A d \in Calls : call'[d].pub = call[d].pub /\ call'[d].metric = call[d].metric
           /\ ReservationsBacked'
<1> USE DEF PublisherInv
<1>0. PICK p \in Publishers, m \in Metrics : p = call[c].pub /\ m = call[c].metric
    BY DEF CallsOnPublishers
<1>1. Own(p, m) /\ ~Refused(p, m)
    BY <1>0 DEF Own, Refused
<1>2. m.name \in Names /\ m.name # None
    BY MetricKeys
<1>3. owners' \in [Publishers -> [Families -> Names \cup {None}]]
    <2> DEFINE row == [k \in Families |-> IF k \in KeysFor(m) THEN m.name ELSE owners[p][k]]
    <2>1. owners \in [Publishers -> [Families -> Names \cup {None}]]
        BY DEF PublisherTypeOK
    <2>2. row \in [Families -> Names \cup {None}]
        BY <2>1, <1>2
    <2>3. owners' = [owners EXCEPT ![p] = row]
        BY <1>1 DEF Own
    <2> HIDE DEF row
    <2> QED BY <2>1, <2>2, <2>3
<1>5. \A d \in Calls \ {c} : call'[d] = call[d]
    BY DEF PublisherTypeOK, CallAt
<1>6. call'[c].pc = "create"
    BY DEF PublisherTypeOK, CallAt
<1>7. \A d \in Calls : call'[d].pub = call[d].pub /\ call'[d].metric = call[d].metric
    BY DEF PublisherTypeOK, CallAt
<1>8. \A q \in Publishers : q # p => Holders(q)' = Holders(q) /\ owners'[q] = owners[q]
    <2>1. \A q \in Publishers : q # p => owners'[q] = owners[q]
        BY <1>1 DEF Own, PublisherTypeOK
    <2>2. \A q \in Publishers : q # p => Holders(q)' = Holders(q)
        BY <1>0, <1>5, <1>7 DEF Holders
    <2> QED BY <2>1, <2>2
<1>9. Holders(p)' = Holders(p) \cup {c}
    BY <1>0, <1>5, <1>6, <1>7 DEF Holders
<1>10. \A k \in Families : owners'[p][k] = IF k \in KeysFor(m) THEN m.name ELSE owners[p][k]
    BY <1>1 DEF Own, PublisherTypeOK
<1>11. \A k \in KeysFor(m) : owners[p][k] = None
    BY <1>1, MetricKeys DEF Refused
<1>12. ASSUME NEW q \in Publishers, q # p
       PROVE  /\ \A k \in Families :
                    owners'[q][k] # None <=> \E d \in Holders(q)' : k \in KeysFor(call'[d].metric)
              /\ \A d, e \in Holders(q)' :
                    KeysFor(call'[d].metric) \cap KeysFor(call'[e].metric) # {} => d = e
    BY <1>12, <1>7, <1>8 DEF ReservationsBacked, Holders
<1>13. ASSUME NEW k \in Families
       PROVE  owners'[p][k] # None <=> \E d \in Holders(p)' : k \in KeysFor(call'[d].metric)
    <2>1. CASE k \in KeysFor(m)
        BY <2>1, <1>0, <1>2, <1>7, <1>9, <1>10
    <2>2. CASE k \notin KeysFor(m)
        <3>1. owners'[p][k] = owners[p][k]
            BY <2>2, <1>10
        <3>2. \A d \in Calls : KeysFor(call'[d].metric) = KeysFor(call[d].metric)
            BY <1>7
        <3>3. (\E d \in Holders(p)' : k \in KeysFor(call'[d].metric))
                <=> \E d \in Holders(p) : k \in KeysFor(call[d].metric)
            BY <2>2, <3>2, <1>0, <1>9 DEF Holders
        <3> QED BY <3>1, <3>3, <1>1 DEF ReservationsBacked
    <2> QED BY <2>1, <2>2
<1>14. ASSUME NEW d \in Holders(p)', NEW e \in Holders(p)',
              KeysFor(call'[d].metric) \cap KeysFor(call'[e].metric) # {}
       PROVE  d = e
    <2>1. d \in Calls /\ e \in Calls
        BY DEF Holders
    <2>2. KeysFor(call[d].metric) \cap KeysFor(call[e].metric) # {}
        BY <1>14, <2>1, <1>7
    <2>3. \A h \in Holders(p) : KeysFor(call[h].metric) \cap KeysFor(m) = {}
        BY <1>1, <1>11, MetricKeys DEF ReservationsBacked
    <2> QED BY <2>1, <2>2, <2>3, <1>0, <1>9 DEF ReservationsBacked
<1>15. ReservationsBacked'
    <2>1. ASSUME NEW q \in Publishers
          PROVE  /\ \A k \in Families :
                       owners'[q][k] # None <=> \E d \in Holders(q)' : k \in KeysFor(call'[d].metric)
                 /\ \A d, e \in Holders(q)' :
                       KeysFor(call'[d].metric) \cap KeysFor(call'[e].metric) # {} => d = e
        <3>1. CASE q = p
            BY <3>1, <1>13, <1>14
        <3>2. CASE q # p
            BY <3>2, <1>12
        <3> QED BY <3>1, <3>2
    <2> QED BY <2>1 DEF ReservationsBacked, KeysFor, PromName
<1> QED BY <1>3, <1>5, <1>6, <1>7, <1>15

\* Without a reader there is nothing to probe.
LEMMA ReserveUnprobedInv ==
    ASSUME PublisherInv, NEW c \in Calls, ReserveUnprobed(c) PROVE PublisherInv'
<1> USE DEF ReserveUnprobed, PublisherInv, newVars, registryVars
<1>1. /\ call[c].pc = "reserve" /\ call[c].pub \in Publishers /\ call[c].metric \in Metrics
      /\ reader[call[c].pub] = None
    BY DEF At, CallsOnPublishers
<1>2. /\ owners' \in [Publishers -> [Families -> Names \cup {None}]]
      /\ \A d \in Calls \ {c} : call'[d] = call[d]
      /\ call'[c].pc = "create"
      /\ \A d \in Calls : call'[d].pub = call[d].pub /\ call'[d].metric = call[d].metric
      /\ ReservationsBacked'
    BY <1>1, OwnBacked
<1>3. PublisherTypeOK'
    BY <1>2 DEF PublisherTypeOK, CallAt
<1>4. CallsOnPublishers'
    BY <1>1, <1>2 DEF CallsOnPublishers
<1>5. \A d \in Calls : Family(d)' = Family(d) /\ (At(d, "probed")' <=> At(d, "probed"))
    BY <1>1, <1>2 DEF Family, PromName, At
<1>6. NoProbeStays'
    <2>1. \A p \in Publishers : mu[p] # None => mu[p] \in Calls
        BY DEF PublisherTypeOK
    <2> QED BY <2>1, <1>2, <1>5 DEF NoProbeStays
<1>7. ProbesStand'
    <2>1. \A d \in Calls : At(d, "probed") => call[d].pub # call[c].pub
        BY <1>1 DEF ProbesStand
    <2>2. \A d \in Calls : At(d, "probed") => owners'[call[d].pub] = owners[call[d].pub]
        BY <2>1, <1>1 DEF Own, PublisherTypeOK, CallsOnPublishers, At
    <2>3. \A d \in Calls : At(d, "probed") =>
              Refused(call[d].pub, call[d].metric)' = Refused(call[d].pub, call[d].metric)
        BY <2>2, <1>2 DEF Refused, KeysFor, PromName
    <2>4. ASSUME NEW d \in Calls, At(d, "probed")'
          PROVE  /\ mu'[call'[d].pub] = d
                 /\ reader'[call'[d].pub] # None
                 /\ Family(d)' \in probes'[reader'[call'[d].pub]]
                 /\ ~Refused(call[d].pub, call[d].metric)'
        BY <2>3, <2>4, <1>2, <1>5 DEF ProbesStand
    <2>5. ASSUME NEW d \in Calls, NEW e \in Calls, At(d, "probed")', At(e, "probed")',
                 reader'[call'[d].pub] = reader'[call'[e].pub], Family(d)' = Family(e)'
          PROVE  d = e
        BY <2>5, <1>2, <1>5 DEF ProbesStand
    <2> QED BY <2>4, <2>5 DEF ProbesStand
<1>8. ProbedIsClosed'
    <2>1. \A p \in Publishers : \A d \in Holders(p)' : d \in Holders(p) \/ reader[p] = None
        BY <1>1, <1>2 DEF Holders
    <2> QED BY <2>1, <1>5 DEF ProbedIsClosed, Holders
<1> QED BY <1>2, <1>3, <1>4, <1>6, <1>7, <1>8, CallFrame

\* The registration looks, under mu, at a family nobody has on the registry.
LEMMA ProbeInv ==
    ASSUME PublisherInv, NEW c \in Calls, Probe(c) PROVE PublisherInv'
<1> DEFINE p == call[c].pub
           r == reader[p]
           f == Family(c)
<1> USE DEF PublisherInv
<1>1. /\ p \in Publishers /\ call[c].metric \in Metrics /\ new[p] \in {"up", "shut"}
      /\ call[c].pc = "reserve" /\ mu[p] = None /\ r # None /\ ~Refused(p, call[c].metric)
    BY DEF Probe, At, CallsOnPublishers
<1>2. r \in Registries /\ f \in Families /\ f \notin probes[r] /\ f \notin others[r]
    BY <1>1, MetricKeys DEF Probe, OnRegistry, PublisherTypeOK, Family
<1>3. /\ probes' = [probes EXCEPT ![r] = @ \cup {f}]
      /\ probed' = [probed EXCEPT ![r] = @ \cup {f}]
      /\ mu' = [mu EXCEPT ![p] = c]
      /\ UNCHANGED newVars /\ UNCHANGED <<others, owners>>
    BY DEF Probe, Family
<1>4. /\ \A d \in Calls \ {c} : call'[d] = call[d]
      /\ call'[c].pc = "probed"
      /\ \A d \in Calls : call'[d].pub = call[d].pub /\ call'[d].metric = call[d].metric
    BY DEF Probe, CallAt, PublisherTypeOK
<1>5. PublisherTypeOK'
    <2>1. call' \in [Calls -> [pc : {"idle", "reserve", "probed", "create", "release",
                                    "created", "refused"},
                              pub : Publishers \cup {None},
                              metric : Metrics \cup {NoMetric}]]
        <3>1. call' = [call EXCEPT ![c].pc = "probed"]
            BY DEF Probe, CallAt
        <3> QED BY <3>1 DEF PublisherTypeOK
    <2>2. probes' \in [Registries -> SUBSET Families] /\ probed' \in [Registries -> SUBSET Families]
        BY <1>2, <1>3 DEF PublisherTypeOK
    <2>3. mu' \in [Publishers -> Calls \cup {None}]
        BY <1>1, <1>3 DEF PublisherTypeOK
    <2> QED BY <2>1, <2>2, <2>3, <1>3 DEF PublisherTypeOK, newVars
<1>6. CallsOnPublishers'
    BY <1>1, <1>3, <1>4 DEF CallsOnPublishers, newVars
<1>7. \A d \in Calls : /\ Family(d)' = Family(d)
                       /\ At(d, "probed")' <=> At(d, "probed") \/ d = c
    BY <1>4 DEF Family, PromName, At
<1>8. reader' = reader
    BY <1>3 DEF newVars
<1>9. \A s \in Registries : probes'[s] = IF s = r THEN probes[r] \cup {f} ELSE probes[s]
    BY <1>2, <1>3 DEF PublisherTypeOK
<1>10. \A s \in Registries : probed'[s] = IF s = r THEN probed[r] \cup {f} ELSE probed[s]
    BY <1>2, <1>3 DEF PublisherTypeOK
<1>11. \A q \in Publishers : mu'[q] = IF q = p THEN c ELSE mu[q]
    BY <1>1, <1>3 DEF PublisherTypeOK
<1>12. NoProbeStays'
    <2>1. ASSUME NEW s \in Registries, NEW g \in probes'[s]
          PROVE  \E d \in Calls : /\ At(d, "probed")' /\ Family(d)' = g
                                  /\ reader'[call'[d].pub] = s /\ mu'[call'[d].pub] = d
        <3>1. CASE s = r /\ g = f
            BY <3>1, <1>1, <1>4, <1>7, <1>8, <1>11
        <3>2. CASE ~(s = r /\ g = f)
            <4>1. g \in probes[s]
                BY <3>2, <2>1, <1>9
            <4>2. PICK d \in Calls : /\ At(d, "probed") /\ Family(d) = g
                                     /\ reader[call[d].pub] = s /\ mu[call[d].pub] = d
                BY <4>1 DEF NoProbeStays
            <4>3. call[d].pub \in Publishers /\ call[d].pub # p
                BY <4>2, <1>1, PublisherAssumption DEF CallsOnPublishers, At
            <4> QED BY <4>2, <4>3, <1>4, <1>7, <1>8, <1>11
        <3> QED BY <3>1, <3>2
    <2>2. ASSUME NEW q \in Publishers, mu'[q] # None
          PROVE  At(mu[q], "probed")' /\ call'[mu'[q]].pub = q
        <3>1. CASE q = p
            BY <3>1, <1>4, <1>11 DEF At
        <3>2. CASE q # p
            BY <3>2, <2>2, <1>4, <1>7, <1>11 DEF NoProbeStays, PublisherTypeOK, At
        <3> QED BY <3>1, <3>2
    <2> QED BY <2>1, <2>2 DEF NoProbeStays
<1>13. ProbesStand'
    <2>1. \A d \in Calls : At(d, "probed") => call[d].pub # p /\ call[d].pub \in Publishers
        BY <1>1, PublisherAssumption DEF ProbesStand, CallsOnPublishers, At
    <2>5. \A d \in Calls : Refused(call[d].pub, call[d].metric)' = Refused(call[d].pub, call[d].metric)
        BY <1>3, <1>4 DEF Refused, KeysFor, PromName
    <2>2. ASSUME NEW d \in Calls, At(d, "probed")'
          PROVE  /\ mu'[call'[d].pub] = d
                 /\ reader'[call'[d].pub] # None
                 /\ Family(d)' \in probes'[reader'[call'[d].pub]]
                 /\ ~Refused(call[d].pub, call[d].metric)'
        <3>1. CASE d = c
            BY <3>1, <2>5, <1>1, <1>2, <1>4, <1>7, <1>8, <1>9, <1>11
        <3>2. CASE d # c
            <4>1. At(d, "probed")
                BY <2>2, <3>2, <1>7
            <4>2. reader[call[d].pub] \in Registries
                BY <4>1, <2>1 DEF ProbesStand, PublisherTypeOK
            <4>3. probes[reader[call[d].pub]] \subseteq probes'[reader[call[d].pub]]
                BY <4>2, <1>9
            <4> QED BY <4>1, <4>3, <2>1, <1>3, <1>4, <1>7, <1>8, <1>11
                    DEF ProbesStand, Refused, KeysFor, PromName
        <3> QED BY <3>1, <3>2
    <2>3. \A d \in Calls : At(d, "probed") => reader[call[d].pub] # r \/ Family(d) # f
        BY <1>2 DEF ProbesStand
    <2>4. ASSUME NEW d \in Calls, NEW e \in Calls, At(d, "probed")', At(e, "probed")',
                 reader'[call'[d].pub] = reader'[call'[e].pub], Family(d)' = Family(e)'
          PROVE  d = e
        BY <2>3, <2>4, <1>4, <1>7, <1>8 DEF ProbesStand
    <2> QED BY <2>2, <2>4 DEF ProbesStand
<1>14. ProbedIsClosed'
    <2>1. \A q \in Publishers : Holders(q)' = Holders(q)
        BY <1>1, <1>4 DEF Holders
    <2>2. \A s \in Registries : probes'[s] \subseteq probed'[s] /\ probed'[s] \cap others[s] = {}
        BY <1>2, <1>9, <1>10 DEF ProbedIsClosed
    <2>3. \A s \in Registries : probed[s] \subseteq probed'[s]
        BY <1>10
    <2>4. \A q \in Publishers : reader[q] # None => reader[q] \in Registries
        BY DEF PublisherTypeOK
    <2> QED BY <2>1, <2>2, <2>3, <2>4, <1>3, <1>7, <1>8 DEF ProbedIsClosed, Holders
<1>15. ReservationsBacked'
    <2>1. \A q \in Publishers : Holders(q)' = Holders(q)
        BY <1>1, <1>4 DEF Holders
    <2> QED BY <2>1, <1>3, <1>4 DEF ReservationsBacked, KeysFor, PromName, Holders
<1> QED BY <1>3, <1>5, <1>6, <1>12, <1>13, <1>14, <1>15, CallFrame

\* The probe comes off and the keys, free all the while under mu, are claimed.
LEMMA ReserveInv ==
    ASSUME PublisherInv, NEW c \in Calls, Reserve(c) PROVE PublisherInv'
<1> USE DEF PublisherInv
<1>0. PICK p \in Publishers, m \in Metrics : p = call[c].pub /\ m = call[c].metric
    BY DEF CallsOnPublishers, Reserve, At
<1>1. call[c].pc = "probed" /\ mu[p] = c /\ reader[p] # None /\ ~Refused(p, m)
    BY <1>0 DEF Reserve, At, ProbesStand, Refused
<1>2. PICK r \in Registries, f \in Families : r = reader[p] /\ f = PromName(m)
    BY <1>1, MetricKeys DEF PublisherTypeOK
<1>3. /\ probes' = [probes EXCEPT ![r] = @ \ {f}]
      /\ mu' = [mu EXCEPT ![p] = None]
      /\ UNCHANGED newVars /\ UNCHANGED <<probed, others>>
    BY <1>0, <1>2 DEF Reserve
<1>4. /\ owners' \in [Publishers -> [Families -> Names \cup {None}]]
      /\ \A d \in Calls \ {c} : call'[d] = call[d]
      /\ call'[c].pc = "create"
      /\ \A d \in Calls : call'[d].pub = call[d].pub /\ call'[d].metric = call[d].metric
      /\ ReservationsBacked'
    BY <1>0, <1>1, OwnBacked DEF Reserve, Refused
<1>5. PublisherTypeOK'
    <2>1. call' = [call EXCEPT ![c].pc = "create"]
        BY DEF Reserve, CallAt
    <2>2. call' \in [Calls -> [pc : {"idle", "reserve", "probed", "create", "release",
                                    "created", "refused"},
                              pub : Publishers \cup {None},
                              metric : Metrics \cup {NoMetric}]]
        BY <2>1 DEF PublisherTypeOK
    <2>3. probes' \in [Registries -> SUBSET Families]
        BY <1>3 DEF PublisherTypeOK
    <2>4. mu' \in [Publishers -> Calls \cup {None}]
        BY <1>3 DEF PublisherTypeOK
    <2> QED BY <2>2, <2>3, <2>4, <1>3, <1>4 DEF PublisherTypeOK, newVars
<1>6. CallsOnPublishers'
    BY <1>1, <1>3, <1>4 DEF CallsOnPublishers, newVars
<1>7. \A d \in Calls : /\ Family(d)' = Family(d)
                       /\ At(d, "probed")' <=> At(d, "probed") /\ d # c
    BY <1>4 DEF Family, PromName, At
<1>8. reader' = reader
    BY <1>3 DEF newVars
<1>9. \A s \in Registries : probes'[s] = IF s = r THEN probes[r] \ {f} ELSE probes[s]
    BY <1>3 DEF PublisherTypeOK
<1>10. \A q \in Publishers : mu'[q] = IF q = p THEN None ELSE mu[q]
    BY <1>3 DEF PublisherTypeOK
<1>11. f = Family(c) /\ At(c, "probed")
    BY <1>0, <1>1, <1>2 DEF Family, At
<1>12. NoProbeStays'
    <2>1. ASSUME NEW s \in Registries, NEW g \in probes'[s]
          PROVE  \E d \in Calls : /\ At(d, "probed")' /\ Family(d)' = g
                                  /\ reader'[call'[d].pub] = s /\ mu'[call'[d].pub] = d
        <3>1. g \in probes[s] /\ ~(s = r /\ g = f)
            BY <2>1, <1>9
        <3>2. PICK d \in Calls : /\ At(d, "probed") /\ Family(d) = g
                                 /\ reader[call[d].pub] = s /\ mu[call[d].pub] = d
            BY <3>1 DEF NoProbeStays
        <3>3. d # c
            BY <3>1, <3>2, <1>0, <1>2, <1>11
        <3>4. call[d].pub \in Publishers /\ call[d].pub # p
            BY <3>2, <3>3, <1>1 DEF CallsOnPublishers, At
        <3> QED BY <3>2, <3>3, <3>4, <1>4, <1>7, <1>8, <1>10
    <2>2. ASSUME NEW q \in Publishers, mu'[q] # None
          PROVE  At(mu[q], "probed")' /\ call'[mu'[q]].pub = q /\ mu'[q] = mu[q]
        <3>1. q # p /\ mu'[q] = mu[q] /\ mu[q] \in Calls
            BY <2>2, <1>10 DEF PublisherTypeOK
        <3>2. At(mu[q], "probed") /\ call[mu[q]].pub = q
            BY <3>1, <2>2 DEF NoProbeStays
        <3> QED BY <3>1, <3>2, <1>0, <1>4 DEF At
    <2> QED BY <2>1, <2>2 DEF NoProbeStays, At
<1>13. ProbesStand'
    <2>1. ASSUME NEW d \in Calls, At(d, "probed")'
          PROVE  /\ At(d, "probed") /\ d # c
                 /\ call[d].pub \in Publishers /\ call[d].pub # p
                 /\ reader[call[d].pub] \in Registries
                 /\ reader[call[d].pub] # r \/ Family(d) # f
        <3>1. At(d, "probed") /\ d # c
            BY <2>1, <1>7
        <3>2. call[d].pub \in Publishers
            BY <3>1 DEF CallsOnPublishers, At
        <3>3. mu[call[d].pub] = d /\ reader[call[d].pub] # None
            BY <3>1 DEF ProbesStand
        <3>4. call[d].pub # p
            BY <3>1, <3>3, <1>1
        <3>5. reader[call[d].pub] \in Registries
            BY <3>2, <3>3 DEF PublisherTypeOK
        <3>6. reader[call[d].pub] # r \/ Family(d) # f
            BY <3>1, <1>0, <1>2, <1>11 DEF ProbesStand
        <3> QED BY <3>1, <3>2, <3>4, <3>5, <3>6
    <2>2. ASSUME NEW d \in Calls, At(d, "probed")'
          PROVE  Refused(call[d].pub, call[d].metric)' = Refused(call[d].pub, call[d].metric)
        <3>1. owners' = [owners EXCEPT ![p] = [k \in Families |->
                            IF k \in KeysFor(m) THEN m.name ELSE owners[p][k]]]
            BY <1>0 DEF Reserve, Own
        <3>2. owners'[call[d].pub] = owners[call[d].pub]
            BY <2>1, <2>2, <3>1 DEF PublisherTypeOK
        <3> QED BY <3>2, <1>4 DEF Refused, KeysFor, PromName
    <2>3. ASSUME NEW d \in Calls, At(d, "probed")'
          PROVE  /\ mu'[call'[d].pub] = d
                 /\ reader'[call'[d].pub] # None
                 /\ Family(d)' \in probes'[reader'[call'[d].pub]]
                 /\ ~Refused(call[d].pub, call[d].metric)'
        BY <2>1, <2>2, <2>3, <1>4, <1>7, <1>8, <1>9, <1>10 DEF ProbesStand
    <2>4. ASSUME NEW d \in Calls, NEW e \in Calls, At(d, "probed")', At(e, "probed")',
                 reader'[call'[d].pub] = reader'[call'[e].pub], Family(d)' = Family(e)'
          PROVE  d = e
        BY <2>4, <1>4, <1>7, <1>8 DEF ProbesStand
    <2> QED BY <2>3, <2>4 DEF ProbesStand
<1>14. ProbedIsClosed'
    <2>1. \A s \in Registries : probes'[s] \subseteq probed[s]
        BY <1>9 DEF ProbedIsClosed
    <2>2. f \in probed[r]
        BY <1>0, <1>1, <1>2, <1>11 DEF ProbedIsClosed, ProbesStand
    <2>3. \A q \in Publishers : \A d \in Holders(q)' : d \in Holders(q) \/ (d = c /\ q = p)
        BY <1>0, <1>4 DEF Holders
    <2>4. ASSUME NEW q \in Publishers, NEW d \in Holders(q)', reader[q] # None
          PROVE  Family(d) \in probed[reader[q]] /\ d \in Calls
        BY <2>2, <2>3, <2>4, <1>2, <1>11 DEF ProbedIsClosed, Holders
    <2> QED BY <2>1, <2>4, <1>3, <1>7, <1>8 DEF ProbedIsClosed
<1> QED BY <1>3, <1>4, <1>5, <1>6, <1>12, <1>13, <1>14, CallFrame

\* What the SDK refused frees its own keys and nobody else's.
LEMMA ReleaseInv ==
    ASSUME PublisherInv, NEW c \in Calls, Release(c) PROVE PublisherInv'
<1> USE DEF PublisherInv
<1>0. PICK p \in Publishers, m \in Metrics : p = call[c].pub /\ m = call[c].metric
    BY DEF CallsOnPublishers, Release, At
<1>1. /\ call[c].pc = "release" /\ mu[p] = None
      /\ UNCHANGED newVars /\ UNCHANGED registryVars /\ mu' = mu
      /\ call' = [call EXCEPT ![c] = [pc |-> "refused", pub |-> None, metric |-> NoMetric]]
      /\ owners' = [owners EXCEPT ![p] = [k \in Families |->
                        IF k \in KeysFor(m) THEN None ELSE owners[p][k]]]
    BY <1>0 DEF Release, At, CallEnds
<1>2. PublisherTypeOK'
    <2>1. owners' \in [Publishers -> [Families -> Names \cup {None}]]
        BY <1>1 DEF PublisherTypeOK
    <2>2. call' \in [Calls -> [pc : {"idle", "reserve", "probed", "create", "release",
                                    "created", "refused"},
                              pub : Publishers \cup {None},
                              metric : Metrics \cup {NoMetric}]]
        BY <1>1 DEF PublisherTypeOK
    <2> QED BY <2>1, <2>2, <1>1 DEF PublisherTypeOK, newVars, registryVars
<1>3. (\A d \in Calls \ {c} : call'[d] = call[d]) /\ call'[c].pc = "refused"
    BY <1>1 DEF PublisherTypeOK
<1>4. CallsOnPublishers'
    BY <1>1, <1>3 DEF CallsOnPublishers, newVars
<1>5. \A d \in Calls : /\ At(d, "probed")' <=> At(d, "probed")
                       /\ At(d, "probed") => d # c /\ call'[d] = call[d] /\ Family(d)' = Family(d)
    BY <1>1, <1>3 DEF Family, PromName, At
<1>6. reader' = reader /\ probes' = probes /\ probed' = probed /\ others' = others
    BY <1>1 DEF newVars, registryVars
<1>7. NoProbeStays'
    <2>1. \A q \in Publishers : mu[q] # None => mu[q] \in Calls
        BY DEF PublisherTypeOK
    <2> QED BY <2>1, <1>1, <1>5, <1>6 DEF NoProbeStays
<1>8. ProbesStand'
    <2>1. ASSUME NEW d \in Calls, At(d, "probed")
          PROVE  Refused(call[d].pub, call[d].metric)' = Refused(call[d].pub, call[d].metric)
        <3>1. call[d].pub \in Publishers /\ call[d].pub # p
            BY <2>1, <1>1, PublisherAssumption DEF ProbesStand, CallsOnPublishers, At
        <3>2. owners'[call[d].pub] = owners[call[d].pub]
            BY <3>1, <1>1 DEF PublisherTypeOK
        <3> QED BY <3>2, <2>1, <1>5 DEF Refused, KeysFor, PromName
    <2>2. ASSUME NEW d \in Calls, At(d, "probed")'
          PROVE  /\ mu'[call'[d].pub] = d
                 /\ reader'[call'[d].pub] # None
                 /\ Family(d)' \in probes'[reader'[call'[d].pub]]
                 /\ ~Refused(call[d].pub, call[d].metric)'
        BY <2>1, <2>2, <1>1, <1>5, <1>6 DEF ProbesStand
    <2>3. ASSUME NEW d \in Calls, NEW e \in Calls, At(d, "probed")', At(e, "probed")',
                 reader'[call'[d].pub] = reader'[call'[e].pub], Family(d)' = Family(e)'
          PROVE  d = e
        BY <2>3, <1>5, <1>6 DEF ProbesStand
    <2> QED BY <2>2, <2>3 DEF ProbesStand
<1>9. \A q \in Publishers : Holders(q)' = Holders(q) \ {c}
    BY <1>3 DEF Holders
<1>10. \A q \in Publishers : \A d \in Holders(q)' : d # c /\ d \in Calls /\ call'[d] = call[d]
    BY <1>3, <1>9 DEF Holders
<1>11. ProbedIsClosed'
    BY <1>6, <1>9, <1>10 DEF ProbedIsClosed, Family, PromName
<1>12. c \in Holders(p)
    BY <1>0, <1>1 DEF Holders
<1>13. ReservationsBacked'
    <2>1. ASSUME NEW q \in Publishers, NEW k \in Families
          PROVE  owners'[q][k] # None <=> \E d \in Holders(q)' : k \in KeysFor(call'[d].metric)
        <3>1. CASE q = p /\ k \in KeysFor(m)
            <4>1. owners'[q][k] = None
                BY <3>1, <1>1 DEF PublisherTypeOK
            <4>2. \A d \in Holders(p) : k \in KeysFor(call[d].metric) => d = c
                BY <3>1, <1>0, <1>12 DEF ReservationsBacked
            <4> QED BY <4>1, <4>2, <3>1, <1>9, <1>10
        <3>2. CASE ~(q = p /\ k \in KeysFor(m))
            <4>1. owners'[q][k] = owners[q][k]
                BY <3>2, <1>1 DEF PublisherTypeOK
            <4>2. c \in Holders(q) => k \notin KeysFor(call[c].metric)
                BY <3>2, <1>0 DEF Holders
            <4>3. owners[q][k] # None <=> \E d \in Holders(q) : k \in KeysFor(call[d].metric)
                BY DEF ReservationsBacked
            <4> QED BY <4>1, <4>2, <4>3, <1>9, <1>10
        <3> QED BY <3>1, <3>2
    <2>2. ASSUME NEW q \in Publishers, NEW d \in Holders(q)', NEW e \in Holders(q)',
                 KeysFor(call'[d].metric) \cap KeysFor(call'[e].metric) # {}
          PROVE  d = e
        <3>1. d \in Holders(q) /\ e \in Holders(q)
            BY <1>9
        <3>2. call'[d] = call[d] /\ call'[e] = call[e]
            BY <1>10
        <3> QED BY <3>1, <3>2, <2>2 DEF ReservationsBacked
    <2> QED BY <2>1, <2>2 DEF ReservationsBacked, KeysFor, PromName
<1> QED BY <1>1, <1>2, <1>4, <1>7, <1>8, <1>11, <1>13, CallFrame

-----------------------------------------------------------------------------
(* The specification                                                       *)

\* Another component's collector is of no family ever probed for.
LEMMA OtherRegistersInv ==
    ASSUME PublisherInv, NEW r \in Registries, NEW f \in Foreign, OtherRegisters(r, f)
    PROVE  PublisherInv'
<1> USE DEF OtherRegisters, PublisherInv, newVars, customVars
<1>1. PublisherTypeOK'
    <2>1. f \in Families
        BY DEF Families
    <2>2. others' \in [Registries -> SUBSET Families]
        BY <2>1 DEF PublisherTypeOK
    <2> QED BY <2>2 DEF PublisherTypeOK
<1>2. CallsOnPublishers' /\ NoProbeStays' /\ ReservationsBacked'
    BY DEF CallsOnPublishers, NoProbeStays, ReservationsBacked, At, Family, PromName, KeysFor,
           Holders
<1>4. ProbesStand'
    BY DEF ProbesStand, At, Family, PromName, KeysFor, Refused
<1>3. ProbedIsClosed'
    BY DEF ProbedIsClosed, PublisherTypeOK, Holders, Family, PromName
<1> QED BY <1>1, <1>2, <1>3, <1>4, CallFrame

\* A step that changes nothing keeps the invariant.
LEMMA PublisherStutter == PublisherInv /\ UNCHANGED pubVars => PublisherInv'
<1> SUFFICES ASSUME PublisherInv, UNCHANGED pubVars PROVE PublisherInv'
    OBVIOUS
<1> USE DEF pubVars, newVars, registryVars, customVars, PublisherInv
<1>1. PublisherTypeOK'
    BY DEF PublisherTypeOK
<1>2. CallsOnPublishers' /\ NoProbeStays' /\ ProbesStand' /\ ReservationsBacked' /\ ProbedIsClosed'
    BY NewFrame DEF PublisherTypeOK
<1> QED BY <1>1, <1>2, CallFrame

\* Every step preserves the invariant.
LEMMA PublisherStep == PublisherInv /\ [PublisherNext]_pubVars => PublisherInv'
<1> SUFFICES ASSUME PublisherInv, PublisherNext PROVE PublisherInv'
    BY PublisherStutter
<1>1. ASSUME NEW p \in Publishers, NewStep(p) \/ Shutdown(p) \/ BridgeStep(p)
      PROVE  PublisherInv'
    BY <1>1, FindProtocolInv, WriteDefaultsInv, WriteEnvInv, ClaimInv, ExporterBuiltInv,
       ExporterFailsInv, ReturnInv, ShutdownInv, BridgeInv
       DEF NewStep
<1>2. ASSUME NEW c \in Calls, CallStep(c) PROVE PublisherInv'
    BY <1>2, RefusalInv, ReserveUnprobedInv, ProbeInv, ReserveInv, CreateInv, ReleaseInv
       DEF CallStep
<1>3. ASSUME NEW c \in Calls, NEW p \in Publishers, NEW m \in Metrics, Register(c, p, m)
      PROVE  PublisherInv'
    BY <1>3, RegisterInv
<1>4. ASSUME NEW r \in Registries, NEW f \in Foreign, OtherRegisters(r, f) PROVE PublisherInv'
    BY <1>4, OtherRegistersInv
<1> QED BY <1>1, <1>2, <1>3, <1>4 DEF PublisherNext

\* PublisherInv is an invariant of the specification.
THEOREM PublisherInvariance == PublisherSpec => []PublisherInv
<1>1. PublisherInit => PublisherInv
    BY PublisherInitInv
<1>2. PublisherInv /\ [PublisherNext]_pubVars => PublisherInv'
    BY PublisherStep
<1> QED BY <1>1, <1>2, PTL DEF PublisherSpec

\* controller-runtime's registry is claimed exactly while a Publisher has, or is
\* building, its one reader there, whatever fails (buildPrometheusReader).
THEOREM OneReader == PublisherSpec => []ClaimHasReader
<1>1. PublisherInv => ClaimHasReader
    BY DEF PublisherInv
<1> QED BY <1>1, PublisherInvariance, PTL

\* Every reserved key has exactly one registration behind it (reserve, release).
THEOREM ReservedOnce == PublisherSpec => []ReservationsBacked
<1>1. PublisherInv => ReservationsBacked
    BY DEF PublisherInv
<1> QED BY <1>1, PublisherInvariance, PTL

\* No probe and no lock outlives the registration it was for (claimedOn, reserve).
THEOREM ProbesComeOff == PublisherSpec => []NoProbeStays
<1>1. PublisherInv => NoProbeStays
    BY DEF PublisherInv
<1> QED BY <1>1, PublisherInvariance, PTL

\* On controller-runtime's registry no family has two sources, however many Publishers,
\* registrations and other components meet there: its instruments all belong to the one
\* Publisher that has the reader, their keys are disjoint, and their families were
\* closed to everyone else before they were claimed.
THEOREM FamiliesHaveOneSource == PublisherSpec => []OneSourceEach
<1>1. PublisherInv => OneSourceEach
    <2> SUFFICES ASSUME PublisherInv, NEW c \in ServedOn(Ctrl)
                 PROVE  /\ Family(c) \notin others[Ctrl]
                        /\ \A d \in ServedOn(Ctrl) : Family(c) = Family(d) => c = d
        BY DEF OneSourceEach
    <2> USE DEF PublisherInv
    <2>1. \A d \in ServedOn(Ctrl) :
              /\ d \in Calls /\ call[d].pub \in Publishers /\ call[d].metric \in Metrics
              /\ reader[call[d].pub] = Ctrl /\ d \in Holders(call[d].pub)
              /\ call[d].pub \in OnCtrl
        BY DEF ServedOn, At, CallsOnPublishers, Holders, OnCtrl
    <2>2. Family(c) \in probed[Ctrl]
        BY <2>1, RegistriesReal DEF ProbedIsClosed
    <2>3. Family(c) \notin others[Ctrl]
        BY <2>2, PublisherAssumption DEF ProbedIsClosed
    <2>4. ASSUME NEW d \in ServedOn(Ctrl), Family(c) = Family(d) PROVE c = d
        <3>1. call[c].pub = call[d].pub
            BY <2>1 DEF ClaimHasReader
        <3>2. Family(c) \in KeysFor(call[c].metric) \cap KeysFor(call[d].metric)
            BY <2>1, <2>4, MetricKeys DEF Family
        <3> QED BY <3>1, <3>2, <2>1 DEF ReservationsBacked
    <2> QED BY <2>3, <2>4
<1> QED BY <1>1, PublisherInvariance, PTL

\* What a bridge leaves out are the families its own Publisher's reader serves on
\* controller-runtime's registry, all of them while the Publisher is up and no others,
\* whatever is registered, shut down or gathered between its two gathers
\* (bridgeGathererFor, exceptGatherer).
THEOREM BridgeLeavesOutOwn == PublisherSpec => []OnlyOwnLeftOut
<1>1. PublisherInv => OnlyOwnLeftOut
    <2> SUFFICES ASSUME PublisherInv, NEW p \in Publishers, otlp[p] # None
                 PROVE  LET own == {Family(c) : c \in {d \in ServedOn(Ctrl) : call[d].pub = p}}
                        IN  /\ new[p] = "up" => own \cap Bridged(p) = {}
                            /\ Whole(p) \ Bridged(p) \subseteq own
                            /\ Whole(p) \cap others[Ctrl] \subseteq Bridged(p)
        BY DEF OnlyOwnLeftOut
    <2> USE DEF PublisherInv
    <2> DEFINE own == {Family(c) : c \in {d \in ServedOn(Ctrl) : call[d].pub = p}}
    <2>1. filtered[p] = (reader[p] = Ctrl)
        BY DEF NewInOrder
    <2>2. own \cap others[Ctrl] = {}
        <3>1. \A c \in ServedOn(Ctrl) :
                  /\ call[c].pub \in Publishers /\ reader[call[c].pub] = Ctrl
                  /\ c \in Holders(call[c].pub)
            BY DEF ServedOn, At, CallsOnPublishers, Holders
        <3>2. \A c \in ServedOn(Ctrl) : Family(c) \notin others[Ctrl]
            BY <3>1, RegistriesReal, PublisherAssumption DEF ProbedIsClosed
        <3> QED BY <3>2
    <2>3. CASE reader[p] = Ctrl
        <3>1. Bridged(p) = Whole(p) \ Serves(p)
            BY <2>1, <2>3 DEF Bridged, Whole
        <3>2. Serves(p) \subseteq own /\ (new[p] = "up" => Serves(p) = own)
            BY <2>3 DEF Serves, ServedOn
        <3> QED BY <3>1, <3>2, <2>2
    <2>4. CASE reader[p] # Ctrl
        <3>1. Bridged(p) = Whole(p)
            BY <2>1, <2>4 DEF Bridged, Whole
        <3>2. own = {}
            BY <2>4 DEF ServedOn
        <3> QED BY <3>1, <3>2
    <2> QED BY <2>3, <2>4
<1> QED BY <1>1, PublisherInvariance, PTL

-----------------------------------------------------------------------------
(* The families of controller-runtime's registry: every step takes, serves *)
(* or gives back one of them, or none.                                     *)

\* The registrations that have a family there are on the one Publisher whose reader is,
\* and the family was probed for.
LEMMA TakenAreHeld ==
    ASSUME PublisherInv, NEW c \in TakenOn(Ctrl)
    PROVE  /\ c \in Calls /\ call[c].pub \in Publishers /\ call[c].metric \in Metrics
           /\ new[call[c].pub] \in {"up", "shut"}
           /\ c \in Holders(call[c].pub) /\ call[c].pub \in OnCtrl
           /\ Family(c) \in Families /\ Family(c) \in KeysFor(call[c].metric)
           /\ Family(c) \in probed[Ctrl]
<1> USE DEF PublisherInv
<1>1. /\ c \in Calls /\ reader[call[c].pub] = Ctrl
      /\ call[c].pc \in {"create", "release", "created"}
    BY DEF TakenOn
<1>2. /\ call[c].pub \in Publishers /\ call[c].metric \in Metrics
      /\ new[call[c].pub] \in {"up", "shut"}
    BY <1>1 DEF CallsOnPublishers
<1>3. c \in Holders(call[c].pub) /\ call[c].pub \in OnCtrl
    BY <1>1, <1>2 DEF Holders, OnCtrl
<1>4. Family(c) \in probed[Ctrl]
    BY <1>1, <1>2, <1>3, RegistriesReal DEF ProbedIsClosed
<1> QED BY <1>1, <1>2, <1>3, <1>4, MetricKeys DEF Family

\* A family that is being probed for there, its keys free on the Publisher whose reader
\* is there, is nobody's: no other Publisher's, no other registration's and no other
\* component's.
LEMMA ProbedIsFree ==
    ASSUME PublisherInv, NEW c \in Calls, At(c, "probed"), reader[call[c].pub] = Ctrl
    PROVE  /\ Family(c) \in Families /\ Family(c) \notin others[Ctrl]
           /\ c \notin TakenOn(Ctrl)
           /\ \A d \in TakenOn(Ctrl) : Family(d) # Family(c)
<1> USE DEF PublisherInv
<1>1. /\ call[c].pub \in Publishers /\ call[c].metric \in Metrics
      /\ ~Refused(call[c].pub, call[c].metric) /\ Family(c) \in probes[Ctrl]
    BY DEF At, CallsOnPublishers, ProbesStand
<1>2. Family(c) \in Families /\ Family(c) \in KeysFor(call[c].metric)
    BY <1>1, MetricKeys DEF Family
<1>3. Family(c) \notin others[Ctrl]
    BY <1>1, PublisherAssumption DEF ProbedIsClosed
<1>4. ASSUME NEW d \in TakenOn(Ctrl), Family(d) = Family(c) PROVE FALSE
    <2>1. d \in Holders(call[c].pub) /\ Family(c) \in KeysFor(call[d].metric)
        BY <1>1, <1>4, TakenAreHeld DEF ClaimHasReader, OnCtrl
    <2>2. owners[call[c].pub][Family(c)] # None
        BY <1>1, <1>2, <2>1 DEF ReservationsBacked
    <2> QED BY <1>1, <1>2, <2>2 DEF Refused
<1> QED BY <1>2, <1>3, <1>4 DEF TakenOn, At

\* Where the registrations with a family there, their families and the other components'
\* stay the same, nothing happens to the families.
LEMMA SourcesRest ==
    ASSUME TakenOn(Ctrl)' = TakenOn(Ctrl), ServedOn(Ctrl)' = ServedOn(Ctrl),
           \A c \in TakenOn(Ctrl) : Family(c)' = Family(c),
           others'[Ctrl] = others[Ctrl]
    PROVE  UNCHANGED Sources!vars
<1>1. {<<Family(c), c>> : c \in TakenOn(Ctrl)}' = {<<Family(c), c>> : c \in TakenOn(Ctrl)}
    OBVIOUS
<1> QED BY <1>1 DEF Sources!vars

\* No New, no Shutdown and no gather moves the reader of a Publisher that has
\* registrations.
LEMMA NewKeepsSources ==
    ASSUME PublisherInv, NEW p \in Publishers, NewStep(p) \/ Shutdown(p) \/ BridgeStep(p)
    PROVE  UNCHANGED Sources!vars
<1>1. /\ call' = call /\ others' = others
      /\ \A q \in Publishers : new[q] \in {"up", "shut"} => reader'[q] = reader[q]
    <2>1. CASE FindProtocol(p) \/ WriteDefaults(p) \/ WriteEnv(p) \/ Claim(p)
        BY <2>1 DEF FindProtocol, WriteDefaults, WriteEnv, Claim, customVars, registryVars
    <2>2. CASE ExporterBuilt(p) \/ ExporterFails(p)
        BY <2>2 DEF ExporterBuilt, ExporterFails, customVars, registryVars, PublisherInv,
                    PublisherTypeOK, NewInOrder
    <2>3. CASE Return(p) \/ Shutdown(p) \/ BridgeStep(p)
        BY <2>3 DEF Return, Shutdown, BridgeStep, GatherBase, GatherOwn, customVars, registryVars
    <2> QED BY <2>1, <2>2, <2>3 DEF NewStep
<1>2. \A c \in Calls : call[c].pc \in {"create", "release", "created"} =>
          reader'[call[c].pub] = reader[call[c].pub]
    BY <1>1 DEF PublisherInv, CallsOnPublishers
<1>3. TakenOn(Ctrl)' = TakenOn(Ctrl) /\ ServedOn(Ctrl)' = ServedOn(Ctrl)
    BY <1>1, <1>2 DEF TakenOn, ServedOn, At
<1>4. \A c \in Calls : Family(c)' = Family(c)
    BY <1>1 DEF Family, PromName
<1> QED BY <1>1, <1>3, <1>4, SourcesRest DEF TakenOn

\* Nor does a step of a registration that has no family there before or after it.
LEMMA ElsewhereKeepsSources ==
    ASSUME NEW c \in Calls, c \notin TakenOn(Ctrl), c \notin TakenOn(Ctrl)',
           \A d \in Calls \ {c} : call'[d] = call[d], UNCHANGED <<reader, others>>
    PROVE  UNCHANGED Sources!vars
<1>1. TakenOn(Ctrl)' = TakenOn(Ctrl)
    BY DEF TakenOn
<1>2. c \notin ServedOn(Ctrl) /\ c \notin ServedOn(Ctrl)'
    BY DEF TakenOn, ServedOn, At
<1>3. ServedOn(Ctrl)' = ServedOn(Ctrl)
    BY <1>2 DEF ServedOn, At
<1>4. \A d \in TakenOn(Ctrl) : Family(d)' = Family(d)
    BY DEF TakenOn, Family, PromName
<1> QED BY <1>1, <1>3, <1>4, SourcesRest

\* Up to the probe a registration has no family.
LEMMA LookingKeepsSources ==
    ASSUME PublisherInv, NEW c \in Calls,
           \/ NameTaken(c) \/ ProbeRefused(c) \/ Probe(c) \/ ReserveUnprobed(c)
           \/ \E p \in Publishers, m \in Metrics : Register(c, p, m)
    PROVE  UNCHANGED Sources!vars
<1>1. /\ \A d \in Calls \ {c} : call'[d] = call[d]
      /\ UNCHANGED <<reader, others>>
      /\ call[c].pc \in {"idle", "reserve"}
      /\ \/ call'[c].pc \in {"reserve", "refused", "probed"}
         \/ reader[call'[c].pub] = None
    BY DEF NameTaken, ProbeRefused, Probe, ReserveUnprobed, Register, CallEnds, CallAt, At,
           newVars, registryVars, PublisherInv, PublisherTypeOK
<1>2. c \notin TakenOn(Ctrl) /\ c \notin TakenOn(Ctrl)'
    BY <1>1, RegistriesReal DEF TakenOn
<1> QED BY <1>1, <1>2, ElsewhereKeepsSources

\* Reserve takes the family, at the step that claims the keys.
LEMMA ReserveTakes ==
    ASSUME PublisherInv, NEW c \in Calls, Reserve(c)
    PROVE  [Sources!Next]_Sources!vars
<1>1. /\ \A d \in Calls \ {c} : call'[d] = call[d]
      /\ \A d \in Calls : call'[d].pub = call[d].pub /\ call'[d].metric = call[d].metric
      /\ UNCHANGED <<reader, others>>
      /\ call[c].pc = "probed" /\ call'[c].pc = "create"
    BY DEF Reserve, CallAt, At, newVars, PublisherInv, PublisherTypeOK
<1>2. CASE reader[call[c].pub] # Ctrl
    <2>1. c \notin TakenOn(Ctrl) /\ c \notin TakenOn(Ctrl)'
        BY <1>1, <1>2 DEF TakenOn
    <2> QED BY <1>1, <2>1, ElsewhereKeepsSources
<1>3. CASE reader[call[c].pub] = Ctrl
    <2>1. TakenOn(Ctrl)' = TakenOn(Ctrl) \cup {c}
        BY <1>1, <1>3 DEF TakenOn
    <2>2. ServedOn(Ctrl)' = ServedOn(Ctrl)
        BY <1>1 DEF ServedOn, At
    <2>3. \A d \in Calls : Family(d)' = Family(d)
        BY <1>1 DEF Family, PromName
    <2>4. \A d \in TakenOn(Ctrl) \cup {c} : d \in Calls
        BY DEF TakenOn
    <2>5. {<<Family(d), d>> : d \in TakenOn(Ctrl)}'
             = {<<Family(d), d>> : d \in TakenOn(Ctrl)} \cup {<<Family(c), c>>}
        BY <2>1, <2>3, <2>4
    <2>6. /\ Family(c) \in Families /\ Family(c) \notin others[Ctrl]
          /\ c \notin TakenOn(Ctrl)
          /\ \A d \in TakenOn(Ctrl) : Family(d) # Family(c)
        BY <1>1, <1>3, ProbedIsFree DEF At
    <2>7. PICK f \in Families : f = Family(c)
        BY <2>6
    <2>8. Sources!Take(c, f)
        BY <1>1, <2>2, <2>5, <2>6, <2>7 DEF Sources!Take, Sources!Free
    <2> QED BY <2>8 DEF Sources!Next
<1> QED BY <1>2, <1>3

\* Create has it served, unless the SDK refuses the name.
LEMMA CreateServes ==
    ASSUME PublisherInv, NEW c \in Calls, Create(c)
    PROVE  [Sources!Next]_Sources!vars
<1>1. /\ \A d \in Calls \ {c} : call'[d] = call[d]
      /\ \A d \in Calls : call'[d].pub = call[d].pub /\ call'[d].metric = call[d].metric
      /\ UNCHANGED <<reader, others>>
      /\ call[c].pc = "create" /\ call'[c].pc \in {"release", "created"}
    BY DEF Create, CallAt, At, newVars, registryVars, PublisherInv, PublisherTypeOK
<1>2. TakenOn(Ctrl)' = TakenOn(Ctrl)
    BY <1>1 DEF TakenOn
<1>3. \A d \in Calls : Family(d)' = Family(d)
    BY <1>1 DEF Family, PromName
<1>4. CASE call'[c].pc = "release" \/ reader[call[c].pub] # Ctrl
    <2>1. ServedOn(Ctrl)' = ServedOn(Ctrl)
        BY <1>1, <1>4 DEF ServedOn, At
    <2> QED BY <1>1, <1>2, <1>3, <2>1, SourcesRest DEF TakenOn
<1>5. CASE call'[c].pc = "created" /\ reader[call[c].pub] = Ctrl
    <2>1. ServedOn(Ctrl)' = ServedOn(Ctrl) \cup {c} /\ c \notin ServedOn(Ctrl)
        BY <1>1, <1>5 DEF ServedOn, At
    <2>2. c \in TakenOn(Ctrl) /\ Family(c) \in Families
        BY <1>1, <1>5, TakenAreHeld DEF TakenOn
    <2>3. {<<Family(d), d>> : d \in TakenOn(Ctrl)}' = {<<Family(d), d>> : d \in TakenOn(Ctrl)}
        BY <1>2, <1>3 DEF TakenOn
    <2>4. PICK f \in Families : f = Family(c)
        BY <2>2
    <2>5. Sources!Serve(c, f)
        BY <1>1, <2>1, <2>2, <2>3, <2>4 DEF Sources!Serve
    <2> QED BY <2>5 DEF Sources!Next
<1> QED BY <1>1, <1>4, <1>5

\* Release gives it back, and it was never served.
LEMMA ReleaseGivesBack ==
    ASSUME PublisherInv, NEW c \in Calls, Release(c)
    PROVE  [Sources!Next]_Sources!vars
<1>1. /\ \A d \in Calls \ {c} : call'[d] = call[d]
      /\ UNCHANGED <<reader, others>>
      /\ call[c].pc = "release" /\ call'[c].pc = "refused"
    BY DEF Release, CallEnds, At, newVars, registryVars, PublisherInv, PublisherTypeOK
<1>2. CASE reader[call[c].pub] # Ctrl
    <2>1. c \notin TakenOn(Ctrl) /\ c \notin TakenOn(Ctrl)'
        BY <1>1, <1>2 DEF TakenOn
    <2> QED BY <1>1, <2>1, ElsewhereKeepsSources
<1>3. CASE reader[call[c].pub] = Ctrl
    <2>1. c \in TakenOn(Ctrl) /\ Family(c) \in Families
        BY <1>1, <1>3, TakenAreHeld DEF TakenOn
    <2>2. TakenOn(Ctrl)' = TakenOn(Ctrl) \ {c}
        BY <1>1 DEF TakenOn
    <2>3. ServedOn(Ctrl)' = ServedOn(Ctrl) /\ c \notin ServedOn(Ctrl)
        BY <1>1 DEF ServedOn, At
    <2>4. \A d \in TakenOn(Ctrl) \ {c} : Family(d)' = Family(d)
        BY <1>1 DEF TakenOn, Family, PromName
    <2>5. {<<Family(d), d>> : d \in TakenOn(Ctrl)}'
             = {<<Family(d), d>> : d \in TakenOn(Ctrl)} \ {<<Family(c), c>>}
        BY <2>1, <2>2, <2>4
    <2>6. PICK f \in Families : f = Family(c)
        BY <2>1
    <2>7. Sources!GiveBack(c, f)
        BY <1>1, <2>1, <2>3, <2>5, <2>6 DEF Sources!GiveBack
    <2> QED BY <2>7 DEF Sources!Next
<1> QED BY <1>2, <1>3

\* Another component gets only a family that was never probed for, hence of no
\* registration.
LEMMA OtherTakesFree ==
    ASSUME PublisherInv, NEW r \in Registries, NEW f \in Foreign, OtherRegisters(r, f)
    PROVE  [Sources!Next]_Sources!vars
<1>1. UNCHANGED <<call, reader>> /\ f \notin others[r] /\ f \notin probed[r]
      /\ others' = [others EXCEPT ![r] = @ \cup {f}]
    BY DEF OtherRegisters, newVars, customVars
<1>2. TakenOn(Ctrl)' = TakenOn(Ctrl) /\ ServedOn(Ctrl)' = ServedOn(Ctrl)
    BY <1>1 DEF TakenOn, ServedOn, At
<1>3. \A c \in TakenOn(Ctrl) : Family(c)' = Family(c)
    BY <1>1 DEF Family, PromName
<1>4. CASE r # Ctrl
    BY <1>1, <1>2, <1>3, <1>4, SourcesRest DEF PublisherInv, PublisherTypeOK
<1>5. CASE r = Ctrl
    <2>1. others'[Ctrl] = others[Ctrl] \cup {f}
        BY <1>1, <1>5 DEF PublisherInv, PublisherTypeOK
    <2>2. \A c \in TakenOn(Ctrl) : Family(c) # f
        BY <1>1, <1>5, TakenAreHeld
    <2>3. {<<Family(d), d>> : d \in TakenOn(Ctrl)}' = {<<Family(d), d>> : d \in TakenOn(Ctrl)}
        BY <1>2, <1>3
    <2>4. Sources!OtherTakes(f)
        BY <1>1, <1>2, <1>5, <2>1, <2>2, <2>3 DEF Sources!OtherTakes, Sources!Free
    <2> QED BY <2>4 DEF Sources!Next, Families
<1> QED BY <1>4, <1>5

\* Reservations under a mutex per Publisher, probes on a registry others use and the
\* claim on that registry come to one test-and-set per family (reserve, claimedOn,
\* release, buildPrometheusReader): Publisher implements FamilySources.
THEOREM FamiliesTakenAtOnce == PublisherSpec => ImplementsFamilySources
<1>1. PublisherInit => Sources!Init
    <2> SUFFICES ASSUME PublisherInit PROVE Sources!Init
        OBVIOUS
    <2>1. TakenOn(Ctrl) = {} /\ ServedOn(Ctrl) = {}
        BY DEF PublisherInit, TakenOn, ServedOn, At
    <2>2. others[Ctrl] = {}
        BY PublisherAssumption DEF PublisherInit
    <2> QED BY <2>1, <2>2 DEF Sources!Init
<1>2. PublisherInv /\ [PublisherNext]_pubVars => [Sources!Next]_Sources!vars
    <2> SUFFICES ASSUME PublisherInv, [PublisherNext]_pubVars
                 PROVE  [Sources!Next]_Sources!vars
        OBVIOUS
    <2>1. ASSUME NEW p \in Publishers, NewStep(p) \/ Shutdown(p) \/ BridgeStep(p)
          PROVE  [Sources!Next]_Sources!vars
        BY <2>1, NewKeepsSources
    <2>2. ASSUME NEW c \in Calls,
                 CallStep(c) \/ \E p \in Publishers, m \in Metrics : Register(c, p, m)
          PROVE  [Sources!Next]_Sources!vars
        BY <2>2, LookingKeepsSources, ReserveTakes, CreateServes, ReleaseGivesBack DEF CallStep
    <2>3. ASSUME NEW r \in Registries, NEW f \in Foreign, OtherRegisters(r, f)
          PROVE  [Sources!Next]_Sources!vars
        BY <2>3, OtherTakesFree
    <2>4. ASSUME UNCHANGED pubVars PROVE UNCHANGED Sources!vars
        <3>1. UNCHANGED <<call, reader, others>>
            BY <2>4 DEF pubVars, newVars, registryVars, customVars
        <3>2. TakenOn(Ctrl)' = TakenOn(Ctrl) /\ ServedOn(Ctrl)' = ServedOn(Ctrl)
              /\ \A c \in TakenOn(Ctrl) : Family(c)' = Family(c)
            BY <3>1 DEF TakenOn, ServedOn, At, Family, PromName
        <3> QED BY <3>1, <3>2, SourcesRest
    <2> QED BY <2>1, <2>2, <2>3, <2>4 DEF PublisherNext
<1> QED BY <1>1, <1>2, PublisherInvariance, PTL DEF PublisherSpec, ImplementsFamilySources, Sources!Spec

-----------------------------------------------------------------------------
(* The configuration.                                                      *)

\* A block that holds what the environment names, its protocol aside, ...
Heeds(o, e) ==
    /\ o.endpoint = Otherwise(e.endpoint, o.endpoint)
    /\ e.headers # Unset =>
          \A k \in DOMAIN ParseHeaders(e.headers) :
              o.headers[k] = ParseHeaders(e.headers)[k]

\* ... and one that has a protocol, the one the environment names.
Settled(o, e) == o.protocol # Unset /\ o.protocol = Otherwise(e.protocol, o.protocol)

\* The defaults touch neither the endpoint nor the headers, and the protocol only if it
\* was found blank.
LEMMA DefaultedBlock ==
    ASSUME NEW o, NEW b, DOMAIN o = DOMAIN Blank
    PROVE  LET f == FillDefaults(o, b) IN
           /\ DOMAIN f = DOMAIN Blank
           /\ f.endpoint = o.endpoint /\ f.headers = o.headers
           /\ f.protocol = IF b THEN "grpc" ELSE o.protocol
<1>1. DOMAIN Blank = {"endpoint", "protocol", "headers", "rest"}
    BY DEF Blank
<1> QED BY <1>1 DEF FillDefaults

\* The environment is written over what the block held.
LEMMA OverriddenBlock ==
    ASSUME NEW o, NEW e, DOMAIN o = DOMAIN Blank
    PROVE  /\ DOMAIN Override(o, e) = DOMAIN Blank
           /\ Heeds(Override(o, e), e)
           /\ Override(o, e).protocol = Otherwise(e.protocol, o.protocol)
<1> DEFINE w == Override(o, e)
           h == ParseHeaders(e.headers)
<1>1. DOMAIN Blank = {"endpoint", "protocol", "headers", "rest"}
    BY DEF Blank
<1> HIDE DEF h
<1>2. /\ DOMAIN w = DOMAIN Blank
      /\ w.endpoint = Otherwise(e.endpoint, o.endpoint)
      /\ w.protocol = Otherwise(e.protocol, o.protocol)
      /\ w.headers = IF e.headers = Unset THEN o.headers ELSE Onto(o.headers, h)
    BY <1>1 DEF Override, h
<1> HIDE DEF w
<1>3. w.endpoint = Otherwise(e.endpoint, w.endpoint)
    BY <1>2 DEF Otherwise
<1>4. e.headers # Unset => \A k \in DOMAIN h : w.headers[k] = h[k]
    BY <1>2 DEF Onto
<1> QED BY <1>2, <1>3, <1>4 DEF Heeds, w, h

\* What WriteEnv leaves in the caller's block: it heeds the environment, and it keeps the
\* protocol of a block that was settled.
LEMMA WrittenBlock ==
    ASSUME NEW o, NEW e, DOMAIN o = DOMAIN Blank
    PROVE  LET w == OTLPDefaults(Override(o, e)) IN
           /\ DOMAIN w = DOMAIN Blank /\ Heeds(w, e) /\ Settled(w, e)
           /\ Settled(o, e) => w.protocol = o.protocol
<1> DEFINE v == Override(o, e)
           w == FillDefaults(v, v.protocol = Unset)
<1>1. DOMAIN v = DOMAIN Blank /\ Heeds(v, e) /\ v.protocol = Otherwise(e.protocol, o.protocol)
    BY OverriddenBlock
<1> HIDE DEF v
<1>2. /\ DOMAIN w = DOMAIN Blank
      /\ w.endpoint = v.endpoint /\ w.headers = v.headers
      /\ w.protocol = IF v.protocol = Unset THEN "grpc" ELSE v.protocol
    BY <1>1, DefaultedBlock
<1> HIDE DEF w
<1>3. Heeds(w, e)
    BY <1>1, <1>2 DEF Heeds
<1>4. Settled(w, e) /\ (Settled(o, e) => w.protocol = o.protocol)
    BY <1>1, <1>2, PublisherAssumption DEF Settled, Otherwise
<1> QED BY <1>2, <1>3, <1>4 DEF OTLPDefaults, w, v

\* The block a New makes for itself is one, made where the environment asks for it.
LEMMA FreshBlock ==
    ASSUME NEW cfg, NEW e
    PROVE  /\ \A o \in Fresh(cfg, e) : Fresh(cfg, e) = {o} /\ Heeds(o, e) /\ Settled(o, e)
           /\ cfg.otlp = {} /\ NamesOTLP(e) => Fresh(cfg, e) # {}
<1> DEFINE d == FillDefaults(Blank, Blank.protocol = Unset)
           w == Override(d, e)
<1>1. DOMAIN d = DOMAIN Blank /\ d.protocol = "grpc"
    BY DefaultedBlock DEF Blank
<1> HIDE DEF d
<1>2. Heeds(w, e) /\ w.protocol = Otherwise(e.protocol, "grpc")
    BY <1>1, OverriddenBlock
<1> HIDE DEF w
<1>3. Settled(w, e)
    BY <1>2, PublisherAssumption DEF Settled, Otherwise
<1>4. Fresh(cfg, e) = IF cfg.otlp = {} /\ NamesOTLP(e) THEN {w} ELSE {}
    BY DEF Fresh, OTLPDefaults, w, d
<1> QED BY <1>2, <1>3, <1>4

\* What a configured New has: a block that heeds the environment and, if it overlapped no
\* other, one that is settled, with nobody left who found it blank.
Configured(p) ==
    /\ env.service # Unset => settings[p].name = env.service
    /\ NamesOTLP(env) => Block(p) # {}
    /\ \A o \in settings[p].otlp : settings[p].otlp = {o}
    /\ \A o \in Block(p) : Heeds(o, env)
    /\ p \notin overlapped =>
          /\ blank = {}
          /\ \A o \in Block(p) : Settled(o, env) /\ (otlp[p] # None => otlp[p] = Transport(o))

Early == {"new", "defaults", "env"}

\* Two News that are configured at once through one pointer have overlapped.
ConfigInv ==
    /\ \A o \in config.otlp : DOMAIN o = DOMAIN Blank /\ config.otlp = {o}
    /\ \A p \in Publishers : new[p] \in Early => settings[p] = Nil
    /\ blank \subseteq Configuring
    /\ config.otlp = {} => blank = {}
    /\ config.otlp # {} => \A p, q \in Configuring : p = q \/ p \in overlapped
    /\ \A p \in Publishers : settings[p] # Nil => Configured(p)

\* A New that looks at the block finds it settled once one has been configured alone.
LEMMA FindProtocolConfig ==
    ASSUME PublisherInv, ConfigInv, NEW p \in Publishers, FindProtocol(p)
    PROVE  ConfigInv'
<1> USE DEF FindProtocol, NewAt
<1>1. /\ new[p] = "new" /\ new' = [new EXCEPT ![p] = "defaults"]
      /\ UNCHANGED <<config, env, settings, otlp>>
    OBVIOUS
<1>2. settings[p] = Nil /\ p \notin Configuring
    BY <1>1 DEF ConfigInv, Early, Configuring
<1>3. \A q \in Publishers : q # p => new'[q] = new[q]
    BY <1>1 DEF PublisherInv, PublisherTypeOK
<1>4. new'[p] = "defaults"
    BY <1>1 DEF PublisherInv, PublisherTypeOK
<1>5. Configuring' = Configuring \cup {p}
    BY <1>3, <1>4 DEF Configuring
<1>6. ASSUME NEW q \in Publishers, settings[q] # Nil PROVE Configured(q)'
    <2>1. q # p /\ q \notin Configuring /\ Configured(q)
        BY <1>2, <1>6 DEF ConfigInv, Configuring, Early
    <2>2. q \notin overlapped' => q \notin overlapped
        OBVIOUS
    <2>3. Block(q)' = Block(q)
        BY <1>1 DEF Block
    <2>4. q \notin overlapped' => blank' = {}
        <3>1. config.otlp # {} => Block(q) = config.otlp
            BY DEF Block
        <3>2. ASSUME q \notin overlapped', NEW o \in config.otlp PROVE o.protocol # Unset
            BY <2>1, <2>2, <3>1, <3>2 DEF Configured, Settled
        <3> QED BY <2>1, <2>2, <3>2 DEF Configured
    <2> QED BY <1>1, <2>1, <2>2, <2>3, <2>4 DEF Configured, NamesOTLP
<1>7. blank' \subseteq Configuring' /\ (config'.otlp = {} => blank' = {})
    BY <1>1, <1>5 DEF ConfigInv
<1>8. config'.otlp # {} => \A q, r \in Configuring' : q = r \/ q \in overlapped'
    BY <1>1, <1>5 DEF ConfigInv
<1>9. \A q \in Publishers : new'[q] \in Early => settings'[q] = Nil
    BY <1>1, <1>2, <1>3 DEF ConfigInv
<1> QED BY <1>1, <1>6, <1>7, <1>8, <1>9 DEF ConfigInv

\* The defaults, however late, change a block only if it was found blank.
LEMMA WriteDefaultsConfig ==
    ASSUME PublisherInv, ConfigInv, NEW p \in Publishers, WriteDefaults(p)
    PROVE  ConfigInv'
<1>1. /\ new[p] = "defaults" /\ new' = [new EXCEPT ![p] = "env"]
      /\ UNCHANGED <<env, settings, blank, overlapped, otlp>>
    BY DEF WriteDefaults, NewAt
<1>2. config'.otlp = {FillDefaults(o, p \in blank) : o \in config.otlp}
    BY DEF WriteDefaults, PublisherInv, NewInOrder
<1>3. \A o \in config.otlp : DOMAIN o = DOMAIN Blank /\ config.otlp = {o}
    BY DEF ConfigInv
<1>4. \A u \in config'.otlp : DOMAIN u = DOMAIN Blank /\ config'.otlp = {u}
    BY <1>2, <1>3, DefaultedBlock
<1>5. \A u \in config'.otlp, o \in config.otlp :
          /\ Heeds(o, env) => Heeds(u, env)
          /\ p \notin blank => u.protocol = o.protocol
    <2>1. ASSUME NEW u \in config'.otlp, NEW o \in config.otlp
          PROVE  /\ u.endpoint = o.endpoint /\ u.headers = o.headers
                 /\ p \notin blank => u.protocol = o.protocol
        <3>1. u = FillDefaults(o, p \in blank)
            BY <1>2, <1>3
        <3> QED BY <1>3, <3>1, DefaultedBlock
    <2> QED BY <2>1 DEF Heeds
<1>6. config'.otlp = {} <=> config.otlp = {}
    BY <1>2
<1>7. Configuring' = Configuring
    BY <1>1 DEF Configuring, PublisherInv, PublisherTypeOK
<1>8. \A q \in Publishers : new'[q] \in Early => settings'[q] = Nil
    BY <1>1 DEF ConfigInv, Early, PublisherInv, PublisherTypeOK
<1>9. ASSUME NEW q \in Publishers, settings[q] # Nil PROVE Configured(q)'
    <2>1. Configured(q)
        BY <1>9 DEF ConfigInv
    <2>2. CASE config.otlp = {}
        <3>1. Block(q)' = Block(q)
            BY <1>1, <1>6, <2>2 DEF Block
        <3> QED BY <1>1, <2>1, <3>1 DEF Configured, NamesOTLP
    <2>3. CASE config.otlp # {}
        <3>1. PICK o \in config.otlp : TRUE
            BY <2>3
        <3>2. o \in Block(q) /\ Block(q)' = config'.otlp
            BY <1>6, <2>3 DEF Block
        <3>3. \A u \in Block(q)' : Heeds(u, env)
            BY <1>5, <2>1, <3>2 DEF Configured
        <3>4. q \notin overlapped => p \notin blank
            BY <2>1 DEF Configured
        <3>5. q \notin overlapped =>
                  \A u \in Block(q)' : Settled(u, env) /\ (otlp[q] # None => otlp[q] = Transport(u))
            BY <1>5, <2>1, <3>2, <3>4 DEF Configured, Settled, Transport
        <3> QED BY <1>1, <1>6, <2>1, <2>3, <3>2, <3>3, <3>5 DEF Configured, NamesOTLP
    <2> QED BY <2>2, <2>3
<1> QED BY <1>1, <1>4, <1>6, <1>7, <1>8, <1>9 DEF ConfigInv

\* The environment settles the block, and leaves a settled one its protocol.
LEMMA WriteEnvConfig ==
    ASSUME PublisherInv, ConfigInv, NEW p \in Publishers, WriteEnv(p)
    PROVE  ConfigInv'
<1>1. /\ new[p] = "env" /\ settings' = [settings EXCEPT ![p] = Settings(config, env)]
      /\ \E to \in {"prometheus", "failed"} : new' = [new EXCEPT ![p] = to]
      /\ blank' = blank \ {p} /\ UNCHANGED <<env, overlapped, otlp>>
    BY DEF WriteEnv, NewAt
<1>2. config'.otlp = {OTLPDefaults(Override(o, env)) : o \in config.otlp}
    BY DEF WriteEnv, PublisherInv, NewInOrder
<1>3. \A o \in config.otlp : DOMAIN o = DOMAIN Blank /\ config.otlp = {o}
    BY DEF ConfigInv
<1>4. \A u \in config'.otlp : DOMAIN u = DOMAIN Blank /\ config'.otlp = {u}
    BY <1>2, <1>3, WrittenBlock
<1>5. \A u \in config'.otlp : Heeds(u, env) /\ Settled(u, env)
    BY <1>2, <1>3, WrittenBlock
<1>6. \A u \in config'.otlp, o \in config.otlp : Settled(o, env) => u.protocol = o.protocol
    <2>1. ASSUME NEW u \in config'.otlp, NEW o \in config.otlp, Settled(o, env)
          PROVE  u.protocol = o.protocol
        <3>1. u = OTLPDefaults(Override(o, env))
            BY <1>2, <1>3
        <3> QED BY <1>3, <2>1, <3>1, WrittenBlock
    <2> QED BY <2>1
<1>7. config'.otlp = {} <=> config.otlp = {}
    BY <1>2
<1>8. /\ p \in Configuring /\ Configuring' = Configuring \ {p}
      /\ \A q \in Publishers : q # p => new'[q] = new[q]
      /\ new'[p] \notin Early
    BY <1>1 DEF Configuring, PublisherInv, PublisherTypeOK, Early
<1>9. \A q \in Publishers : q # p => settings'[q] = settings[q]
    BY <1>1 DEF PublisherInv, NewInOrder
<1>10. p \notin overlapped => blank' = {}
    BY <1>1, <1>8 DEF ConfigInv
<1>11. Configured(p)'
    <2>1. /\ settings'[p].name = Otherwise(env.service, config.name)
          /\ settings'[p].otlp = Fresh(config, env)
        BY <1>1 DEF PublisherInv, NewInOrder, Settings, ApplyDefaults
    <2>2. Block(p)' = IF config.otlp # {} THEN config'.otlp ELSE Fresh(config, env)
        BY <1>7, <2>1 DEF Block
    <2>3. \A o \in Block(p)' : Heeds(o, env) /\ Settled(o, env)
        BY <1>5, <2>2, FreshBlock
    <2>4. NamesOTLP(env) => Block(p)' # {}
        BY <1>7, <2>2, FreshBlock
    <2>5. \A o \in settings'[p].otlp : settings'[p].otlp = {o}
        BY <2>1, FreshBlock
    <2>6. env.service # Unset => settings'[p].name = env.service
        BY <2>1 DEF Otherwise
    <2>7. otlp[p] = None
        BY <1>1 DEF PublisherInv, NewInOrder
    <2> QED BY <1>1, <1>10, <2>3, <2>4, <2>5, <2>6, <2>7 DEF Configured, NamesOTLP
<1>12. ASSUME NEW q \in Publishers, q # p, settings[q] # Nil PROVE Configured(q)'
    <2>1. Configured(q) /\ settings'[q] = settings[q]
        BY <1>9, <1>12 DEF ConfigInv
    <2>2. q \notin overlapped => blank' = {}
        BY <1>1, <2>1 DEF Configured
    <2>3. CASE config.otlp = {}
        <3>1. Block(q)' = Block(q)
            BY <1>7, <2>1, <2>3 DEF Block
        <3> QED BY <1>1, <2>1, <2>2, <3>1 DEF Configured, NamesOTLP
    <2>4. CASE config.otlp # {}
        <3>1. PICK o \in config.otlp : TRUE
            BY <2>4
        <3>2. o \in Block(q) /\ Block(q)' = config'.otlp
            BY <1>7, <2>4 DEF Block
        <3>3. q \notin overlapped => \A u \in Block(q)' : otlp[q] # None => otlp[q] = Transport(u)
            BY <1>6, <2>1, <3>2 DEF Configured, Transport
        <3> QED BY <1>1, <1>5, <1>7, <2>1, <2>2, <2>4, <3>2, <3>3 DEF Configured, NamesOTLP
    <2> QED BY <2>3, <2>4
<1>13. \A q \in Publishers : new'[q] \in Early => settings'[q] = Nil
    BY <1>8, <1>9 DEF ConfigInv
<1>14. \A q \in Publishers : settings'[q] # Nil => Configured(q)'
    BY <1>9, <1>11, <1>12
<1>15. blank' \subseteq Configuring' /\ (config'.otlp = {} => blank' = {})
    BY <1>1, <1>7, <1>8 DEF ConfigInv
<1>16. config'.otlp # {} => \A q, r \in Configuring' : q = r \/ q \in overlapped'
    BY <1>1, <1>7, <1>8 DEF ConfigInv
<1> QED BY <1>4, <1>13, <1>14, <1>15, <1>16 DEF ConfigInv

\* Return takes the transport from the block.
LEMMA ReturnConfig ==
    ASSUME PublisherInv, ConfigInv, NEW p \in Publishers, Return(p)
    PROVE  ConfigInv'
<1> USE DEF Return, NewAt
<1>1. /\ new[p] = "otlp" /\ new' = [new EXCEPT ![p] = "up"]
      /\ UNCHANGED <<config, env, settings, blank, overlapped>>
    OBVIOUS
<1>2. PICK t \in {None} \cup {Transport(o) : o \in Block(p)} : otlp' = [otlp EXCEPT ![p] = t]
    OBVIOUS
<1>3. \A q \in Publishers : otlp'[q] = IF q = p THEN t ELSE otlp[q]
    BY <1>2 DEF PublisherInv, PublisherTypeOK
<1>4. Configuring' = Configuring /\ \A q \in Publishers : new'[q] \in Early => new[q] \in Early
    BY <1>1 DEF Configuring, Early, PublisherInv, PublisherTypeOK
<1>5. \A q \in Publishers : Block(q)' = Block(q)
    BY <1>1 DEF Block
<1>6. ASSUME NEW q \in Publishers, settings[q] # Nil PROVE Configured(q)'
    <2>1. Configured(q)
        BY <1>6 DEF ConfigInv
    <2>2. \A o \in Block(q) : Block(q) = {o}
        BY <2>1 DEF Block, Configured, ConfigInv
    <2>3. q \notin overlapped => \A o \in Block(q) : otlp'[q] # None => otlp'[q] = Transport(o)
        BY <1>3, <2>1, <2>2 DEF Configured
    <2> QED BY <1>1, <1>5, <2>1, <2>3 DEF Configured, NamesOTLP
<1> QED BY <1>1, <1>4, <1>6 DEF ConfigInv

\* Nothing else touches the configuration, or a New that is being configured.
LEMMA ConfigFrame ==
    ASSUME PublisherInv, [PublisherNext]_pubVars
    PROVE  \/ \E p \in Publishers : FindProtocol(p) \/ WriteDefaults(p) \/ WriteEnv(p) \/ Return(p)
           \/ /\ UNCHANGED <<config, env, settings, blank, overlapped, otlp>>
              /\ \A q \in Publishers : new'[q] = new[q] \/ {new[q], new'[q]} \cap Early = {}
<1> USE DEF PublisherInv, PublisherTypeOK, Early
<1>1. ASSUME UNCHANGED newVars
      PROVE  UNCHANGED <<config, env, settings, blank, overlapped, otlp, new>>
    BY <1>1 DEF newVars
<1>2. ASSUME NEW p \in Publishers,
             \/ Claim(p) \/ ExporterBuilt(p) \/ ExporterFails(p) \/ Shutdown(p) \/ BridgeStep(p)
      PROVE  /\ UNCHANGED <<config, env, settings, blank, overlapped, otlp>>
             /\ \A q \in Publishers : new'[q] = new[q] \/ {new[q], new'[q]} \cap Early = {}
    <2>1. CASE Claim(p)
        BY <2>1 DEF Claim, NewAt
    <2>2. CASE ExporterBuilt(p) \/ ExporterFails(p) \/ Shutdown(p)
        BY <2>2 DEF ExporterBuilt, ExporterFails, Shutdown, NewAt
    <2>3. CASE BridgeStep(p)
        BY <2>3 DEF BridgeStep, GatherBase, GatherOwn
    <2> QED BY <1>2, <2>1, <2>2, <2>3
<1>3. ASSUME NEW c \in Calls, CallStep(c) PROVE UNCHANGED newVars
    BY <1>3 DEF CallStep, NameTaken, ReserveUnprobed, ProbeRefused, Probe, Reserve, Create, Release
<1>4. ASSUME NEW c \in Calls, NEW p \in Publishers, NEW m \in Metrics, Register(c, p, m)
      PROVE  UNCHANGED newVars
    BY <1>4 DEF Register
<1>5. ASSUME NEW r \in Registries, NEW f \in Foreign, OtherRegisters(r, f)
      PROVE  UNCHANGED newVars
    BY <1>5 DEF OtherRegisters
<1>6. ASSUME UNCHANGED pubVars PROVE UNCHANGED newVars
    BY <1>6 DEF pubVars
<1> QED BY <1>1, <1>2, <1>3, <1>4, <1>5, <1>6 DEF PublisherNext, NewStep

\* ConfigInv is preserved beside PublisherInv.
LEMMA ConfigStep == PublisherInv /\ ConfigInv /\ [PublisherNext]_pubVars => ConfigInv'
<1> SUFFICES ASSUME PublisherInv, ConfigInv, [PublisherNext]_pubVars PROVE ConfigInv'
    OBVIOUS
<1>1. ASSUME UNCHANGED <<config, env, settings, blank, overlapped, otlp>>,
             \A q \in Publishers : new'[q] = new[q] \/ {new[q], new'[q]} \cap Early = {}
      PROVE  ConfigInv'
    <2>1. Configuring' = Configuring /\ \A q \in Publishers : new'[q] \in Early => new[q] \in Early
        BY <1>1 DEF Configuring, Early
    <2>2. \A q \in Publishers : Configured(q) => Configured(q)'
        BY <1>1 DEF Configured, Block, NamesOTLP
    <2> QED BY <1>1, <2>1, <2>2 DEF ConfigInv
<1> QED BY <1>1, ConfigFrame, FindProtocolConfig, WriteDefaultsConfig, WriteEnvConfig, ReturnConfig

\* The environment wins in every New, over the defaults and beside any number of other
\* News that write through the pointer they share; the protocol, whose default is
\* written on an earlier look, in every New that no other overlapped while it was
\* configured (applyDefaults, applyEnvOverrides, buildOTLPReader).
THEOREM EnvironmentAlwaysWins == PublisherSpec => []EnvironmentWins
<1>1. PublisherInit => ConfigInv
    BY PublisherAssumption DEF PublisherInit, ConfigInv, Configuring
<1>2. PublisherInv /\ ConfigInv /\ [PublisherNext]_pubVars => ConfigInv'
    BY ConfigStep
<1>3. ConfigInv => EnvironmentWins
    BY DEF ConfigInv, Configured, EnvironmentWins, Heeds, Settled
<1> QED BY <1>1, <1>2, <1>3, PublisherInvariance, PTL DEF PublisherSpec
=============================================================================
