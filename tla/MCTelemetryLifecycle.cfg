CONSTANTS
    Inits = {"g1", "g2"}
    Callers = {"k1", "k2"}
    External = "external"
    NilPointer = "nil pointer"
    Default = "default"
    Noop = "noop"
    None = None
    Unset = Unset
    NaN = NaN
    Garbage = Garbage
    Configs <- MCConfigs
    Envs <- MCEnvs
    Chains <- MCChains
SPECIFICATION FairLifecycleSpec
INVARIANTS
    NothingLeaks
    RunningIsWired
    GoneWithoutTrace
    FlagHasOwner
    PipelineAsAsked
    RecordsCorrelated
PROPERTIES
    ImplementsTelemetryOwnership
    ExternalKept
    LifecycleCallsReturn
CHECK_DEADLOCK FALSE
