CONSTANTS
    Ctrl = "ctrl"
    Unset = Unset
    Nil = Nil
    p1 = p1
    p2 = p2
    c1 = c1
    c2 = c2
    c3 = c3
    Publishers = {p1, p2}
    Calls = {c1, c2}
    Registries = {"ctrl", "own"}
    Names <- MCNames
    Legal = {"widgets", "widgets__total", "latency", "latency_count"}
    TooLong = {"latency_count"}
    Metrics <- MCMetrics
    Translated <- MCTranslated
    Foreign = {"widgets_total"}
    Magic <- MCMagic
    Configs <- MCConfigs
    Envs <- MCEnvs
    None = None
SYMMETRY Symmetric
SPECIFICATION PublisherSpec
INVARIANTS
    OneSourceEach
    ReservationsBacked
    NoProbeStays
    ClaimHasReader
    OnlyOwnLeftOut
    EnvironmentWins
PROPERTIES
    ImplementsFamilySources
CHECK_DEADLOCK FALSE
