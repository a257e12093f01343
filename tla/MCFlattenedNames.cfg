CONSTANTS
    Ctrl = "ctrl"
    Unset = Unset
    Nil = Nil
    p1 = p1
    p2 = p2
    c1 = c1
    c2 = c2
    c3 = c3
    Publishers = {p1, p2}
    Calls = {c1, c2}
    Registries = {"ctrl", "own"}
    Names <- MCNames
    Legal = {"widgets", "widgets__total", "latency", "latency_count"}
    TooLong = {}
    Metrics <- MCFlattened
    Translated <- MCTranslated
    Foreign = {"widgets_total"}
    Magic <- MCMagic
    Configs <- MCConfig
    Envs <- MCEnv
    None = None
SYMMETRY Symmetric
SPECIFICATION PublisherSpec
INVARIANTS
    MetricsServable
CHECK_DEADLOCK FALSE
