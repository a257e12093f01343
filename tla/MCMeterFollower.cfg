CONSTANTS
    Providers = {"noop", "first", "second"}
    Noop = "noop"
    First = "first"
    Broken = {"first", "second"}
    Calls = {"r1", "r2"}
    MaxCalls = 4
    None = None
SPECIFICATION FairFollowerSpec
INVARIANTS
    ActiveBalanced
    BuiltOnceWhenQuiet
PROPERTIES
    ImplementsUncachedInstruments
    CallsFinish
CHECK_DEADLOCK FALSE
