SPECIFICATION ChainSpec
CONSTANTS
    MaxPanics = 2
    None = None
INVARIANT MethodsCollapse
CHECK_DEADLOCK FALSE
