SPECIFICATION ChainSpec
CONSTANTS
    MaxPanics = 2
    None = None
INVARIANTS
    PanicsAccounted
    PanicsCarryRoute
    SpanAgreesWithMetric
    MeasuredUnlessSkipped
    NoStatusOverResponse
\* The request ends.
CHECK_DEADLOCK FALSE
