SPECIFICATION HealthySpec
CONSTANTS
    Invocations = {i1}
    Nobody = Nobody
    Lanes <- MCDailyLane
    Span <- MCDailySpan
    Long = {}
    ScanLimit = 2
    Catchup = 3
    MaxDay = 3
    MaxStalls = 0
    MaxCrashes = 0
PROPERTIES
    CatchesUp
CHECK_DEADLOCK FALSE
