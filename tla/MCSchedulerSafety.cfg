SPECIFICATION Spec
CONSTANTS
    Invocations = {i1, i2}
    Nobody = Nobody
    Lanes <- MCDailyLane
    Span <- MCDailySpan
    Long = {}
    ScanLimit = 2
    Catchup = 2
    MaxDay = 2
    MaxStalls = 1
    MaxCrashes = 1
SYMMETRY Symmetric
INVARIANT NoDoubleWork
PROPERTY WorkIsKept
CHECK_DEADLOCK FALSE
