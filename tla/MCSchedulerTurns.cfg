SPECIFICATION FairSpec
CONSTANTS
    Invocations = {i1}
    Nobody = Nobody
    Lanes <- MCLanes
    Span <- MCSpan
    Long = {"seasonal"}
    ScanLimit = 2
    Catchup = 2
    MaxDay = 2
    MaxStalls = 1
    MaxCrashes = 1
INVARIANTS
    LongSeasonsAreWhole
PROPERTY LanesAlternate
CHECK_DEADLOCK FALSE
