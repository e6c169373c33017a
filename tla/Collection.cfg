SPECIFICATION FairSpec
CONSTANTS
    History = {"temp", "boiler"}
    Overlap = 2
    Day = 1
    Window = 2
    Limit = 3
    Horizon = 3
    MaxRequests = 1
    MaxTime = 3
    MaxOutages = 1
    MaxFaults = 1
PROPERTIES NothingLost CoverageGrows SlotsComplete OthersArrive
CHECK_DEADLOCK FALSE
