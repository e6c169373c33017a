SPECIFICATION OperationsSpec
CONSTANTS
    Workers = {w1, w2}
    Nobody = Nobody
    Other = Other
    Keys <- MCReportAndReview
    ReviewKey = "review"
    MaxScan = 2
    MaxJobs = 2
    MaxClicks = 2
    MaxStalls = 1
    MaxCrashes = 1
SYMMETRY Symmetric
PROPERTIES
    RequestKept
    StoredIsNotBought
    ServiceSound
    ToolsSound
CHECK_DEADLOCK FALSE
