SPECIFICATION QueueSpec
CONSTANTS
    Workers = {w1}
    Nobody = Nobody
    Other = Other
    Keys <- MCReportAndReview
    ReviewKey = "review"
    MaxScan = 2
    MaxJobs = 2
    MaxClicks = 2
    MaxStalls = 0
    MaxCrashes = 1
INVARIANT StartedAgain
CHECK_DEADLOCK FALSE
