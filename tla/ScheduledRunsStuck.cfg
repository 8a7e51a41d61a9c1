SPECIFICATION FairSpec
CONSTANTS
    s1 = s1
    s2 = s2
    Scheduled = {s1}
    Manual = {}
    NoRun = NoRun
    Errors = {"retryable"}
    MaxCrashes = 0
    MaxLate = 0
PROPERTIES LiveOutboxDrains
