SPECIFICATION FairSpec
CONSTANTS
    s1 = s1
    s2 = s2
    Scheduled = {s1}
    Manual = {}
    NoRun = NoRun
    Errors = {"retryable", "deadline", "denied"}
    MaxCrashes = 2
    MaxLate = 1
PROPERTIES RestartDrains RecoveryEnds
