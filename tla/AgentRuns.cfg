SPECIFICATION FairSpec
CONSTANTS
    MaxRuns = 3
    maxConcurrency = 2
    Origins = {"user"}
INVARIANTS
    SlotsExact
    WriterAlone
    NoLostWakeup
    OutcomesAgree
PROPERTIES
    ClosedForGood
    NoOvertaking
    InterruptedRunsEnd
CHECK_DEADLOCK FALSE
