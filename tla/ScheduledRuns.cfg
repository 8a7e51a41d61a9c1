SPECIFICATION Spec
CONSTANTS
    s1 = s1
    s2 = s2
    Scheduled = {s1, s2}
    Manual = {}
    NoRun = NoRun
    Errors = {"retryable", "deadline", "denied"}
    MaxCrashes = 1
    MaxLate = 1
SYMMETRY RunSymmetry
INVARIANTS SkippedNeverRan OneOwner DeliveredIsRecorded
PROPERTIES EndedIsFinal ResultsAreSavedFirst
