SPECIFICATION OwnerFairSpec
CONSTANTS
    MaxCompletions = 3
    Retries = 3
INVARIANTS
    AcceptedOnce
    NothingForgotten
PROPERTIES
    Delivered
