SPECIFICATION FairSpec
CONSTANTS
    Requests = {c1, c2}
    Subs = {s1}
    MaxSockets = 3
INVARIANTS
    SubscriptionsRestored
PROPERTIES
    CallsSettle
CHECK_DEADLOCK FALSE
