SPECIFICATION FairSpec
CONSTANTS
    m1 = m1
    c1 = c1
    c2 = c2
    d1 = d1
    d2 = d2
    d3 = d3
    Scheduled = {}
    Manual = {m1}
    NoRun = NoRun
    Consumers = {c1, c2}
    Deliveries = {d1, d2, d3}
INVARIANTS RunsOnce NotRunNeverRan
PROPERTIES EveryRunEnds
