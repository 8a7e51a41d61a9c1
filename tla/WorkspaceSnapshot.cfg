CONSTANTS
    o1 = o1
    o2 = o2
    p1 = p1
    p2 = p2
    Orgs = {o1, o2}
    FirstOrg = o1
    Projects = {p1, p2}
    Present = {p1}
    MaxLoads = 2
    MaxTimers = 3
    MaxCommands = 3
SPECIFICATION Spec
INVARIANTS
    NoLostInvalidation
PROPERTIES
    SelectionSurvivesLoads
    DeletedStaysDeleted
    VisibleStaysVisible
    AppearsInItsOrganization
CHECK_DEADLOCK FALSE
