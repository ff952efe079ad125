SPECIFICATION Spec
CONSTANTS
    p1 = p1
    p2 = p2
    Process = {p1, p2}
    Release <- MCRelease
    Targets <- MCTargets
    Retain = 1
    MaxCommands = 3
    Databases <- MCDatabases
    Items <- MCItems
INVARIANTS TypeOK HeaderTruthful
PROPERTIES EdgesKept ServedMigrated OneVersionAtATime
CHECK_DEADLOCK FALSE
