SPECIFICATION Spec
CONSTANTS
    main = main
    feature = feature
    p1 = p1
    p2 = p2
    e1 = e1
    t1 = t1
    t2 = t2
    s1 = s1
    a = a
    b = b
    Worktrees = {main, feature}
    Pullers = {p1}
    In <- MCIn
    Sources = {main}
    Askers = {feature}
    Epics = {}
    Tasks = {t1, t2}
    Subtasks = {s1}
    Edges <- MCEdges
    Parent <- MCParentTask
    Required = {"title"}
    Optional = {}
    Late = {}
    Values <- MCOneValue
    Default = blank
    BatchSize = 2
    MaxEvents = 8
    MaxEdits = 7
    Past <- MCPastTwo
    Origin = main
CHECK_DEADLOCK FALSE
INVARIANTS
    TypeOK
PROPERTIES
    DeletesSpareOwnEdits
    CascadeWaits
    ResolvesWhatWasShown
