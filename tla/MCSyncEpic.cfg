SPECIFICATION Spec
CONSTANTS
    main = main
    feature = feature
    p1 = p1
    p2 = p2
    e1 = e1
    t1 = t1
    t2 = t2
    s1 = s1
    a = a
    b = b
    Worktrees = {main, feature}
    Pullers = {p1}
    In <- MCIn
    Sources = {main}
    Askers = {}
    Epics = {e1}
    Tasks = {t1}
    Subtasks = {s1}
    Edges <- MCNoEdges
    Parent <- MCParentEpic
    Required = {"title"}
    Optional = {}
    Late = {}
    Values <- MCOneValue
    Default = blank
    BatchSize = 3
    MaxEvents = 7
    MaxEdits = 7
    Past <- MCPastEpic
    Origin = main
CHECK_DEADLOCK FALSE
PROPERTIES
    EpicCascadeWaits
