SPECIFICATION Spec
CONSTANTS
    main = main
    feature = feature
    p1 = p1
    p2 = p2
    e1 = e1
    t1 = t1
    t2 = t2
    s1 = s1
    a = a
    b = b
    Worktrees = {main, feature}
    Pullers = {p1, p2}
    In <- MCIn
    Sources = {main, feature}
    Askers = {}
    Epics = {}
    Tasks = {t1}
    Subtasks = {}
    Edges <- MCNoEdges
    Parent <- MCParentNone
    Required = {"title"}
    Optional = {}
    Late = {}
    Values <- MCTwoValues
    Default = blank
    BatchSize = 2
    MaxEvents = 4
    MaxEdits = 4
    Past <- MCPastNone
    Origin = main
SYMMETRY MCSymmetry
CHECK_DEADLOCK FALSE
INVARIANTS
    NoEventSkipped
PROPERTIES
    NothingLostUnnoticed
    ResolutionSticks
