SPECIFICATION Spec
CONSTANTS
    main = main
    w1 = w1
    w2 = w2
    p1 = p1
    p2 = p2
    rowA = rowA
    rowB = rowB
    latest = latest
    Main = main
    Worktree = {w1, w2}
    Schema = latest
    Process = {p1, p2}
    Absent = absent
    absent = absent
    Legacy <- OldOrNew
INVARIANTS TypeOK NothingLost
CHECK_DEADLOCK FALSE
