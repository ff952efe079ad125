SPECIFICATION Spec
CONSTANTS
    Worktree = {w1, w2}
    Branch = {main}
    Puller = {p1, p2}
    Pruner = {r1}
    Idle = Idle
    BatchSize = 2
    Retention = 2
    Skew = 1
    MaxClock = 6
    MaxEvents = 3
SYMMETRY MCSymmetry
INVARIANTS TypeOK NothingMissed
CHECK_DEADLOCK FALSE
