SPECIFICATION LiveSpec
CONSTANTS
    e = e
    t = t
    c = c
    edit = edit
    bulk = bulk
    add = add
    drop = drop
    Row = {e, t}
    Parent = {e}
    Child = {c}
    Dependency = {c}
    Mutation = {edit, bulk, add, drop}
    Kind <- MCKind
    Target <- MCTarget
    Selection <- MCSelection
    ErrorLimit = 2
    MaxStamp = 2
    MaxAttempts = 2
INVARIANTS TypeOK QuietAgrees
PROPERTIES KeyedOnce OwnRowKept Settles
CHECK_DEADLOCK FALSE
