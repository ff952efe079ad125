SPECIFICATION RowSpec
CONSTANTS
    o1 = o1
    o2 = o2
    Owners <- MCOwners
    Clients = {c1}
    x1 = x1
    Titles <- MCTitles
    Edits <- MCEdits
    Notes = {n1, n2}
    MaxVersion = 4
    MaxLives = 2
SYMMETRY OwnerSymmetry
CHECK_DEADLOCK FALSE
INVARIANTS
    VersionPinsContent
    ClaimExclusive
    AppendsAreKept
