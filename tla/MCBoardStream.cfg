SPECIFICATION LiveSpec
CONSTANTS
    i1 = i1
    s1 = s1
    Item = {i1}
    Stream = {s1}
    MaxStamp = 2
    MaxEvents = 3
INVARIANTS TypeOK Converges
PROPERTIES NeverBack Delivered
