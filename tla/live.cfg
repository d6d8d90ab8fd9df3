\* One browser that is followed, others that write; two ids, two writes; its socket drops once.
SPECIFICATION LiveSpec
CONSTANTS
    a = a
    b = b
    c1 = c1
    Row = {a, b}
    Client = {c1}
    MaxWrites = 2
    MaxDrops = 1
INVARIANTS QuietScreenIsRight
PROPERTIES ScreensCatchUp
