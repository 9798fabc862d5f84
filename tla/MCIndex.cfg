\* A unique index with nodes of two entries, trees of up to three levels, one
\* allocation that fails.
CONSTANTS
    KeyNumbers = {1, 2, 3, 4, 5, 6}
    Twice = {3}
    Records <- TheRecords
    Unique = TRUE
    MaxKeys = 2
    MaxPages = 40
    MaxFailures = 1
    CreateWith = {0, 1, 2}
SPECIFICATION Spec
VIEW TreeView
INVARIANTS
    TypeOK
    Ordered
    LinksAgree
    LeafChain
    HalfFull
    Balanced
PROPERTIES
    PinsReturned
    ImplementsIndex
CHECK_DEADLOCK FALSE
