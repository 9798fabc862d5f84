\* An index created on a table that has more records than a node.
CONSTANTS
    KeyNumbers = {1, 2, 3, 4}
    Twice = {}
    Records <- TheRecords
    Unique = FALSE
    MaxKeys = 2
    MaxPages = 10
    MaxFailures = 0
    CreateWith = {3, 4}
SPECIFICATION Spec
VIEW TreeView
INVARIANT RecordsFound
CHECK_DEADLOCK FALSE
