\* Two transactions, control records of one cell, others of two, and every kind of error.
CONSTANTS
    Transactions = {t1, t2}
    MaxBlocks = 3
    Capacity = 2
    Lengths = {2}
    InvalidLSN = 3
    MaxLSN = 4
    NoRecord = NoRecord
    Faults = {"full", "append", "read", "write"}
SPECIFICATION FairSpec
INVARIANTS
    TypeOK
    FlushedIsDurable
    OnlyCurrentBlockDirty
    IndexFindsRecords
    TraversalComplete
    CommitDurable
PROPERTIES
    ImplementsLog
    CallsReturn
CHECK_DEADLOCK FALSE
