\* One transaction, records of one cell and of two; only allocations fail.
CONSTANTS
    Transactions = {t1}
    MaxBlocks = 2
    Capacity = 2
    Lengths = {2}
    InvalidLSN = 21
    MaxLSN = 3
    NoRecord = NoRecord
    Faults = {"append"}
SPECIFICATION Spec
INVARIANT CommitFlushed
CHECK_DEADLOCK FALSE
