\* Two transactions, no errors, restarts.
CONSTANTS
    Transactions = {t1, t2}
    MaxBlocks = 3
    Capacity = 2
    Lengths = {1, 2}
    InvalidLSN = 3
    MaxLSN = 4
    NoRecord = NoRecord
    Faults = {}
SPECIFICATION Spec
INVARIANT CurrentBlockExists
CHECK_DEADLOCK FALSE
