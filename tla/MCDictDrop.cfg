\* Two tables, no errors.
CONSTANTS
    TableNames = {t1, t2}
    IndexNames = {i1}
    RootPages = {0}
    Capacity <- PairCapacity
    MaxBlocks = 2
    MaxTables = 2
    MaxIndexes = 1
    NoEntry = NoEntry
    Faults = {}
SPECIFICATION Spec
INVARIANT DroppedStaysDropped
CHECK_DEADLOCK FALSE
