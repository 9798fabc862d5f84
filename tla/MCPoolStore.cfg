\* Two data tables of two pages that share one frame, errors of block and
\* header writes: eviction and flushing against the page store.
CONSTANTS
    Tables = {log, t1, t2}
    LogTable = log
    DictTables = {}
    PlanFrames = 0
    DictFrames = 0
    DataFrames = 1
    LogFrames = 0
    MaxBlocks = 2
    MaxPins = 1
    Contents = {Zero, Garbage, A}
    Zero = Zero
    Garbage = Garbage
    Faults = {"write", "header"}
SPECIFICATION Spec
CONSTRAINT LogUnused
INVARIANTS
    FramesHoldAllocatedPages
    CleanFramesMatchDisk
PROPERTIES
    ImplementsStore
