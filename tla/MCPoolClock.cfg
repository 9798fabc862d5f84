\* Three data tables of one page over two frames, the log over one, and block
\* writes that fail: replacement, pins and reference bits, and flushes that
\* stop at a failed file in one partition and go on in another.
CONSTANTS
    Tables = {log, t1, t2, t3}
    LogTable = log
    DictTables = {}
    PlanFrames = 0
    DictFrames = 0
    DataFrames = 2
    LogFrames = 1
    MaxBlocks = 1
    MaxPins = 1
    Contents = {Zero, Garbage}
    Zero = Zero
    Garbage = Garbage
    Faults = {"write"}
SPECIFICATION Spec
SYMMETRY DataTables
INVARIANTS
    TypeOK
    FlushedUntilFailure
    OneFramePerPage
    RefusedOnlyOnce
PROPERTIES
    HeldPagesStay
