\* Two table names, one index; a block is full with two tables or one index, so that
\* blocks are left half full, every entry may be on disk or not, and two restarts are
\* possible.
CONSTANTS
    TableNames = {t1, t2}
    IndexNames = {i1}
    RootPages = {0}
    Capacity <- SmallCapacity
    MaxBlocks = 3
    MaxTables = 2
    MaxIndexes = 2
    NoEntry = NoEntry
    Faults = {"create", "full", "write", "append", "read"}
SPECIFICATION Spec
SYMMETRY Symmetry
INVARIANTS
    TypeOK
    NumbersAreNew
    TablesOnPages
    NoPhantoms
    NewestIndexLoads
PROPERTY
    EntriesStay
CHECK_DEADLOCK FALSE
