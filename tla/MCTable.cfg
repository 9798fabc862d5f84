\* One table of two pages of five cells, three lengths of records.  ("alloc", an
\* allocation that fails, changes nothing.)
CONSTANTS
    MaxPages = 2
    PageSize = 5
    MaxFree = 2
    Contents = {low, high}
    LooksDeleted = {high}
    Lengths = {1, 2, 5}
    Faults = {"full", "new"}
SPECIFICATION Spec
INVARIANTS
    TypeOK
    RecordsKept
    FreeSlotsDeleted
    InsideWithoutDeletion
    RefusalExplained
CONSTRAINT SpoiltAlone
CHECK_DEADLOCK FALSE
