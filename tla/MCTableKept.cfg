\* One page, no errors, every page followed wherever the calls lead.
CONSTANTS
    MaxPages = 1
    PageSize = 6
    MaxFree = 2
    Contents = {low}
    LooksDeleted = {}
    Lengths = {1, 2}
    Faults = {}
SPECIFICATION Spec
INVARIANT AllRecordsKept
CHECK_DEADLOCK FALSE
