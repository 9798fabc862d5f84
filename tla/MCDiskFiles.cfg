\* Two files, two contents, every I/O error.
CONSTANTS
    Tables = {log, t1}
    LogTable = log
    MaxBlocks = 3
    Contents = {Zero, Garbage, A}
    Zero = Zero
    Garbage = Garbage
    Faults = {"create", "append", "read", "write", "header"}
    NoWrite = NoWrite
SPECIFICATION Spec
INVARIANTS
    TypeOK
    HeaderWithinFile
    WrittenIsDurable
    UnallocatedIsZero
PROPERTIES
    LosesAtMostLastBlock
