---------------------------- MODULE DiskManager ----------------------------
(***************************************************************************)
(* The disk manager (src/src/disk_manager.cpp): one file per table, a      *)
(* header {totalBlocks, usedBlocks} followed by blocks of BLOCK_SIZE       *)
(* bytes.  Every call works on one table's file, so the operations are     *)
(* operators from a file to a result that holds the file after the call;   *)
(* DiskFiles makes a state machine of them and BufferPool calls them the   *)
(* way MemManager does.                                                    *)
(*                                                                         *)
(* A table's std::fstream is opened once and kept in tableFiles_.  Two     *)
(* facts about it shape the model:                                         *)
(*   - an fstream that failed keeps its failbit, nothing in the code       *)
(*     calls clear(): every later call on that table fails until the       *)
(*     table's stream is closed or the process restarts;                   *)
(*   - a block (4096 bytes) goes straight to the file, but the 8 bytes of  *)
(*     a header stay in the stream's buffer until its next seek or its     *)
(*     close: `header' is what the process reads back, `saved' is what     *)
(*     the file holds.                                                     *)
(* A crash is the death of the process, not of the machine.                *)
(***************************************************************************)
EXTENDS Integers

CONSTANTS
    Tables,     \* the table ids, each with a file of its own
    MaxBlocks,  \* bound: a file grows to at most MaxBlocks + 1 blocks
    Contents,   \* what a block can hold
    Zero,       \* the content of a block that was never written
    Garbage,    \* what a failed read leaves in the caller's buffer
    Faults      \* the I/O errors that may happen: a subset of FaultKinds

FaultKinds == {"create", "append", "read", "write", "header"}

ASSUME DiskAssumption ==
    /\ MaxBlocks \in Nat \ {0}
    /\ Zero \in Contents
    /\ Garbage \in Contents
    /\ Faults \subseteq FaultKinds

\* The outcomes the operating system may give to the I/O of one call: any
\* call may be the one whose seek writes out a buffered header.
Outcomes(kinds) == (Faults \intersect (kinds \union {"header"})) \union {"none"}
CreateOutcomes == Outcomes({"create"}) \ {"header"}
AllocOutcomes  == Outcomes({"append"})
ReadOutcomes   == Outcomes({"read"})
WriteOutcomes  == Outcomes({"write"})

Blocks  == 0 .. MaxBlocks - 1
Header  == [totalBlocks : Nat, usedBlocks : Nat]
Stream  == {"closed", "good", "failed"}

\* A headless file exists but its header and first block were never written.
File == [state  : {"missing", "headless", "ready"},
         stream : Stream,
         header : Header,
         saved  : Header,
         size   : Nat,
         block  : [Blocks -> Contents]]

EmptyHeader == [totalBlocks |-> 1, usedBlocks |-> 0]

MissingFile == [state  |-> "missing",
                stream |-> "closed",
                header |-> EmptyHeader,
                saved  |-> EmptyHeader,
                size   |-> 0,
                block  |-> [b \in Blocks |-> Zero]]

\* The bound on the growth of a file, tested before each allocation.
HasRoom(f) == f.size <= MaxBlocks

-----------------------------------------------------------------------------
\* createTableFile, createLogFile.  createTableFile ignores the outcome of
\* its two writes, createLogFile reports it; both leave the file behind.
CreateFile(f, isLog, outcome) ==
    IF f.state # "missing"
    THEN [rc |-> "FILE_EXISTS", file |-> f]
    ELSE IF outcome = "create"
    THEN [rc   |-> IF isLog THEN "FILE_NOT_FOUND" ELSE "OK",
          file |-> [f EXCEPT !.state = "headless"]]
    ELSE [rc |-> "OK", file |-> [f EXCEPT !.state = "ready", !.size = 1]]

\* openTableFile
OpenTableFile(f) ==
    IF f.state = "missing"
    THEN [rc |-> "FILE_NOT_FOUND", file |-> f]
    ELSE [rc   |-> "OK",
          file |-> [f EXCEPT !.stream = IF @ = "closed" THEN "good" ELSE @]]

\* Mutant: the stream is dropped without writing out its header.
CloseTableFile_NoFlush(f) ==
    [rc |-> "OK", file |-> [f EXCEPT !.stream = "closed"]]

\* closeTableFile, and what ~DiskManager does to every table: closing a
\* stream writes out the header it still buffers.
CloseTableFile(f) ==
    IF f.stream = "closed"
    THEN [rc |-> "FILE_ERROR", file |-> f]
    ELSE [rc   |-> "OK",
          file |-> [f EXCEPT !.stream = "closed",
                             !.saved  = IF f.stream = "good" THEN f.header
                                                             ELSE f.saved,
                             !.header = IF f.stream = "good" THEN f.header
                                                             ELSE f.saved]]

\* The death of the process: a header still in the stream's buffer is lost.
Abandon(f) == [f EXCEPT !.stream = "closed", !.header = f.saved]

\* Mutant: the header is taken from memory, the file is not touched.
ReadTableFileHeader_Cached(f, outcome) ==
    IF f.state = "headless" \/ f.stream = "failed"
    THEN [ok |-> FALSE, file |-> [f EXCEPT !.stream = "failed"]]
    ELSE [ok |-> TRUE, file |-> f]

\* readTableFileHeader on an open stream.  The seek writes out a header the
\* stream buffers ("header": that write fails and the header is lost).
ReadTableFileHeader(f, outcome) ==
    IF f.state = "headless" \/ f.stream = "failed"
    THEN [ok |-> FALSE, file |-> [f EXCEPT !.stream = "failed"]]
    ELSE IF f.header # f.saved /\ outcome = "header"
    THEN [ok |-> FALSE, file |-> [f EXCEPT !.stream = "failed",
                                           !.header = f.saved]]
    ELSE [ok |-> TRUE, file |-> [f EXCEPT !.saved = f.header]]

\* How every block operation starts: openTableFile, readTableFileHeader.
Access(f, outcome) ==
    LET o == OpenTableFile(f)
    IN  IF o.rc # "OK" THEN [ok |-> FALSE, file |-> f]
                       ELSE ReadTableFileHeader(o.file, outcome)

FailStream(f) == [f EXCEPT !.stream = "failed"]

\* Mutant: the file is extended one block late.
NeedsExtension_Late(h) == h.usedBlocks + 1 > h.totalBlocks

\* The header once one more block is used, and one more block is appended
\* when the used ones have caught up with the file.
NeedsExtension(h) == h.usedBlocks + 1 >= h.totalBlocks

GrownHeader(h) ==
    [usedBlocks  |-> h.usedBlocks + 1,
     totalBlocks |-> IF NeedsExtension(h) THEN h.totalBlocks + 1
                                          ELSE h.totalBlocks]

\* allocBlock: blockNum is the first unused block (-1: none was allocated).
AllocBlock(f, outcome) ==
    LET a      == Access(f, outcome)
        extend == NeedsExtension(a.file.header)
    IN  IF ~a.ok
        THEN [rc |-> "FILE_NOT_FOUND", file |-> a.file, blockNum |-> -1]
        ELSE IF extend /\ outcome = "append"
        THEN [rc |-> "FILE_NOT_FOUND", file |-> FailStream(a.file), blockNum |-> -1]
        ELSE [rc       |-> "OK",
              file     |-> [a.file EXCEPT !.header = GrownHeader(a.file.header),
                                          !.size   = IF extend THEN @ + 1 ELSE @],
              blockNum |-> a.file.header.usedBlocks]

\* Mutant: the bound is the length of the file, not what is allocated in it.
IsUsed_ByLength(f, b) == b < f.header.totalBlocks

\* The bound every call on a block tests.
IsUsed(f, b) == b < f.header.usedBlocks

\* freeBlock reads the header of an open table, and nothing else: a block is
\* never given back.
FreeBlock(f, b, outcome) ==
    IF f.stream = "closed"
    THEN [rc |-> "FILE_ERROR", file |-> f]
    ELSE LET a == ReadTableFileHeader(f, outcome)
         IN  [rc   |-> IF ~a.ok THEN "FILE_NOT_FOUND"
                       ELSE IF ~IsUsed(a.file, b) THEN "INVALID_BLOCK"
                       ELSE "OK",
              file |-> a.file]

\* readBlock into a buffer that holds buf: data is the buffer afterwards.
\* The read fails when the file ends before the block.
ReadBlock(f, b, buf, outcome) ==
    LET a == Access(f, outcome)
    IN  IF ~a.ok
        THEN [rc |-> "FILE_NOT_FOUND", file |-> a.file, data |-> buf]
        ELSE IF ~IsUsed(a.file, b)
        THEN [rc |-> "BLOCK_NOT_FOUND", file |-> a.file, data |-> buf]
        ELSE IF b >= a.file.size \/ outcome = "read"
        THEN [rc |-> "FILE_NOT_FOUND", file |-> FailStream(a.file), data |-> Garbage]
        ELSE [rc |-> "OK", file |-> a.file, data |-> a.file.block[b]]

\* writeBlock.  A write that fails leaves the block as it was.
WriteBlock(f, b, data, outcome) ==
    LET a == Access(f, outcome)
    IN  IF ~a.ok
        THEN [rc |-> "FILE_NOT_FOUND", file |-> a.file]
        ELSE IF ~IsUsed(a.file, b)
        THEN [rc |-> "INVALID_BLOCK", file |-> a.file]
        ELSE IF outcome = "write"
        THEN [rc |-> "FILE_NOT_FOUND", file |-> FailStream(a.file)]
        ELSE [rc |-> "OK", file |-> [a.file EXCEPT !.block[b] = data]]

-----------------------------------------------------------------------------
\* What every operation keeps true of a file.

\* Only a good stream buffers a header, and a stream needs a file.
StreamOK(f) ==
    /\ f.stream # "good" => f.header = f.saved
    /\ f.state = "missing" => f.stream = "closed"

\* A file whose header was never written has no blocks.
EmptyOK(f) ==
    f.state # "ready" => f.header = EmptyHeader /\ f.saved = EmptyHeader

\* Every block a header counts as used lies within the file, with a spare
\* block after it.
HeaderOK(f, h) ==
    f.state = "ready" => /\ h.usedBlocks < h.totalBlocks
                         /\ h.totalBlocks <= f.size

\* The stream buffers the header of one allocation at most.
BufferedOK(f) ==
    /\ f.saved.usedBlocks <= f.header.usedBlocks
    /\ f.header.usedBlocks <= f.saved.usedBlocks + 1

\* Blocks beyond what the file records as used were never written.
FreshOK(f) == \A b \in Blocks : b >= f.saved.usedBlocks => f.block[b] = Zero

FileOK(f) ==
    /\ f \in File
    /\ StreamOK(f)
    /\ EmptyOK(f)
    /\ HeaderOK(f, f.header) /\ HeaderOK(f, f.saved)
    /\ BufferedOK(f)
    /\ FreshOK(f)

=============================================================================
