----------------------------- MODULE DiskFiles -----------------------------
(***************************************************************************)
(* The disk manager as a state machine: any caller may issue any call on   *)
(* any table, every call may meet any of the I/O errors in Faults, and the *)
(* process may be shut down or die between two calls.                      *)
(*                                                                         *)
(* Bound: HasRoom keeps a file at MaxBlocks + 1 blocks or fewer.           *)
(***************************************************************************)
EXTENDS DiskManager

CONSTANTS
    LogTable,    \* the table whose file createLogFile makes
    NoWrite      \* stands for the content of a block nobody has written

ASSUME DiskFilesAssumption ==
    /\ LogTable \in Tables
    /\ NoWrite \notin Contents

VARIABLES
    disk,     \* [Tables -> File]
    written   \* observes the last write of each block that was reported as RC_OK

vars == <<disk, written>>

Init ==
    /\ disk    = [t \in Tables |-> MissingFile]
    /\ written = [t \in Tables |-> [b \in Blocks |-> NoWrite]]

-----------------------------------------------------------------------------
Create(t, outcome) ==
    LET r == CreateFile(disk[t], t = LogTable, outcome)
    IN  /\ disk' = [disk EXCEPT ![t] = r.file]
        /\ UNCHANGED written

Open(t) ==
    LET r == OpenTableFile(disk[t])
    IN  /\ disk' = [disk EXCEPT ![t] = r.file]
        /\ UNCHANGED written

Close(t) ==
    LET r == CloseTableFile(disk[t])
    IN  /\ disk' = [disk EXCEPT ![t] = r.file]
        /\ UNCHANGED written

Alloc(t, outcome) ==
    LET r == AllocBlock(disk[t], outcome)
    IN  /\ HasRoom(disk[t])
        /\ disk' = [disk EXCEPT ![t] = r.file]
        /\ UNCHANGED written

Free(t, b, outcome) ==
    LET r == FreeBlock(disk[t], b, outcome)
    IN  /\ disk' = [disk EXCEPT ![t] = r.file]
        /\ UNCHANGED written

Read(t, b, outcome) ==
    LET r == ReadBlock(disk[t], b, Zero, outcome)
    IN  /\ disk' = [disk EXCEPT ![t] = r.file]
        /\ UNCHANGED written

Write(t, b, c, outcome) ==
    LET r == WriteBlock(disk[t], b, c, outcome)
    IN  /\ disk' = [disk EXCEPT ![t] = r.file]
        /\ written' = IF r.rc = "OK" THEN [written EXCEPT ![t][b] = c] ELSE written

\* ~DiskManager at the end of main: every open stream is closed.
Shutdown ==
    /\ disk' = [t \in Tables |-> CloseTableFile(disk[t]).file]
    /\ UNCHANGED written

\* The process dies; the next one finds what the files hold.
Crash ==
    /\ disk' = [t \in Tables |-> Abandon(disk[t])]
    /\ UNCHANGED written

Next ==
    \/ \E t \in Tables :
        \/ Open(t)
        \/ Close(t)
        \/ \E outcome \in CreateOutcomes : Create(t, outcome)
        \/ \E outcome \in AllocOutcomes : Alloc(t, outcome)
        \/ \E b \in Blocks, outcome \in ReadOutcomes :
            \/ Read(t, b, outcome)
            \/ Free(t, b, outcome)
        \/ \E b \in Blocks, c \in Contents, outcome \in WriteOutcomes :
            Write(t, b, c, outcome)
    \/ Shutdown
    \/ Crash

Spec == Init /\ [][Next]_vars

-----------------------------------------------------------------------------
\* Type invariant: the shape of the files, where only a good stream buffers a
\* header, and of what was observed of them.
TypeOK ==
    /\ disk \in [Tables -> File]
    /\ \A t \in Tables : disk[t].stream # "good" => disk[t].header = disk[t].saved
    /\ written \in [Tables -> [Blocks -> Contents \union {NoWrite}]]

\* Every block the header counts as used lies within the file, with a spare
\* block after it, for the header the process sees and for the one on disk:
\* the seekg(offset)/read of readBlock (disk_manager.cpp:201-206) can only
\* reach the end of the file if this fails.
HeaderWithinFile ==
    \A t \in Tables : disk[t].state = "ready" =>
        \A h \in {disk[t].header, disk[t].saved} :
            /\ h.usedBlocks < h.totalBlocks
            /\ h.totalBlocks <= disk[t].size

\* A block whose write was reported as RC_OK keeps that content: no later
\* call, failed call, shutdown or crash takes it out of the used part of the
\* file as the file itself records it.  This is what makes allocBlock safe
\* although it leaves its new header in the stream's buffer
\* (disk_manager.cpp:161-162): the writeBlock that follows forces it out.
WrittenIsDurable ==
    \A t \in Tables, b \in Blocks : written[t][b] # NoWrite =>
        /\ disk[t].state = "ready"
        /\ b < disk[t].saved.usedBlocks
        /\ disk[t].block[b] = written[t][b]

\* A block that is yet to be allocated reads as zeros, crash or not: data_dict
\* and log_manager find the end of what they parse by the zeros that follow
\* it (disk_manager.cpp:154, log_manager.cpp:58-60).
UnallocatedIsZero ==
    \A t \in Tables, b \in Blocks :
        b >= disk[t].saved.usedBlocks => disk[t].block[b] = Zero

\* The inductive invariant: what every operation keeps true of each file, and
\* the content of what was written.
IInv ==
    /\ TypeOK
    /\ \A t \in Tables : FileOK(disk[t])
    /\ WrittenIsDurable

\* A block that allocBlock has handed out stays allocated while its table's
\* stream is good, so no call returns the same block twice; a crash or an I/O
\* error takes back at most the last block of a table, and only if no other
\* call has touched the table since (disk_manager.cpp:143-144, 162).
LosesAtMostLastBlock ==
    [][\A t \in Tables :
        LET before == disk[t].header.usedBlocks
            after  == disk'[t].header.usedBlocks
        IN  /\ after >= before - 1
            /\ after < before =>
                /\ disk'[t].stream # "good"
                /\ disk[t].header # disk[t].saved]_vars

=============================================================================
