-------------------------- MODULE DiskFilesProofs --------------------------
(***************************************************************************)
(* The invariants of DiskFiles, for any set of tables, any file size, any  *)
(* contents and any of the I/O errors.                                     *)
(*                                                                         *)
(* Every action changes the files by one operator of DiskManager each, so  *)
(* the argument is one lemma about a step that gives every table a file    *)
(* that Follows its old one, and one about a step that writes a block.     *)
(***************************************************************************)
EXTENDS DiskFiles, DiskManagerProofs

\* Every table's file follows its old one and no block changes.
QuietStep ==
    /\ disk' \in [Tables -> File]
    /\ \A t \in Tables : /\ FileOK(disk'[t])
                         /\ Follows(disk'[t], disk[t])
                         /\ disk'[t].block = disk[t].block

\* One table's file becomes g, the others stay.
LEMMA QuietUpdate ==
  ASSUME IInv, NEW t \in Tables, NEW g, FileOK(g), Follows(g, disk[t]),
         g.block = disk[t].block, disk' = [disk EXCEPT ![t] = g]
  PROVE  QuietStep
<1>1. \A u \in Tables : Follows(disk[u], disk[u])
  BY DEF IInv, TypeOK, Follows, File, Header
<1> QED
  BY <1>1 DEF IInv, TypeOK, QuietStep, FileOK

LEMMA QuietPreserves ==
  ASSUME IInv, QuietStep, written' = written
  PROVE  IInv'
<1>1. \A t \in Tables : FileOK(disk'[t])
  BY DEF QuietStep
<1>2. TypeOK'
  BY <1>1 DEF QuietStep, IInv, TypeOK, FileOK, StreamOK
<1>3. WrittenIsDurable'
  <2> SUFFICES ASSUME NEW t \in Tables, NEW b \in Blocks, written[t][b] # NoWrite
               PROVE  /\ disk'[t].state = "ready"
                      /\ b < disk'[t].saved.usedBlocks
                      /\ disk'[t].block[b] = written[t][b]
    BY DEF WrittenIsDurable
  <2>1. /\ disk[t].state = "ready"
        /\ b < disk[t].saved.usedBlocks
        /\ disk[t].block[b] = written[t][b]
    BY DEF IInv, WrittenIsDurable
  <2>2. /\ Follows(disk'[t], disk[t]) /\ disk'[t].block = disk[t].block
        /\ disk'[t] \in File /\ disk[t] \in File
    BY DEF QuietStep, IInv, TypeOK
  <2>3. disk'[t].saved.usedBlocks \in Nat /\ disk[t].saved.usedBlocks \in Nat
    BY <2>2 DEF File, Header
  <2> QED
    BY <2>1, <2>2, <2>3 DEF Follows, Blocks
<1> QED
  BY <1>1, <1>2, <1>3 DEF IInv

LEMMA WritePreserves ==
  ASSUME IInv, NEW t \in Tables, NEW b \in Blocks, NEW c \in Contents, NEW outcome,
         Write(t, b, c, outcome)
  PROVE  IInv' /\ \A u \in Tables : Follows(disk'[u], disk[u])
<1> DEFINE r == WriteBlock(disk[t], b, c, outcome)
           g == r.file
<1>1. /\ FileOK(g) /\ Follows(g, disk[t])
      /\ r.rc = "OK" => /\ g.block = [disk[t].block EXCEPT ![b] = c]
                        /\ g.state = "ready"
                        /\ b < g.saved.usedBlocks
      /\ r.rc # "OK" => g.block = disk[t].block
  BY WriteBlockOK DEF IInv
<1>2. /\ disk' = [disk EXCEPT ![t] = g]
      /\ written' = IF r.rc = "OK" THEN [written EXCEPT ![t][b] = c] ELSE written
  BY DEF Write
<1> HIDE DEF r
<1>3. CASE r.rc # "OK"
  BY <1>1, <1>2, <1>3, QuietUpdate, QuietPreserves DEF IInv, TypeOK, QuietStep
<1>4. CASE r.rc = "OK"
  <2>1. /\ disk' \in [Tables -> File] /\ disk'[t] = g
        /\ \A u \in Tables \ {t} : disk'[u] = disk[u]
        /\ \A u \in Tables : FileOK(disk'[u])
    BY <1>1, <1>2 DEF IInv, TypeOK, FileOK
  <2>2. /\ written' \in [Tables -> [Blocks -> Contents \union {NoWrite}]]
        /\ \A u \in Tables, d \in Blocks :
            written'[u][d] = IF u = t /\ d = b THEN c ELSE written[u][d]
    BY <1>2, <1>4 DEF IInv, TypeOK
  <2>3. TypeOK'
    BY <1>2, <2>1, <2>2 DEF IInv, TypeOK, FileOK, StreamOK
  <2>4. WrittenIsDurable'
    <3> SUFFICES ASSUME NEW u \in Tables, NEW d \in Blocks, written'[u][d] # NoWrite
                 PROVE  /\ disk'[u].state = "ready"
                        /\ d < disk'[u].saved.usedBlocks
                        /\ disk'[u].block[d] = written'[u][d]
      BY DEF WrittenIsDurable
    <3>1. CASE u # t
      BY <2>1, <2>2, <3>1 DEF IInv, WrittenIsDurable
    <3>2. CASE u = t /\ d = b
      BY <1>1, <1>4, <2>1, <2>2, <3>2 DEF IInv, TypeOK, File
    <3>3. CASE u = t /\ d # b
      <4>1. /\ disk[t].state = "ready" /\ d < disk[t].saved.usedBlocks
            /\ disk[t].block[d] = written'[t][d]
        BY <2>2, <3>3 DEF IInv, WrittenIsDurable
      <4>2. g.saved.usedBlocks \in Nat /\ disk[t].saved.usedBlocks \in Nat
        BY <1>1 DEF IInv, TypeOK, FileOK, File, Header
      <4>3. disk[t].block \in [Blocks -> Contents]
        BY DEF IInv, TypeOK, File
      <4>4. g.block[d] = disk[t].block[d]
        BY <1>1, <1>4, <3>3, <4>3
      <4>5. d < g.saved.usedBlocks
        BY <1>1, <4>1, <4>2 DEF Follows, Blocks
      <4> QED
        BY <1>1, <1>4, <2>1, <3>3, <4>1, <4>4, <4>5
    <3> QED
      BY <3>1, <3>2, <3>3
  <2>5. \A u \in Tables : Follows(disk'[u], disk[u])
    <3>1. \A u \in Tables : Follows(disk[u], disk[u])
      BY DEF IInv, TypeOK, Follows, File, Header
    <3> QED
      BY <1>1, <2>1, <3>1
  <2> QED
    BY <2>1, <2>3, <2>4, <2>5 DEF IInv
<1> QED
  BY <1>3, <1>4

\* Every step keeps the invariant, and every table's file follows its old one.
LEMMA StepPreserves ==
  ASSUME IInv, Next
  PROVE  IInv' /\ \A t \in Tables : Follows(disk'[t], disk[t])
<1>0. \A t \in Tables : FileOK(disk[t])
  BY DEF IInv
<1>1. ASSUME NEW t \in Tables, NEW outcome \in CreateOutcomes, Create(t, outcome)
      PROVE  QuietStep /\ written' = written
  <2>1. (t = LogTable) \in BOOLEAN
    OBVIOUS
  <2> QED
    BY <1>0, <1>1, <2>1, CreateFileOK, QuietUpdate, ZenonT(40) DEF Create, IInv, TypeOK
<1>2. ASSUME NEW t \in Tables, Open(t)
      PROVE  QuietStep /\ written' = written
  BY <1>0, <1>2, OpenFileOK, QuietUpdate DEF Open, IInv, TypeOK
<1>3. ASSUME NEW t \in Tables, Close(t)
      PROVE  QuietStep /\ written' = written
  BY <1>0, <1>3, CloseFileOK, QuietUpdate DEF Close, IInv, TypeOK
<1>4. ASSUME NEW t \in Tables, NEW outcome \in AllocOutcomes, Alloc(t, outcome)
      PROVE  QuietStep /\ written' = written
  BY <1>0, <1>4, AllocBlockOK, QuietUpdate DEF Alloc, IInv, TypeOK
<1>5. ASSUME NEW t \in Tables, NEW b \in Blocks, NEW outcome \in ReadOutcomes,
             Free(t, b, outcome)
      PROVE  QuietStep /\ written' = written
  BY <1>0, <1>5, FreeBlockOK, QuietUpdate DEF Free, IInv, TypeOK
<1>6. ASSUME NEW t \in Tables, NEW b \in Blocks, NEW outcome \in ReadOutcomes,
             Read(t, b, outcome)
      PROVE  QuietStep /\ written' = written
  <2>1. Zero \in Contents
    BY DiskAssumption
  <2>2. LET g == ReadBlock(disk[t], b, Zero, outcome).file
        IN  FileOK(g) /\ Follows(g, disk[t]) /\ g.block = disk[t].block
    BY <1>0, <2>1, ReadBlockOK
  <2> QED
    BY <1>6, <2>2, QuietUpdate DEF Read, IInv, TypeOK
<1>7. ASSUME Shutdown
      PROVE  QuietStep /\ written' = written
  BY <1>0, <1>7, CloseFileOK DEF Shutdown, QuietStep, IInv, TypeOK, FileOK
<1>8. ASSUME Crash
      PROVE  QuietStep /\ written' = written
  BY <1>0, <1>8, AbandonFileOK DEF Crash, QuietStep, IInv, TypeOK, FileOK
<1>9. ASSUME QuietStep, written' = written
      PROVE  IInv' /\ \A t \in Tables : Follows(disk'[t], disk[t])
  BY <1>9, QuietPreserves DEF QuietStep
<1> QED
  BY <1>1, <1>2, <1>3, <1>4, <1>5, <1>6, <1>7, <1>8, <1>9, WritePreserves DEF Next

LEMMA InitInvariant == Init => IInv
<1> SUFFICES ASSUME Init PROVE IInv
  OBVIOUS
<1>1. \A t \in Tables : FileOK(disk[t]) /\ disk[t].header = disk[t].saved
  BY MissingFileOK DEF Init, MissingFile
<1>2. TypeOK
  BY <1>1 DEF Init, TypeOK, FileOK
<1>3. WrittenIsDurable
  BY DEF Init, WrittenIsDurable
<1> QED
  BY <1>1, <1>2, <1>3 DEF IInv

LEMMA NextInvariant == IInv /\ [Next]_vars => IInv'
<1> SUFFICES ASSUME IInv, [Next]_vars PROVE IInv'
  OBVIOUS
<1>1. CASE Next
  BY <1>1, StepPreserves
<1>2. CASE UNCHANGED vars
  BY <1>2 DEF vars, IInv, TypeOK, WrittenIsDurable
<1> QED
  BY <1>1, <1>2

\* The inductive invariant holds of every behaviour of the disk manager.
THEOREM Invariant == Spec => []IInv
<1> QED
  BY InitInvariant, NextInvariant, PTL DEF Spec

\* The files keep their shape, and only a good stream buffers a header.
THEOREM TypeCorrect == Spec => []TypeOK
<1>1. IInv => TypeOK
  BY DEF IInv
<1> QED
  BY <1>1, Invariant, PTL

\* The header never counts a block that lies outside the file
\* (disk_manager.cpp:201-206).
THEOREM HeaderCorrect == Spec => []HeaderWithinFile
<1>1. IInv => HeaderWithinFile
  BY DEF IInv, HeaderWithinFile, FileOK, HeaderOK
<1> QED
  BY <1>1, Invariant, PTL

\* What writeBlock reported as written stays in the used part of the file, over
\* any number of failed calls, shutdowns and crashes.
THEOREM Durability == Spec => []WrittenIsDurable
<1>1. IInv => WrittenIsDurable
  BY DEF IInv
<1> QED
  BY <1>1, Invariant, PTL

\* Blocks that are yet to be allocated read as zeros.
THEOREM FreshBlocks == Spec => []UnallocatedIsZero
<1>1. IInv => UnallocatedIsZero
  BY DEF IInv, UnallocatedIsZero, FileOK, FreshOK
<1> QED
  BY <1>1, Invariant, PTL

\* A call, an error or a crash takes back at most the last block of a table.
THEOREM Allocation == Spec => LosesAtMostLastBlock
<1> DEFINE Step ==
      \A t \in Tables :
        LET before == disk[t].header.usedBlocks
            after  == disk'[t].header.usedBlocks
        IN  /\ after >= before - 1
            /\ after < before =>
                /\ disk'[t].stream # "good"
                /\ disk[t].header # disk[t].saved
<1>1. ASSUME IInv, [Next]_vars PROVE [Step]_vars
  BY <1>1, StepPreserves DEF Follows
<1> HIDE DEF Step
<1>2. Spec => [][Step]_vars
  BY <1>1, Invariant, PTL DEF Spec
<1> QED
  BY <1>2 DEF LosesAtMostLastBlock, Step

=============================================================================
