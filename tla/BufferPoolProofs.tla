-------------------------- MODULE BufferPoolProofs --------------------------
(***************************************************************************)
(* The invariants of BufferPool and its refinement of PageStore, for any   *)
(* tables, partitions, contents and bounds.                                *)
(*                                                                         *)
(* An action changes the files by operators of DiskManager, and the frames *)
(* in one of three ways: every frame keeps its page, one frame that nobody *)
(* holds is given an uncached page, or the pool starts anew.  There is a   *)
(* lemma for each, over frames fr and files d that are not primed, so that *)
(* it can be used for both halves of an action.                            *)
(***************************************************************************)
EXTENDS BufferPool, DiskManagerProofs

-----------------------------------------------------------------------------
\* Files.

\* What was allocated on disk in f is allocated on disk in g.
Keeps(g, f) == /\ f.state = "ready" => g.state = "ready"
               /\ g.saved.usedBlocks >= f.saved.usedBlocks

Grows(d2, d1) ==
    /\ d2 \in [Tables -> File]
    /\ \A t \in Tables : FileOK(d2[t]) /\ Keeps(d2[t], d1[t])

WellFormed(d) == d \in [Tables -> File] /\ \A t \in Tables : FileOK(d[t])

LEMMA GrowsReflexive ==
  ASSUME NEW d, WellFormed(d)
  PROVE  Grows(d, d)
  BY DEF WellFormed, Grows, Keeps, File, Header

LEMMA UpdateGrows ==
  ASSUME NEW d, WellFormed(d), NEW t \in Tables, NEW g, FileOK(g), Follows(g, d[t])
  PROVE  Grows([d EXCEPT ![t] = g], d)
<1>1. \A u \in Tables : Keeps(d[u], d[u])
  BY DEF WellFormed, Keeps, File, Header
<1>2. g \in File
  BY DEF FileOK
<1> QED
  BY <1>1, <1>2 DEF WellFormed, Grows, Keeps, Follows

LEMMA GrowsTransitive ==
  ASSUME NEW d1, NEW d2, NEW d3, WellFormed(d1), Grows(d2, d1), Grows(d3, d2)
  PROVE  Grows(d3, d1)
<1>1. ASSUME NEW t \in Tables
      PROVE  Keeps(d3[t], d1[t])
  <2>1. /\ d1[t].saved.usedBlocks \in Nat
        /\ d2[t].saved.usedBlocks \in Nat
        /\ d3[t].saved.usedBlocks \in Nat
    BY DEF WellFormed, Grows, File, Header
  <2> QED
    BY <2>1 DEF Grows, Keeps
<1> QED
  BY <1>1 DEF Grows

-----------------------------------------------------------------------------
\* Frames.

\* No page is in two of the frames fr.
OnePerPage(fr) ==
    \A i, j \in Frames :
        /\ fr[i].pageNum # NoPage
        /\ HoldsPage(fr[j], fr[i].tableId, fr[i].pageNum)
        => i = j

\* What the invariant says of the frames and files, for frames fr and files d.
Sound(fr, d) ==
    /\ fr \in [Frames -> BufferFrame]
    /\ OnePerPage(fr)
    /\ \A i \in Frames : FrameOK(i, fr[i], d)

\* Frame g holds what frame f holds.
SamePage(g, f) == /\ g.tableId = f.tableId
                  /\ g.pageNum = f.pageNum
                  /\ g.spaceType = f.spaceType

LEMMA KeepPages ==
  ASSUME NEW fr, NEW d, NEW fr2, NEW d2, Sound(fr, d), WellFormed(d), Grows(d2, d),
         fr2 \in [Frames -> BufferFrame],
         \A i \in Frames :
            /\ SamePage(fr2[i], fr[i])
            /\ fr[i].pageNum = NoPage => ~fr2[i].isDirty /\ fr2[i].pinCount = 0
  PROVE  Sound(fr2, d2)
<1>1. OnePerPage(fr2)
  BY DEF Sound, OnePerPage, SamePage, HoldsPage
<1>2. ASSUME NEW i \in Frames
      PROVE  FrameOK(i, fr2[i], d2)
  <2>1. SamePage(fr2[i], fr[i]) /\ FrameOK(i, fr[i], d) /\ fr[i] \in BufferFrame
    BY DEF Sound
  <2>2. CASE fr[i].pageNum = NoPage
    BY <2>1, <2>2 DEF FrameOK, SamePage
  <2>3. CASE fr[i].pageNum # NoPage
    <3>1. fr[i].tableId \in Tables /\ fr[i].pageNum \in Blocks
      BY <2>1, <2>3 DEF BufferFrame
    <3>2. /\ d[fr[i].tableId].saved.usedBlocks \in Nat
          /\ d2[fr[i].tableId].saved.usedBlocks \in Nat
          /\ Keeps(d2[fr[i].tableId], d[fr[i].tableId])
      BY <3>1 DEF WellFormed, Grows, File, Header
    <3> QED
      BY <2>1, <2>3, <3>1, <3>2 DEF FrameOK, SamePage, Keeps, Blocks
  <2> QED
    BY <2>2, <2>3
<1> QED
  BY <1>1, <1>2 DEF Sound

LEMMA LoadPage ==
  ASSUME NEW fr, NEW d, Sound(fr, d),
         NEW t \in Tables, NEW b \in Blocks, NEW i \in Frames, NEW g \in BufferFrame,
         \A j \in Frames : ~HoldsPage(fr[j], t, b),
         HoldsPage(g, t, b), g.spaceType = SpaceOf(t), Partition(i) = SpaceOf(t),
         d[t].state = "ready", b < d[t].saved.usedBlocks
  PROVE  Sound([fr EXCEPT ![i] = g], d)
<1> DEFINE fr2 == [fr EXCEPT ![i] = g]
<1>1. /\ fr2 \in [Frames -> BufferFrame] /\ fr2[i] = g
      /\ \A j \in Frames \ {i} : fr2[j] = fr[j]
  BY DEF Sound
<1>2. b # NoPage
  BY DEF Blocks, NoPage
<1> HIDE DEF fr2
<1>3. OnePerPage(fr2)
  BY <1>1, <1>2 DEF Sound, OnePerPage, HoldsPage
<1>4. \A j \in Frames : FrameOK(j, fr2[j], d)
  BY <1>1, <1>2 DEF Sound, FrameOK, HoldsPage
<1> QED
  BY <1>1, <1>3, <1>4 DEF Sound, fr2

-----------------------------------------------------------------------------
\* The helpers of the actions.

LEMMA PagesAreFrames ==
  NoPage \notin Blocks /\ Frames # {} /\ Frames \subseteq 0 .. NumFrames
  BY PoolAssumption DEF NoPage, Blocks, Frames, NumFrames

LEMMA NextFrameOK ==
  ASSUME NEW i \in Frames
  PROVE  NextFrame(i) \in Frames
<1>1. NumFrames \in Nat \ {0} /\ i \in Nat
  BY PoolAssumption DEF NumFrames, Frames
<1> QED
  BY <1>1 DEF NextFrame, Frames

\* Frame g is f with, perhaps, another reference bit.
SameButRef(g, f) == /\ SamePage(g, f)
                    /\ g.data = f.data
                    /\ g.isDirty = f.isDirty
                    /\ g.pinCount = f.pinCount

LEMMA SweptOK ==
  ASSUME frames \in [Frames -> BufferFrame], NEW S
  PROVE  /\ Swept(S) \in [Frames -> BufferFrame]
         /\ \A j \in Frames : SameButRef(Swept(S)[j], frames[j])
<1>1. ASSUME NEW j \in Frames
      PROVE  Swept(S)[j] \in BufferFrame /\ SameButRef(Swept(S)[j], frames[j])
  BY DEF Swept, SameButRef, SamePage, BufferFrame
<1>2. Swept(S) \in [Frames -> BufferFrame]
  BY <1>1 DEF Swept
<1> QED
  BY <1>1, <1>2

LEMMA SweptForOK ==
  ASSUME frames \in [Frames -> BufferFrame], NEW s, NEW i
  PROVE  /\ SweptFor(s, i) \in [Frames -> BufferFrame]
         /\ \A j \in Frames : SameButRef(SweptFor(s, i)[j], frames[j])
<1>1. \A j \in Frames : SameButRef(frames[j], frames[j])
  BY DEF SameButRef, SamePage
<1> QED
  BY <1>1, SweptOK DEF SweptFor

LEMMA HandForOK ==
  ASSUME clockHand \in Frames, NEW s, NEW i \in Frames
  PROVE  HandFor(s, i) \in Frames
  BY NextFrameOK DEF HandFor

LEMMA CanUseOK ==
  ASSUME NEW s, NEW i, CanUse(s, i)
  PROVE  i \in Frames /\ frames[i].pinCount = 0 /\ frames[i].spaceType = s
  BY DEF CanUse, FreeFrame, Unused, Victim, Unreferenced, Evictable

LEMMA WriteBlockCodes ==
  ASSUME NEW f, NEW b, NEW data, NEW outcome
  PROVE  WriteBlock(f, b, data, outcome).rc \in {"OK", "FILE_NOT_FOUND", "INVALID_BLOCK"}
  BY DEF WriteBlock

LEMMA ReadBlockCodes ==
  ASSUME NEW f, NEW b, NEW buf, NEW outcome
  PROVE  ReadBlock(f, b, buf, outcome).rc \in {"OK", "FILE_NOT_FOUND", "BLOCK_NOT_FOUND"}
  BY DEF ReadBlock

\* The frame of a page that is written back is one that holds it.
LEMMA EvictOK ==
  ASSUME WellFormed(disk), Sound(frames, disk), NEW i \in Frames, NEW outcome
  PROVE  LET f == disk[frames[i].tableId]
             e == Evict(i, outcome)
         IN  /\ FileOK(e.file) /\ Follows(e.file, f) /\ NoNewBlock(e.file, f)
             /\ e.rc \in ReturnCodes
             /\ e.rc # "OK" => e.file.block = f.block
             /\ e.rc = "OK" /\ frames[i].isDirty =>
                    e.file.block = [f.block EXCEPT ![frames[i].pageNum] = frames[i].data]
             /\ ~frames[i].isDirty => e.rc = "OK" /\ e.file = f
<1> DEFINE v == frames[i]
           f == disk[v.tableId]
           e == Evict(i, outcome)
<1>1. v \in BufferFrame /\ FrameOK(i, v, disk)
  BY DEF Sound
<1>2. v.tableId \in Tables /\ v.data \in Contents /\ v.isDirty \in BOOLEAN
  BY <1>1 DEF BufferFrame
<1>3. FileOK(f) /\ f \in File
  BY <1>2 DEF WellFormed
<1>4. CASE v.isDirty
  <2>1. v.pageNum \in Blocks
    BY <1>1, <1>4 DEF FrameOK, BufferFrame
  <2>2. e = WriteBlock(f, v.pageNum, v.data, outcome)
    BY <1>4 DEF Evict
  <2>3. e.rc \in ReturnCodes
    BY <2>2, WriteBlockCodes DEF ReturnCodes
  <2> QED
    BY <1>2, <1>3, <1>4, <2>1, <2>2, <2>3, WriteBlockOK
<1>5. CASE ~v.isDirty
  <2>1. e = [rc |-> "OK", file |-> f]
    BY <1>5 DEF Evict
  <2>2. Follows(f, f) /\ NoNewBlock(f, f)
    BY <1>3 DEF Follows, NoNewBlock, File, Header
  <2> QED
    BY <1>3, <1>5, <2>1, <2>2 DEF ReturnCodes
<1> QED
  BY <1>4, <1>5

-----------------------------------------------------------------------------
\* PoolInv is inductive.

\* Callers hold what they have yet to mark.
Marked(fr, U) == U \subseteq Frames /\ \A i \in U : fr[i].pinCount > 0

FlushType == [todo : Seq(Spaces), next : 0 .. NumFrames, call : Calls]
LastType  == [call : Calls, space : Spaces, rc : ReturnCodes]

LEMMA PoolInvParts ==
  PoolInv <=> /\ WellFormed(disk) /\ Sound(frames, disk) /\ Marked(frames, unmarked)
              /\ clockHand \in Frames /\ flush \in FlushType /\ last \in LastType
  BY DEF PoolInv, TypeOK, WellFormed, Sound, Marked, FlushType, LastType,
         OneFramePerPage, OnePerPage, FramesHoldAllocatedPages

LEMMA PoolInvPartsNext ==
  PoolInv' <=> /\ WellFormed(disk') /\ Sound(frames', disk') /\ Marked(frames', unmarked')
               /\ clockHand' \in Frames /\ flush' \in FlushType /\ last' \in LastType
  BY DEF PoolInv, TypeOK, WellFormed, Sound, Marked, FlushType, LastType,
         OneFramePerPage, OnePerPage, FramesHoldAllocatedPages, FrameOK, HoldsPage

LEMMA ReturnsOK ==
  ASSUME NEW call \in Calls, NEW s \in Spaces, NEW rc \in ReturnCodes, Returns(call, s, rc)
  PROVE  last' \in LastType
  BY DEF Returns, LastType

LEMMA OtherOK == Other \in LastType
  BY DEF Other, LastType, Calls, Spaces, ReturnCodes

LEMMA SpaceOfOK ==
  ASSUME NEW t
  PROVE  SpaceOf(t) \in Spaces
  BY DEF SpaceOf, Spaces

\* A step that leaves the files alone and keeps every frame's page.
LEMMA FramesStep ==
  ASSUME PoolInv, disk' = disk, frames' \in [Frames -> BufferFrame],
         \A i \in Frames :
            /\ SamePage(frames'[i], frames[i])
            /\ frames[i].pageNum = NoPage => ~frames'[i].isDirty /\ frames'[i].pinCount = 0
  PROVE  WellFormed(disk') /\ Sound(frames', disk')
  BY PoolInvParts, KeepPages, GrowsReflexive

\* A step that changes one file and keeps every frame's page.
LEMMA FileStep ==
  ASSUME PoolInv, NEW t \in Tables, NEW g, FileOK(g), Follows(g, disk[t]),
         disk' = [disk EXCEPT ![t] = g], frames' \in [Frames -> BufferFrame],
         \A i \in Frames :
            /\ SamePage(frames'[i], frames[i])
            /\ frames[i].pageNum = NoPage => ~frames'[i].isDirty /\ frames'[i].pinCount = 0
  PROVE  WellFormed(disk') /\ Sound(frames', disk')
<1>1. WellFormed(disk) /\ Sound(frames, disk)
  BY PoolInvParts
<1>2. Grows(disk', disk)
  BY <1>1, UpdateGrows
<1>3. Sound(frames', disk')
  BY <1>1, <1>2, KeepPages
<1> QED
  BY <1>2, <1>3 DEF Grows, WellFormed

LEMMA FoundFrameOK ==
  ASSUME PoolInv, NEW t \in Tables, NEW b \in Blocks, NEW i, FoundFrame(i, t, b)
  PROVE  /\ i \in Frames
         /\ frames[i] \in BufferFrame
         /\ frames[i].pageNum # NoPage
         /\ frames[i].tableId = t
         /\ frames[i].pageNum = b
  BY PagesAreFrames DEF PoolInv, TypeOK, FoundFrame, Holds, HoldsPage

\* A step that gives one frame another pin count or reference bit, or marks it.
LEMMA OneFrameStep ==
  ASSUME PoolInv, NEW i \in Frames, NEW g \in BufferFrame, SamePage(g, frames[i]),
         frames[i].pageNum # NoPage,
         frames' = [frames EXCEPT ![i] = g]
  PROVE  /\ frames' \in [Frames -> BufferFrame]
         /\ \A j \in Frames :
             /\ SamePage(frames'[j], frames[j])
             /\ j # i => frames'[j] = frames[j]
             /\ frames[j].pageNum = NoPage => ~frames'[j].isDirty /\ frames'[j].pinCount = 0
         /\ frames'[i] = g
<1>1. frames \in [Frames -> BufferFrame]
  BY DEF PoolInv, TypeOK
<1>2. /\ frames' \in [Frames -> BufferFrame] /\ frames'[i] = g
      /\ \A j \in Frames : j # i => frames'[j] = frames[j]
  BY <1>1
<1>3. \A j \in Frames : SamePage(frames'[j], frames[j])
  BY <1>2 DEF SamePage
<1>4. \A j \in Frames : frames[j].pageNum = NoPage =>
                             ~frames[j].isDirty /\ frames[j].pinCount = 0
  BY DEF PoolInv, FramesHoldAllocatedPages, FrameOK
<1> QED
  BY <1>2, <1>3, <1>4

LEMMA MarkedStep ==
  ASSUME NEW fr, NEW U, NEW fr2, NEW U2, Marked(fr, U), U2 \subseteq Frames,
         \A j \in U2 : (j \in U /\ fr[j].pinCount > 0) => fr2[j].pinCount > 0,
         \A j \in U2 \ U : fr2[j].pinCount > 0
  PROVE  Marked(fr2, U2)
  BY DEF Marked

LEMMA GetPageHitOK ==
  ASSUME PoolInv, NEW t \in Tables, NEW b \in Blocks, GetPageHit(t, b)
  PROVE  PoolInv'
<1> PICK i : /\ FoundFrame(i, t, b)
             /\ frames' = [frames EXCEPT ![i].pinCount = @ + 1, ![i].refBit = TRUE]
  BY DEF GetPageHit
<1> DEFINE g == [frames[i] EXCEPT !.pinCount = @ + 1, !.refBit = TRUE]
<1>1. i \in Frames /\ frames[i] \in BufferFrame /\ frames[i].pageNum # NoPage
  BY FoundFrameOK
<1>2. g \in BufferFrame /\ SamePage(g, frames[i]) /\ g.pinCount > 0
  <2>1. frames[i].pinCount \in Nat /\ frames[i].pinCount + 1 \in Nat
    BY <1>1 DEF BufferFrame
  <2>2. g.pinCount > 0 /\ SamePage(g, frames[i])
    BY <1>1, <2>1 DEF BufferFrame, SamePage
  <2>3. \A n \in Nat : [frames[i] EXCEPT !.pinCount = n, !.refBit = TRUE] \in BufferFrame
    BY <1>1 DEF BufferFrame
  <2> QED
    BY <2>1, <2>2, <2>3
<1>3. frames' = [frames EXCEPT ![i] = g]
  BY <1>1 DEF PoolInv, TypeOK, BufferFrame
<1> HIDE DEF g
<1>4. WellFormed(disk') /\ Sound(frames', disk')
  BY <1>1, <1>2, <1>3, OneFrameStep, FramesStep DEF GetPageHit
<1>5. last' \in LastType
  BY ReturnsOK, SpaceOfOK DEF GetPageHit, Calls, ReturnCodes
<1>6. Marked(frames', unmarked')
  <2>1. unmarked' = unmarked /\ Marked(frames, unmarked)
    BY PoolInvParts DEF GetPageHit
  <2>2. \A j \in Frames : frames[j].pinCount > 0 => frames'[j].pinCount > 0
    BY <1>1, <1>2, <1>3, OneFrameStep
  <2> QED
    BY <2>1, <2>2 DEF Marked
<1> QED
  BY <1>4, <1>5, <1>6, PoolInvParts, PoolInvPartsNext DEF GetPageHit

LEMMA GetPageRefusedOK ==
  ASSUME PoolInv, NEW t \in Tables, NEW b \in Blocks, GetPageRefused(t, b)
  PROVE  PoolInv'
<1>1. frames \in [Frames -> BufferFrame]
  BY DEF PoolInv, TypeOK
<1>2. /\ frames' \in [Frames -> BufferFrame]
      /\ \A j \in Frames : SameButRef(frames'[j], frames[j])
  BY <1>1, SweptOK DEF GetPageRefused
<1>3. \A j \in Frames : frames[j].pageNum = NoPage =>
                             ~frames[j].isDirty /\ frames[j].pinCount = 0
  BY DEF PoolInv, FramesHoldAllocatedPages, FrameOK
<1>4. WellFormed(disk') /\ Sound(frames', disk')
  BY <1>2, <1>3, FramesStep DEF GetPageRefused, SameButRef
<1>5. last' \in LastType
  BY ReturnsOK, SpaceOfOK DEF GetPageRefused, Calls, ReturnCodes
<1>6. Marked(frames', unmarked')
  BY <1>2, PoolInvParts DEF GetPageRefused, Marked, SameButRef
<1> QED
  BY <1>4, <1>5, <1>6, PoolInvParts, PoolInvPartsNext DEF GetPageRefused

LEMMA ModifyOK ==
  ASSUME PoolInv, NEW i \in Frames, NEW c \in Contents, Modify(i, c)
  PROVE  PoolInv'
<1> DEFINE g == [frames[i] EXCEPT !.data = c]
<1>1. frames[i] \in BufferFrame /\ frames[i].pinCount > 0 /\ frames[i].pageNum # NoPage
  BY DEF Modify, PoolInv, TypeOK, FramesHoldAllocatedPages, FrameOK
<1>2. g \in BufferFrame /\ SamePage(g, frames[i]) /\ g.pinCount = frames[i].pinCount
  BY <1>1 DEF BufferFrame, SamePage
<1>3. frames' = [frames EXCEPT ![i] = g]
  BY DEF Modify, PoolInv, TypeOK, BufferFrame
<1> HIDE DEF g
<1>4. WellFormed(disk') /\ Sound(frames', disk')
  BY <1>1, <1>2, <1>3, OneFrameStep, FramesStep DEF Modify
<1>5. Marked(frames', unmarked')
  <2>1. unmarked' = unmarked \union {i} /\ Marked(frames, unmarked)
    BY PoolInvParts DEF Modify
  <2>2. \A j \in Frames : frames'[j].pinCount = frames[j].pinCount
    BY <1>1, <1>2, <1>3, OneFrameStep
  <2> QED
    BY <1>1, <2>1, <2>2 DEF Marked
<1> QED
  BY <1>4, <1>5, OtherOK, PoolInvParts, PoolInvPartsNext DEF Modify

LEMMA MarkDirtyOK ==
  ASSUME PoolInv, NEW t \in Tables, NEW b \in Blocks, MarkDirty(t, b)
  PROVE  PoolInv'
<1> PICK i : /\ FoundFrame(i, t, b)
             /\ frames' = [frames EXCEPT ![i].isDirty = TRUE]
             /\ unmarked' = unmarked \ {i}
  BY DEF MarkDirty
<1> DEFINE g == [frames[i] EXCEPT !.isDirty = TRUE]
<1>1. i \in Frames /\ frames[i] \in BufferFrame /\ frames[i].pageNum # NoPage
  BY FoundFrameOK
<1>2. g \in BufferFrame /\ SamePage(g, frames[i]) /\ g.pinCount = frames[i].pinCount
  BY <1>1 DEF BufferFrame, SamePage
<1>3. frames' = [frames EXCEPT ![i] = g]
  BY <1>1 DEF PoolInv, TypeOK, BufferFrame
<1> HIDE DEF g
<1>4. WellFormed(disk') /\ Sound(frames', disk')
  BY <1>1, <1>2, <1>3, OneFrameStep, FramesStep DEF MarkDirty
<1>5. Marked(frames', unmarked')
  <2>1. Marked(frames, unmarked)
    BY PoolInvParts
  <2>2. \A j \in Frames : frames'[j].pinCount = frames[j].pinCount
    BY <1>1, <1>2, <1>3, OneFrameStep
  <2> QED
    BY <2>1, <2>2 DEF Marked
<1> QED
  BY <1>4, <1>5, OtherOK, PoolInvParts, PoolInvPartsNext DEF MarkDirty

LEMMA ReleasePageOK ==
  ASSUME PoolInv, NEW t \in Tables, NEW b \in Blocks, ReleasePage(t, b)
  PROVE  PoolInv'
<1> PICK i : /\ FoundFrame(i, t, b)
             /\ i \notin unmarked
             /\ frames' = [frames EXCEPT ![i].pinCount = IF @ > 0 THEN @ - 1 ELSE @]
  BY DEF ReleasePage
<1> DEFINE n == IF frames[i].pinCount > 0 THEN frames[i].pinCount - 1
                                          ELSE frames[i].pinCount
           g == [frames[i] EXCEPT !.pinCount = n]
<1>1. i \in Frames /\ frames[i] \in BufferFrame /\ frames[i].pageNum # NoPage
  BY FoundFrameOK
<1>2. frames' = [frames EXCEPT ![i] = g]
  BY <1>1 DEF PoolInv, TypeOK, BufferFrame
<1>3. g \in BufferFrame /\ SamePage(g, frames[i])
  <2>1. frames[i].pinCount \in Nat
    BY <1>1 DEF BufferFrame
  <2>2. n \in Nat
    BY <2>1
  <2> HIDE DEF n
  <2> QED
    BY <1>1, <2>2 DEF BufferFrame, SamePage
<1> HIDE DEF g
<1>4. WellFormed(disk') /\ Sound(frames', disk')
  BY <1>1, <1>2, <1>3, OneFrameStep, FramesStep DEF ReleasePage
<1>5. Marked(frames', unmarked')
  <2>1. Marked(frames, unmarked) /\ unmarked' = unmarked
    BY PoolInvParts DEF ReleasePage
  <2>2. \A j \in Frames : j # i => frames'[j] = frames[j]
    BY <1>1, <1>2, <1>3, OneFrameStep
  <2> QED
    BY <2>1, <2>2 DEF Marked
<1> QED
  BY <1>4, <1>5, OtherOK, PoolInvParts, PoolInvPartsNext DEF ReleasePage

\* What a write-back of frame i leaves of the frames fr.
LEMMA WrittenFrames ==
  ASSUME NEW fr \in [Frames -> BufferFrame], NEW i \in Frames
  PROVE  LET fr2 == [fr EXCEPT ![i].isDirty = FALSE]
         IN  /\ fr2 \in [Frames -> BufferFrame]
             /\ ~fr2[i].isDirty
             /\ \A j \in Frames : /\ SamePage(fr2[j], fr[j])
                                  /\ fr2[j].pinCount = fr[j].pinCount
                                  /\ fr2[j].data = fr[j].data
                                  /\ fr2[j].isDirty => fr[j].isDirty
                                  /\ j # i => fr2[j].isDirty = fr[j].isDirty
<1> DEFINE g == [fr[i] EXCEPT !.isDirty = FALSE]
           fr2 == [fr EXCEPT ![i].isDirty = FALSE]
<1>1. /\ g \in BufferFrame /\ SamePage(g, fr[i]) /\ g.pinCount = fr[i].pinCount
      /\ g.data = fr[i].data /\ ~g.isDirty
  BY DEF BufferFrame, SamePage
<1>2. fr2 = [fr EXCEPT ![i] = g]
  BY DEF BufferFrame
<1> HIDE DEF g, fr2
<1>3. fr2 \in [Frames -> BufferFrame] /\ fr2[i] = g
      /\ \A j \in Frames : j # i => fr2[j] = fr[j]
  BY <1>1, <1>2
<1> QED
  BY <1>1, <1>3 DEF SamePage, fr2

\* What a write-back of frame i leaves of it.
LEMMA WrittenFrame ==
  ASSUME PoolInv, NEW i \in Frames
  PROVE  LET g == [frames[i] EXCEPT !.isDirty = FALSE]
         IN  /\ g \in BufferFrame
             /\ SamePage(g, frames[i])
             /\ g.pinCount = frames[i].pinCount
             /\ g.data = frames[i].data
             /\ g.isDirty = FALSE
             /\ [frames EXCEPT ![i].isDirty = FALSE] = [frames EXCEPT ![i] = g]
  BY DEF PoolInv, TypeOK, BufferFrame, SamePage

LEMMA FlushPageOK ==
  ASSUME PoolInv, NEW t \in Tables, NEW b \in Blocks, NEW outcome,
         FlushPage(t, b, outcome)
  PROVE  PoolInv'
<1> PICK i : /\ FoundFrame(i, t, b)
             /\ disk' = [disk EXCEPT ![frames[i].tableId] = Evict(i, outcome).file]
             /\ frames' = IF Evict(i, outcome).rc = "OK"
                           THEN [frames EXCEPT ![i].isDirty = FALSE] ELSE frames
  BY DEF FlushPage
<1> DEFINE g == [frames[i] EXCEPT !.isDirty = FALSE]
           e == Evict(i, outcome)
<1>1. i \in Frames /\ frames[i] \in BufferFrame /\ frames[i].pageNum # NoPage
      /\ frames[i].tableId = t
  BY FoundFrameOK
<1>2. FileOK(e.file) /\ Follows(e.file, disk[t])
  BY <1>1, EvictOK, PoolInvParts
<1>3. g \in BufferFrame /\ SamePage(g, frames[i]) /\ g.pinCount = frames[i].pinCount
  BY <1>1, WrittenFrame
<1>4. \/ frames' = [frames EXCEPT ![i] = g]
      \/ frames' = [frames EXCEPT ![i] = frames[i]]
  BY <1>1, WrittenFrame DEF PoolInv, TypeOK
<1>5. SamePage(frames[i], frames[i])
  BY DEF SamePage
<1> HIDE DEF g, e
<1>6. WellFormed(disk') /\ Sound(frames', disk')
  <2>1. /\ frames' \in [Frames -> BufferFrame]
        /\ \A j \in Frames :
            /\ SamePage(frames'[j], frames[j])
            /\ frames[j].pageNum = NoPage => ~frames'[j].isDirty /\ frames'[j].pinCount = 0
    BY <1>1, <1>3, <1>4, <1>5, OneFrameStep
  <2>2. disk' = [disk EXCEPT ![t] = e.file]
    BY <1>1 DEF e
  <2> QED
    BY <1>2, <2>1, <2>2, FileStep
<1>7. Marked(frames', unmarked')
  <2>1. Marked(frames, unmarked) /\ unmarked' = unmarked
    BY PoolInvParts DEF FlushPage
  <2>2. \A j \in Frames : frames'[j].pinCount = frames[j].pinCount
    BY <1>1, <1>3, <1>4, <1>5, OneFrameStep
  <2> QED
    BY <2>1, <2>2 DEF Marked
<1> QED
  BY <1>6, <1>7, OtherOK, PoolInvParts, PoolInvPartsNext DEF FlushPage

LEMMA GetFreeFrameOK ==
  ASSUME PoolInv, NEW s \in Spaces, NEW outcome, GetFreeFrame(s, outcome)
  PROVE  PoolInv'
<1>1. frames \in [Frames -> BufferFrame] /\ clockHand \in Frames
  BY DEF PoolInv, TypeOK
<1>2. \A j \in Frames : frames[j].pageNum = NoPage =>
                             ~frames[j].isDirty /\ frames[j].pinCount = 0
  BY DEF PoolInv, FramesHoldAllocatedPages, FrameOK
<1>3. CASE frames' = Swept(Evictable(s)) /\ UNCHANGED <<clockHand, disk>>
  <2>1. /\ frames' \in [Frames -> BufferFrame]
        /\ \A j \in Frames : SameButRef(frames'[j], frames[j])
    BY <1>1, <1>3, SweptOK
  <2>2. WellFormed(disk') /\ Sound(frames', disk')
    BY <1>2, <1>3, <2>1, FramesStep DEF SameButRef
  <2>3. Marked(frames', unmarked')
    BY <2>1, PoolInvParts DEF GetFreeFrame, Marked, SameButRef
  <2> QED
    BY <1>3, <2>2, <2>3, OtherOK, PoolInvParts, PoolInvPartsNext DEF GetFreeFrame
<1>4. CASE \E i \in Frames :
             /\ CanUse(s, i)
             /\ clockHand' = HandFor(s, i)
             /\ disk' = [disk EXCEPT ![frames[i].tableId] = Evict(i, outcome).file]
             /\ frames' = IF Evict(i, outcome).rc = "OK"
                          THEN [SweptFor(s, i) EXCEPT ![i].isDirty = FALSE]
                          ELSE SweptFor(s, i)
  <2>0. PICK i \in Frames :
             /\ CanUse(s, i)
             /\ clockHand' = HandFor(s, i)
             /\ disk' = [disk EXCEPT ![frames[i].tableId] = Evict(i, outcome).file]
             /\ frames' = IF Evict(i, outcome).rc = "OK"
                          THEN [SweptFor(s, i) EXCEPT ![i].isDirty = FALSE]
                          ELSE SweptFor(s, i)
    BY <1>4
  <2> DEFINE fr == SweptFor(s, i)
             e  == Evict(i, outcome)
  <2>1. /\ fr \in [Frames -> BufferFrame]
        /\ \A j \in Frames : SameButRef(fr[j], frames[j])
    BY <1>1, SweptForOK
  <2>2. FileOK(e.file) /\ Follows(e.file, disk[frames[i].tableId])
    BY EvictOK, PoolInvParts
  <2>3. frames' = fr \/ frames' = [fr EXCEPT ![i].isDirty = FALSE]
    BY <2>0
  <2> HIDE DEF fr, e
  <2>4. /\ frames' \in [Frames -> BufferFrame]
        /\ \A j \in Frames : /\ SamePage(frames'[j], fr[j])
                             /\ frames'[j].pinCount = fr[j].pinCount
                             /\ frames'[j].isDirty => fr[j].isDirty
    <3>1. CASE frames' = fr
      BY <2>1, <3>1 DEF SamePage
    <3>2. CASE frames' = [fr EXCEPT ![i].isDirty = FALSE]
      <4>1. fr \in [Frames -> BufferFrame]
        BY <2>1
      <4> QED
        BY <3>2, <4>1, WrittenFrames, ZenonT(40)
    <3> QED
      BY <2>3, <3>1, <3>2
  <2>5. frames[i].tableId \in Tables
    BY <1>1 DEF BufferFrame
  <2>6. \A j \in Frames :
        /\ SamePage(frames'[j], frames[j])
        /\ frames'[j].pinCount = frames[j].pinCount
        /\ frames[j].pageNum = NoPage => ~frames'[j].isDirty /\ frames'[j].pinCount = 0
    <3> SUFFICES ASSUME NEW j \in Frames
                 PROVE  /\ SamePage(frames'[j], frames[j])
                        /\ frames'[j].pinCount = frames[j].pinCount
                        /\ frames'[j].isDirty => frames[j].isDirty
      BY <1>2
    <3>1. SameButRef(fr[j], frames[j])
      BY <2>1
    <3>2. SamePage(frames'[j], fr[j]) /\ frames'[j].pinCount = fr[j].pinCount
      BY <2>4
    <3>3. SamePage(frames'[j], frames[j]) /\ frames'[j].pinCount = frames[j].pinCount
      BY <3>1, <3>2 DEF SameButRef, SamePage
    <3>4. frames'[j].isDirty => frames[j].isDirty
      BY <2>4, <3>1 DEF SameButRef
    <3> QED
      BY <3>3, <3>4
  <2>7. WellFormed(disk') /\ Sound(frames', disk')
    <3>1. disk' = [disk EXCEPT ![frames[i].tableId] = e.file]
      BY <2>0 DEF e
    <3> QED
      BY <2>2, <2>4, <2>5, <2>6, <3>1, FileStep
  <2>8. Marked(frames', unmarked')
    BY <2>6, PoolInvParts DEF GetFreeFrame, Marked
  <2>9. clockHand' \in Frames
    BY <1>1, <2>0, HandForOK
  <2> QED
    BY <2>0, <2>7, <2>8, <2>9, OtherOK, PoolInvParts, PoolInvPartsNext DEF GetFreeFrame
<1> QED
  BY <1>3, <1>4 DEF GetFreeFrame

\* The file calls next to the pool leave the frames alone.
LEMMA DiskStep ==
  ASSUME PoolInv, NEW t \in Tables, NEW g, FileOK(g), Follows(g, disk[t]),
         disk' = [disk EXCEPT ![t] = g],
         UNCHANGED <<frames, clockHand, flush, unmarked>>,
         last' \in LastType
  PROVE  PoolInv'
<1>1. \A j \in Frames : frames[j].pageNum = NoPage =>
                             ~frames[j].isDirty /\ frames[j].pinCount = 0
  BY DEF PoolInv, FramesHoldAllocatedPages, FrameOK
<1>2. \A j \in Frames : SamePage(frames[j], frames[j])
  BY DEF SamePage
<1>3. WellFormed(disk') /\ Sound(frames', disk')
  BY <1>1, <1>2, FileStep DEF PoolInv, TypeOK
<1> QED
  BY <1>3, PoolInvParts, PoolInvPartsNext

LEMMA CreateTableOK ==
  ASSUME PoolInv, NEW t \in Tables, NEW outcome, CreateTable(t, outcome)
  PROVE  PoolInv'
<1> DEFINE g == CreateFile(disk[t], t = LogTable, outcome).file
<1>1. FileOK(g) /\ Follows(g, disk[t])
  BY CreateFileOK DEF PoolInv
<1>2. disk' = [disk EXCEPT ![t] = g]
  BY DEF CreateTable
<1> QED
  BY <1>1, <1>2, DiskStep, OtherOK DEF CreateTable

LEMMA AllocOK ==
  ASSUME PoolInv, NEW t \in Tables, NEW outcome, Alloc(t, outcome)
  PROVE  PoolInv'
<1> DEFINE g == AllocBlock(disk[t], outcome).file
<1>1. FileOK(g) /\ Follows(g, disk[t])
  BY AllocBlockOK DEF PoolInv
<1>2. disk' = [disk EXCEPT ![t] = g]
  BY DEF Alloc
<1> QED
  BY <1>1, <1>2, DiskStep, OtherOK DEF Alloc

LEMMA ReadDirectlyOK ==
  ASSUME PoolInv, NEW t \in Tables, NEW b \in Blocks, NEW outcome,
         ReadDirectly(t, b, outcome)
  PROVE  PoolInv'
<1> DEFINE g == ReadBlock(disk[t], b, Zero, outcome).file
<1>1. FileOK(g) /\ Follows(g, disk[t])
  BY ReadBlockOK, DiskAssumption DEF PoolInv
<1>2. disk' = [disk EXCEPT ![t] = g]
  BY DEF ReadDirectly
<1>3. last' \in LastType
  BY PoolInvParts DEF ReadDirectly
<1> QED
  BY <1>1, <1>2, <1>3, DiskStep DEF ReadDirectly

LEMMA StartFlushOK ==
  ASSUME PoolInv, FlushAllPages \/ \E s \in Spaces : FlushSpace(s)
  PROVE  PoolInv'
<1>1. 0 \in 0 .. NumFrames
  BY PoolAssumption DEF NumFrames
<1>2. CASE FlushAllPages
  <2>1. <<"DICT", "DATA", "LOG">> \in Seq(Spaces)
    BY DEF Spaces
  <2>2. flush' \in FlushType
    BY <1>1, <1>2, <2>1 DEF FlushAllPages, FlushType, Calls
  <2> QED
    BY <1>2, <2>2, OtherOK, PoolInvParts, PoolInvPartsNext DEF FlushAllPages
<1>3. ASSUME NEW s \in Spaces, FlushSpace(s)
      PROVE  PoolInv'
  <2>1. <<s>> \in Seq(Spaces) /\ <<>> \in Seq(Spaces)
    OBVIOUS
  <2>2. flush' \in FlushType
    BY <1>1, <1>3, <2>1 DEF FlushSpace, FlushType, Calls
  <2> QED
    BY <1>3, <2>2, OtherOK, PoolInvParts, PoolInvPartsNext DEF FlushSpace
<1> QED
  BY <1>2, <1>3

LEMMA EndOfSpaceOK ==
  ASSUME PoolInv, ~Quiet, NEW rc \in ReturnCodes, EndOfSpace(rc)
  PROVE  flush' \in FlushType /\ last' \in LastType
<1>1. /\ flush \in FlushType /\ last \in LastType
      /\ flush.todo \in Seq(Spaces) /\ flush.todo # <<>>
  BY PoolInvParts DEF FlushType, Quiet
<1>2. Head(flush.todo) \in Spaces /\ Tail(flush.todo) \in Seq(Spaces)
  BY <1>1
<1>3. 0 \in 0 .. NumFrames
  BY PoolAssumption DEF NumFrames
<1>4. flush' \in FlushType
  <2>1. Idle \in FlushType
    <3>1. <<>> \in Seq(Spaces)
      OBVIOUS
    <3> QED
      BY <1>3, <3>1 DEF Idle, FlushType, Calls
  <2>2. [flush EXCEPT !.todo = Tail(@), !.next = 0] \in FlushType
    BY <1>1, <1>2, <1>3 DEF FlushType
  <2> QED
    BY <2>1, <2>2 DEF EndOfSpace
<1>5. last' \in LastType
  <2>1. flush.call \in Calls /\ "OK" \in ReturnCodes
    BY <1>1 DEF FlushType, ReturnCodes
  <2>2. CASE Len(flush.todo) = 1
    BY <1>2, <2>1, <2>2, ReturnsOK DEF EndOfSpace
  <2>3. CASE Len(flush.todo) # 1
    BY <1>1, <2>3 DEF EndOfSpace
  <2> QED
    BY <2>2, <2>3
<1> QED
  BY <1>4, <1>5

\* flushSpace writes the pages of LOG_SPACE to the log table whatever their
\* table id; they are the log's.
LEMMA FlushTargetOK ==
  ASSUME PoolInv, ~Quiet, NEW i \in ToFlush
  PROVE  /\ i \in Frames
         /\ frames[i] \in BufferFrame
         /\ frames[i].pageNum \in Blocks
         /\ FlushTarget(i) = frames[i].tableId
<1>1. i \in Frames /\ frames[i].isDirty /\ frames[i].spaceType = Head(flush.todo)
  BY DEF ToFlush
<1>2. frames[i] \in BufferFrame /\ FrameOK(i, frames[i], disk)
  BY <1>1 DEF PoolInv, TypeOK, FramesHoldAllocatedPages
<1>3. frames[i].pageNum \in Blocks
  BY <1>1, <1>2 DEF FrameOK, BufferFrame
<1>4. SpaceOf(frames[i].tableId) = frames[i].spaceType
  BY <1>2, <1>3, PagesAreFrames DEF FrameOK
<1> QED
  BY <1>1, <1>2, <1>3, <1>4 DEF FlushTarget, SpaceOf

LEMMA FlushFrameOK ==
  ASSUME PoolInv, NEW outcome, FlushFrame(outcome)
  PROVE  PoolInv'
<1>0. PICK i \in ToFlush :
        LET w == WriteBlock(disk[FlushTarget(i)], frames[i].pageNum, frames[i].data, outcome)
        IN  /\ disk' = [disk EXCEPT ![FlushTarget(i)] = w.file]
            /\ IF w.rc = "OK"
               THEN /\ frames' = [frames EXCEPT ![i].isDirty = FALSE]
                    /\ flush' = [flush EXCEPT !.next = i + 1]
                    /\ UNCHANGED last
               ELSE /\ EndOfSpace(w.rc)
                    /\ UNCHANGED frames
  BY DEF FlushFrame
<1> DEFINE t == frames[i].tableId
           w == WriteBlock(disk[t], frames[i].pageNum, frames[i].data, outcome)
<1>1. /\ i \in Frames /\ frames[i] \in BufferFrame /\ frames[i].pageNum \in Blocks
      /\ FlushTarget(i) = t /\ t \in Tables /\ frames[i].data \in Contents
  BY FlushTargetOK DEF FlushFrame, BufferFrame
<1>2. FileOK(w.file) /\ Follows(w.file, disk[t])
  BY <1>1, WriteBlockOK DEF PoolInv
<1>3. w.rc \in ReturnCodes
  BY WriteBlockCodes DEF ReturnCodes
<1>4. /\ disk' = [disk EXCEPT ![t] = w.file]
      /\ \/ /\ frames' = [frames EXCEPT ![i].isDirty = FALSE]
            /\ flush' = [flush EXCEPT !.next = i + 1]
            /\ UNCHANGED last
         \/ EndOfSpace(w.rc) /\ UNCHANGED frames
  BY <1>0, <1>1
<1> HIDE DEF w
<1>5. /\ frames \in [Frames -> BufferFrame]
      /\ \A j \in Frames : frames[j].pageNum = NoPage =>
                              ~frames[j].isDirty /\ frames[j].pinCount = 0
  BY DEF PoolInv, TypeOK, FramesHoldAllocatedPages, FrameOK
<1>6. /\ frames' \in [Frames -> BufferFrame]
      /\ \A j \in Frames : /\ SamePage(frames'[j], frames[j])
                           /\ frames'[j].pinCount = frames[j].pinCount
                           /\ frames'[j].isDirty => frames[j].isDirty
  <2>1. CASE frames' = [frames EXCEPT ![i].isDirty = FALSE]
    <3> DEFINE fr2 == [frames EXCEPT ![i].isDirty = FALSE]
    <3>1. /\ fr2 \in [Frames -> BufferFrame]
          /\ \A j \in Frames : /\ SamePage(fr2[j], frames[j])
                               /\ fr2[j].pinCount = frames[j].pinCount
                               /\ fr2[j].isDirty => frames[j].isDirty
      <4>1. frames \in [Frames -> BufferFrame] /\ i \in Frames
        BY <1>1, <1>5
      <4> QED
        BY <4>1, WrittenFrames, ZenonT(40)
    <3>2. frames' = fr2
      BY <2>1
    <3> HIDE DEF fr2
    <3> QED
      BY <3>1, <3>2
  <2>2. CASE UNCHANGED frames
    <3>1. \A j \in Frames : SamePage(frames[j], frames[j])
      BY DEF SamePage
    <3> QED
      BY <1>5, <2>2, <3>1
  <2> QED
    BY <1>4, <2>1, <2>2
<1>7. WellFormed(disk') /\ Sound(frames', disk')
  <2>1. \A j \in Frames : frames[j].pageNum = NoPage =>
                             ~frames'[j].isDirty /\ frames'[j].pinCount = 0
    BY <1>5, <1>6
  <2> QED
    BY <1>1, <1>2, <1>4, <1>6, <2>1, FileStep
<1>8. flush' \in FlushType /\ last' \in LastType
  <2>1. CASE flush' = [flush EXCEPT !.next = i + 1] /\ UNCHANGED last
    <3>1. i + 1 \in 0 .. NumFrames
      BY <1>1, PoolAssumption DEF Frames, NumFrames
    <3> QED
      BY <2>1, <3>1, PoolInvParts DEF FlushType
  <2>2. CASE EndOfSpace(w.rc)
    BY <1>3, <2>2, EndOfSpaceOK DEF FlushFrame
  <2> QED
    BY <1>4, <2>1, <2>2
<1>9. Marked(frames', unmarked')
  BY <1>6, PoolInvParts DEF FlushFrame, Marked
<1> QED
  BY <1>7, <1>8, <1>9, PoolInvParts, PoolInvPartsNext DEF FlushFrame

LEMMA FlushSpaceDoneOK ==
  ASSUME PoolInv, FlushSpaceDone
  PROVE  PoolInv'
<1>1. flush' \in FlushType /\ last' \in LastType
  BY EndOfSpaceOK DEF FlushSpaceDone, ReturnCodes
<1> QED
  BY <1>1, PoolInvParts, PoolInvPartsNext DEF FlushSpaceDone

LEMMA EmptyPoolOK ==
  ASSUME NEW d, NEW fr, WellFormed(d), fr = [i \in Frames |-> EmptyFrame(i)]
  PROVE  Sound(fr, d) /\ Marked(fr, {})
<1>1. \A i \in Frames : EmptyFrame(i) \in BufferFrame
  BY PoolAssumption, DiskAssumption
  DEF EmptyFrame, BufferFrame, Partition, Spaces, NoPage
<1>2. fr \in [Frames -> BufferFrame]
  BY <1>1
<1>3. OnePerPage(fr)
  BY DEF OnePerPage, EmptyFrame
<1>4. \A i \in Frames : FrameOK(i, fr[i], d)
  BY DEF FrameOK, EmptyFrame
<1> QED
  BY <1>2, <1>3, <1>4 DEF Sound, Marked

LEMMA RestartOK ==
  ASSUME NEW files, WellFormed(files), Restart(files)
  PROVE  PoolInv'
<1>1. Idle \in FlushType /\ 0 \in Frames
  <2>1. 0 \in 0 .. NumFrames /\ 0 \in Frames
    BY PoolAssumption DEF NumFrames, Frames
  <2>2. <<>> \in Seq(Spaces)
    OBVIOUS
  <2> QED
    BY <2>1, <2>2 DEF Idle, FlushType, Calls
<1>2. Sound(frames', disk') /\ Marked(frames', unmarked')
  BY EmptyPoolOK DEF Restart
<1> QED
  BY <1>1, <1>2, OtherOK, PoolInvPartsNext DEF Restart

LEMMA StopOK ==
  ASSUME PoolInv, Crash \/ Exit
  PROVE  PoolInv'
<1> DEFINE crashed == [t \in Tables |-> Abandon(disk[t])]
           closed  == [t \in Tables |-> CloseTableFile(disk[t]).file]
<1>1. WellFormed(crashed) /\ WellFormed(closed)
  <2>1. \A t \in Tables : FileOK(Abandon(disk[t])) /\ FileOK(CloseTableFile(disk[t]).file)
    BY AbandonFileOK, CloseFileOK DEF PoolInv
  <2> QED
    BY <2>1 DEF WellFormed, FileOK
<1> QED
  BY <1>1, RestartOK DEF Crash, Exit

\* The frame getPage gives to page b of table t, or leaves to its victim.
LEMMA LoadedFrameOK ==
  ASSUME NEW v \in BufferFrame, NEW t \in Tables, NEW b \in Blocks,
         NEW read, read.data \in Contents
  PROVE  LET g == LoadedFrame(v, t, b, read)
         IN  /\ g \in BufferFrame
             /\ ~g.isDirty
             /\ g.data = read.data
             /\ read.rc = "OK" => HoldsPage(g, t, b) /\ g.spaceType = SpaceOf(t)
             /\ read.rc # "OK" => SamePage(g, v) /\ g.pinCount = v.pinCount
<1> DEFINE g == LoadedFrame(v, t, b, read)
<1>1. CASE read.rc = "OK"
  <2>1. g = [v EXCEPT !.tableId = t, !.pageNum = b, !.data = read.data,
                      !.isDirty = FALSE, !.spaceType = SpaceOf(t),
                      !.pinCount = 1, !.refBit = TRUE]
    BY <1>1 DEF LoadedFrame
  <2> HIDE DEF g
  <2>2. /\ g.tableId = t /\ g.pageNum = b /\ g.data = read.data /\ g.isDirty = FALSE
        /\ g.spaceType = SpaceOf(t)
    BY <2>1 DEF BufferFrame
  <2>3. g \in BufferFrame
    BY <2>1, SpaceOfOK DEF BufferFrame
  <2> QED
    BY <1>1, <2>2, <2>3 DEF HoldsPage, g
<1>2. CASE read.rc # "OK"
  <2>1. g = [v EXCEPT !.data = read.data, !.isDirty = FALSE]
    BY <1>2 DEF LoadedFrame
  <2> HIDE DEF g
  <2>2. /\ SamePage(g, v) /\ g.pinCount = v.pinCount
        /\ g.data = read.data /\ g.isDirty = FALSE
    BY <2>1 DEF BufferFrame, SamePage
  <2>3. g \in BufferFrame
    BY <2>1 DEF BufferFrame
  <2> QED
    BY <1>2, <2>2, <2>3 DEF g
<1> QED
  BY <1>1, <1>2

\* What getPage does on a miss: the files after the eviction and after the
\* read, the frames after the search and after the read.
LEMMA GetPageMissSteps ==
  ASSUME PoolInv, NEW t \in Tables, NEW b \in Blocks, NEW w, NEW r,
         GetPageMiss(t, b, w, r)
  PROVE  \E i \in Frames :
           LET fr    == SweptFor(SpaceOf(t), i)
               e     == Evict(i, w)
               disk1 == [disk EXCEPT ![frames[i].tableId] = e.file]
               read  == ReadBlock(disk1[t], b, frames[i].data, r)
               disk2 == [disk1 EXCEPT ![t] = read.file]
           IN  /\ CanUse(SpaceOf(t), i)
               /\ clockHand' = HandFor(SpaceOf(t), i)
               /\ \/ /\ e.rc # "OK" /\ frames' = fr /\ disk' = disk1
                     /\ Returns("getPage", SpaceOf(t), e.rc)
                  \/ /\ e.rc = "OK" /\ disk' = disk2
                     /\ frames' = [fr EXCEPT ![i] = LoadedFrame(frames[i], t, b, read)]
                     /\ Returns("getPage", SpaceOf(t), IF read.rc = "BLOCK_NOT_FOUND"
                                                       THEN "PAGE_NOT_FOUND" ELSE read.rc)
  BY DEF GetPageMiss

LEMMA GetPageMissOK ==
  ASSUME PoolInv, NEW t \in Tables, NEW b \in Blocks, NEW w, NEW r,
         GetPageMiss(t, b, w, r)
  PROVE  PoolInv'
<1> DEFINE fr(i)    == SweptFor(SpaceOf(t), i)
           e(i)     == Evict(i, w)
           disk1(i) == [disk EXCEPT ![frames[i].tableId] = e(i).file]
           read(i)  == ReadBlock(disk1(i)[t], b, frames[i].data, r)
           disk2(i) == [disk1(i) EXCEPT ![t] = read(i).file]
           loaded(i) == LoadedFrame(frames[i], t, b, read(i))
<1>1. PICK i \in Frames :
        /\ CanUse(SpaceOf(t), i)
        /\ clockHand' = HandFor(SpaceOf(t), i)
        /\ \/ /\ e(i).rc # "OK" /\ frames' = fr(i) /\ disk' = disk1(i)
              /\ Returns("getPage", SpaceOf(t), e(i).rc)
           \/ /\ e(i).rc = "OK" /\ disk' = disk2(i)
              /\ frames' = [fr(i) EXCEPT ![i] = loaded(i)]
              /\ Returns("getPage", SpaceOf(t), IF read(i).rc = "BLOCK_NOT_FOUND"
                                                THEN "PAGE_NOT_FOUND" ELSE read(i).rc)
  BY GetPageMissSteps
<1>2. /\ WellFormed(disk) /\ Sound(frames, disk) /\ clockHand \in Frames
      /\ frames \in [Frames -> BufferFrame] /\ frames[i] \in BufferFrame
      /\ frames[i].tableId \in Tables /\ frames[i].data \in Contents
  BY PoolInvParts DEF Sound, BufferFrame
<1>3. frames[i].pinCount = 0 /\ frames[i].spaceType = SpaceOf(t) /\ SpaceOf(t) = Partition(i)
  <2>1. FrameOK(i, frames[i], disk)
    BY <1>2 DEF Sound
  <2> QED
    BY <1>1, <2>1, CanUseOK DEF FrameOK
<1>4. /\ fr(i) \in [Frames -> BufferFrame]
      /\ \A j \in Frames : SameButRef(fr(i)[j], frames[j])
  BY <1>2, SweptForOK
<1>5. Grows(disk1(i), disk) /\ WellFormed(disk1(i))
  <2>1. FileOK(e(i).file) /\ Follows(e(i).file, disk[frames[i].tableId])
    BY <1>2, EvictOK
  <2> HIDE DEF e
  <2> QED
    BY <1>2, <2>1, UpdateGrows DEF Grows, WellFormed
<1>6. /\ FileOK(read(i).file) /\ Follows(read(i).file, disk1(i)[t])
      /\ read(i).data \in Contents
      /\ read(i).rc = "OK" => read(i).file.state = "ready"
                              /\ b < read(i).file.saved.usedBlocks
  <2>1. FileOK(disk1(i)[t])
    BY <1>5 DEF WellFormed
  <2> HIDE DEF disk1
  <2> QED
    BY <1>2, <2>1, ReadBlockOK
<1>7. e(i).rc \in ReturnCodes
  BY <1>2, EvictOK
<1>8. read(i).rc \in {"OK", "FILE_NOT_FOUND", "BLOCK_NOT_FOUND"}
  BY ReadBlockCodes
<1>9. /\ loaded(i) \in BufferFrame /\ ~loaded(i).isDirty
      /\ read(i).rc = "OK" => HoldsPage(loaded(i), t, b) /\ loaded(i).spaceType = SpaceOf(t)
      /\ read(i).rc # "OK" => SamePage(loaded(i), frames[i])
                              /\ loaded(i).pinCount = frames[i].pinCount
  BY <1>2, <1>6, LoadedFrameOK
<1> HIDE DEF e, read, fr, loaded, disk1
<1>10. Grows(disk2(i), disk1(i)) /\ Grows(disk2(i), disk) /\ WellFormed(disk2(i))
  <2>1. Grows(disk2(i), disk1(i))
    BY <1>5, <1>6, UpdateGrows
  <2>2. Grows(disk2(i), disk)
    BY <1>2, <1>5, <2>1, GrowsTransitive
  <2> QED
    BY <2>1, <2>2 DEF Grows, WellFormed
<1>11. \A j \in Frames : frames[j].pageNum = NoPage =>
                             ~frames[j].isDirty /\ frames[j].pinCount = 0
  BY <1>2 DEF Sound, FrameOK
<1>12. \A j \in Frames :
          /\ SamePage(fr(i)[j], frames[j])
          /\ frames[j].pageNum = NoPage => ~fr(i)[j].isDirty /\ fr(i)[j].pinCount = 0
  BY <1>4, <1>11 DEF SameButRef
<1>13. WellFormed(disk') /\ Sound(frames', disk')
  <2>1. CASE frames' = fr(i) /\ disk' = disk1(i)
    BY <1>2, <1>4, <1>5, <1>12, <2>1, KeepPages
  <2>2. CASE read(i).rc = "OK" /\ disk' = disk2(i)
             /\ frames' = [fr(i) EXCEPT ![i] = loaded(i)]
    <3>1. Sound(fr(i), disk2(i))
      BY <1>2, <1>4, <1>10, <1>12, KeepPages
    <3>2. \A j \in Frames : ~HoldsPage(fr(i)[j], t, b)
      BY <1>12 DEF GetPageMiss, Cached, Holds, HoldsPage, SamePage
    <3>3. disk2(i)[t] = read(i).file
      BY <1>5 DEF Grows
    <3> HIDE DEF disk2
    <3> QED
      BY <1>3, <1>6, <1>9, <1>10, <2>2, <3>1, <3>2, <3>3, LoadPage
  <2>3. CASE read(i).rc # "OK" /\ disk' = disk2(i)
             /\ frames' = [fr(i) EXCEPT ![i] = loaded(i)]
    <3>1. /\ frames' \in [Frames -> BufferFrame] /\ frames'[i] = loaded(i)
          /\ \A j \in Frames : j # i => frames'[j] = fr(i)[j]
      BY <1>4, <1>9, <2>3
    <3>2. ASSUME NEW j \in Frames
          PROVE  /\ SamePage(frames'[j], frames[j])
                 /\ frames[j].pageNum = NoPage => ~frames'[j].isDirty /\ frames'[j].pinCount = 0
      <4>1. CASE j = i
        BY <1>3, <1>9, <2>3, <3>1, <4>1
      <4>2. CASE j # i
        BY <1>12, <3>1, <4>2
      <4> QED
        BY <4>1, <4>2
    <3> HIDE DEF disk2
    <3>3. frames' \in [Frames -> BufferFrame]
      BY <3>1
    <3>4. Sound(frames', disk2(i))
      BY <1>2, <1>10, <3>2, <3>3, KeepPages
    <3> QED
      BY <1>10, <2>3, <3>4
  <2> QED
    BY <1>1, <2>1, <2>2, <2>3
<1>14. Marked(frames', unmarked')
  <2>1. Marked(frames, unmarked) /\ unmarked' = unmarked
    BY PoolInvParts DEF GetPageMiss
  <2>2. i \notin unmarked
    BY <1>2, <1>3, <2>1 DEF Marked
  <2>3. \A j \in Frames : j # i => frames'[j] = fr(i)[j]
    BY <1>1, <1>4
  <2> QED
    BY <1>4, <2>1, <2>2, <2>3 DEF Marked, SameButRef
<1>15. last' \in LastType
  <2>1. (IF read(i).rc = "BLOCK_NOT_FOUND" THEN "PAGE_NOT_FOUND" ELSE read(i).rc)
           \in ReturnCodes
    BY <1>8 DEF ReturnCodes
  <2> QED
    BY <1>1, <1>7, <2>1, SpaceOfOK, ReturnsOK DEF Calls
<1>16. clockHand' \in Frames
  BY <1>1, <1>2, HandForOK
<1> QED
  BY <1>13, <1>14, <1>15, <1>16, PoolInvParts, PoolInvPartsNext DEF GetPageMiss

LEMMA InitPoolInv == Init => PoolInv
<1> SUFFICES ASSUME Init PROVE PoolInv
  OBVIOUS
<1>1. WellFormed(disk)
  <2>1. MissingFile \in File
    BY MissingFileOK DEF FileOK
  <2> QED
    BY <2>1, MissingFileOK DEF Init, WellFormed
<1>2. Sound(frames, disk) /\ Marked(frames, unmarked)
  BY <1>1, EmptyPoolOK DEF Init
<1>3. Idle \in FlushType /\ 0 \in Frames
  <2>1. 0 \in 0 .. NumFrames /\ 0 \in Frames
    BY PoolAssumption DEF NumFrames, Frames
  <2>2. <<>> \in Seq(Spaces)
    OBVIOUS
  <2> QED
    BY <2>1, <2>2 DEF Idle, FlushType, Calls
<1> QED
  BY <1>1, <1>2, <1>3, OtherOK, PoolInvParts DEF Init

LEMMA NextPoolInv == PoolInv /\ [Next]_vars => PoolInv'
<1> SUFFICES ASSUME PoolInv, [Next]_vars PROVE PoolInv'
  OBVIOUS
<1>1. CASE UNCHANGED vars
  BY <1>1, PoolInvParts, PoolInvPartsNext DEF vars
<1>2. ASSUME NEW t \in Tables, NEW o, CreateTable(t, o) PROVE PoolInv'
  BY <1>2, CreateTableOK
<1>3. ASSUME NEW t \in Tables, NEW o, Alloc(t, o) PROVE PoolInv'
  BY <1>3, AllocOK
<1>4. ASSUME NEW t \in Tables, NEW b \in Blocks, GetPageHit(t, b) PROVE PoolInv'
  BY <1>4, GetPageHitOK
<1>5. ASSUME NEW t \in Tables, NEW b \in Blocks, GetPageRefused(t, b) PROVE PoolInv'
  BY <1>5, GetPageRefusedOK
<1>6. ASSUME NEW t \in Tables, NEW b \in Blocks, NEW w, NEW r, GetPageMiss(t, b, w, r)
      PROVE  PoolInv'
  BY <1>6, GetPageMissOK
<1>7. ASSUME NEW t \in Tables, NEW b \in Blocks, MarkDirty(t, b) PROVE PoolInv'
  BY <1>7, MarkDirtyOK
<1>8. ASSUME NEW t \in Tables, NEW b \in Blocks, ReleasePage(t, b) PROVE PoolInv'
  BY <1>8, ReleasePageOK
<1>9. ASSUME NEW t \in Tables, NEW b \in Blocks, NEW o, FlushPage(t, b, o) PROVE PoolInv'
  BY <1>9, FlushPageOK
<1>10. ASSUME NEW t \in Tables, NEW b \in Blocks, NEW o, ReadDirectly(t, b, o) PROVE PoolInv'
  BY <1>10, ReadDirectlyOK
<1>11. ASSUME NEW i \in Frames, NEW c \in Contents, Modify(i, c) PROVE PoolInv'
  BY <1>11, ModifyOK
<1>12. ASSUME NEW s \in Spaces, NEW o, GetFreeFrame(s, o) PROVE PoolInv'
  BY <1>12, GetFreeFrameOK
<1>13. ASSUME FlushAllPages \/ \E s \in Spaces : FlushSpace(s) PROVE PoolInv'
  BY <1>13, StartFlushOK
<1>14. ASSUME NEW o, FlushFrame(o) PROVE PoolInv'
  BY <1>14, FlushFrameOK
<1>15. ASSUME FlushSpaceDone PROVE PoolInv'
  BY <1>15, FlushSpaceDoneOK
<1>16. ASSUME Crash \/ Exit PROVE PoolInv'
  BY <1>16, StopOK
<1> QED
  BY <1>1, <1>2, <1>3, <1>4, <1>5, <1>6, <1>7, <1>8, <1>9, <1>10, <1>11, <1>12,
     <1>13, <1>14, <1>15, <1>16 DEF Next

\* The invariant of the pool, whatever the I/O errors and the crashes: each
\* file stays well formed, a page is in one frame at most, a frame holds a page
\* of its own partition that its file records as allocated, and callers hold
\* what they changed and have yet to mark (mem_manager.cpp).
THEOREM PoolInvariant == Spec => []PoolInv
<1> QED
  BY InitPoolInv, NextPoolInv, PTL DEF Spec

\* The frames, the clock hand, the files and the flush in progress keep their
\* shape (mem_manager.cpp).
THEOREM PoolTypeCorrect == Spec => []TypeOK
<1>1. PoolInv => TypeOK
  BY DEF PoolInv
<1> QED
  BY <1>1, PoolInvariant, PTL

\* getPage never has a page in two frames (mem_manager.cpp:53-103).
THEOREM PageInOneFrame == Spec => []OneFramePerPage
<1>1. PoolInv => OneFramePerPage
  BY DEF PoolInv
<1> QED
  BY <1>1, PoolInvariant, PTL

\* Eviction and the flushes never write a page that its file does not record as
\* allocated, and never a frame that holds none (mem_manager.cpp:75-81, 154-193).
THEOREM WriteBackPossible == Spec => []FramesHoldAllocatedPages
<1>1. PoolInv => FramesHoldAllocatedPages
  BY DEF PoolInv
<1> QED
  BY <1>1, PoolInvariant, PTL

-----------------------------------------------------------------------------
\* A clean frame equals its block, as long as no read of a block fails.

BlockOf(f, d) == d[f.tableId].block[f.pageNum]

Coherent(fr, d, U) ==
    \A i \in Frames \ U : CleanMatches(fr[i], d)

LEMMA CoherentParts == CleanFramesMatchDisk <=> Coherent(frames, disk, unmarked)
  BY DEF CleanFramesMatchDisk, Coherent

LEMMA CoherentPartsNext ==
  CleanFramesMatchDisk' <=> Coherent(frames', disk', unmarked')
  BY DEF CleanFramesMatchDisk, Coherent, CleanMatches

\* A step after which every frame that is clean was clean and not being
\* changed, and neither it nor its block has another content.
LEMMA QuietCoherent ==
  ASSUME NEW fr, NEW d, NEW U, NEW fr2, NEW d2, NEW U2, Coherent(fr, d, U),
         \A j \in Frames \ U2 :
            fr2[j].pageNum # NoPage /\ ~fr2[j].isDirty =>
              /\ j \notin U /\ ~fr[j].isDirty
              /\ SamePage(fr2[j], fr[j]) /\ fr2[j].data = fr[j].data
              /\ BlockOf(fr2[j], d2) = BlockOf(fr[j], d)
  PROVE  Coherent(fr2, d2, U2)
  BY DEF Coherent, CleanMatches, BlockOf, SamePage

\* Writing one frame back changes the block of that frame only.
LEMMA WriteBackBlocks ==
  ASSUME PoolInv, NEW i \in Frames, frames[i].pageNum # NoPage, NEW g,
         g.block = [disk[frames[i].tableId].block EXCEPT
                      ![frames[i].pageNum] = frames[i].data]
  PROVE  LET d2 == [disk EXCEPT ![frames[i].tableId] = g]
         IN  /\ BlockOf(frames[i], d2) = frames[i].data
             /\ \A j \in Frames : j # i /\ frames[j].pageNum # NoPage =>
                    BlockOf(frames[j], d2) = BlockOf(frames[j], disk)
<1> DEFINE d2 == [disk EXCEPT ![frames[i].tableId] = g]
<1>1. frames \in [Frames -> BufferFrame] /\ disk \in [Tables -> File]
  BY DEF PoolInv, TypeOK
<1>2. ASSUME NEW j \in Frames, frames[j].pageNum # NoPage
      PROVE  /\ frames[j].tableId \in Tables /\ frames[j].pageNum \in Blocks
             /\ disk[frames[j].tableId].block \in [Blocks -> Contents]
  BY <1>1, <1>2 DEF BufferFrame, File
<1>3. BlockOf(frames[i], d2) = frames[i].data
  BY <1>1, <1>2 DEF BlockOf
<1>4. ASSUME NEW j \in Frames, j # i, frames[j].pageNum # NoPage
      PROVE  BlockOf(frames[j], d2) = BlockOf(frames[j], disk)
  <2>1. frames[j].tableId # frames[i].tableId \/ frames[j].pageNum # frames[i].pageNum
    BY <1>4 DEF PoolInv, OneFramePerPage, HoldsPage
  <2>2. CASE frames[j].tableId # frames[i].tableId
    BY <1>1, <1>2, <1>4, <2>2 DEF BlockOf
  <2>3. CASE frames[j].tableId = frames[i].tableId /\ frames[j].pageNum # frames[i].pageNum
    BY <1>1, <1>2, <1>4, <2>3 DEF BlockOf
  <2> QED
    BY <2>1, <2>2, <2>3
<1> QED
  BY <1>3, <1>4

LEMMA EvictBlocks ==
  ASSUME PoolInv, NEW i \in Frames, NEW outcome
  PROVE  LET e  == Evict(i, outcome)
             d2 == [disk EXCEPT ![frames[i].tableId] = e.file]
         IN  /\ e.rc = "OK" /\ frames[i].isDirty => BlockOf(frames[i], d2) = frames[i].data
             /\ \A j \in Frames :
                    /\ frames[j].pageNum # NoPage
                    /\ j # i \/ ~frames[i].isDirty \/ e.rc # "OK"
                    => BlockOf(frames[j], d2) = BlockOf(frames[j], disk)
<1> DEFINE e  == Evict(i, outcome)
           f  == disk[frames[i].tableId]
           d2 == [disk EXCEPT ![frames[i].tableId] = e.file]
<1>1. /\ e.rc # "OK" => e.file.block = f.block
      /\ e.rc = "OK" /\ frames[i].isDirty =>
            e.file.block = [f.block EXCEPT ![frames[i].pageNum] = frames[i].data]
      /\ ~frames[i].isDirty => e.file.block = f.block
  BY EvictOK, PoolInvParts
<1>2. /\ disk \in [Tables -> File]
      /\ \A j \in Frames : frames[j].tableId \in Tables
      /\ frames[i].isDirty => frames[i].pageNum # NoPage
  BY DEF PoolInv, TypeOK, BufferFrame, FramesHoldAllocatedPages, FrameOK
<1> HIDE DEF e
<1>3. CASE e.rc = "OK" /\ frames[i].isDirty
  <2>1. /\ BlockOf(frames[i], d2) = frames[i].data
        /\ \A j \in Frames : j # i /\ frames[j].pageNum # NoPage =>
               BlockOf(frames[j], d2) = BlockOf(frames[j], disk)
    <3>1. /\ e.file.block = [disk[frames[i].tableId].block EXCEPT
                               ![frames[i].pageNum] = frames[i].data]
          /\ frames[i].pageNum # NoPage
      BY <1>1, <1>2, <1>3
    <3> QED
      BY <3>1, WriteBackBlocks
  <2> HIDE DEF d2
  <2> QED
    BY <1>3, <2>1 DEF d2, e
<1>4. CASE ~(e.rc = "OK" /\ frames[i].isDirty)
  <2>1. e.file.block = f.block
    BY <1>1, <1>4
  <2>2. ASSUME NEW j \in Frames
        PROVE  BlockOf(frames[j], d2) = BlockOf(frames[j], disk)
    <3>1. frames[i].tableId \in Tables /\ frames[j].tableId \in Tables
      BY <1>2
    <3> QED
      BY <1>2, <2>1, <3>1 DEF BlockOf
  <2> HIDE DEF d2
  <2> QED
    BY <1>4, <2>2 DEF d2, e
<1> QED
  BY <1>3, <1>4

\* The frames after a sweep and a write-back of frame i are coherent with the
\* files after it.
LEMMA WriteBackCoherent ==
  ASSUME PoolInv, CleanFramesMatchDisk, NEW i \in Frames, NEW outcome,
         NEW fr \in [Frames -> BufferFrame],
         \A j \in Frames : SameButRef(fr[j], frames[j])
  PROVE  LET e  == Evict(i, outcome)
             d2 == [disk EXCEPT ![frames[i].tableId] = e.file]
         IN  /\ Coherent(fr, d2, unmarked)
             /\ e.rc = "OK" => Coherent([fr EXCEPT ![i].isDirty = FALSE], d2, unmarked)
<1> DEFINE e  == Evict(i, outcome)
           d2 == [disk EXCEPT ![frames[i].tableId] = e.file]
           fr2 == [fr EXCEPT ![i].isDirty = FALSE]
<1>1. Coherent(frames, disk, unmarked)
  BY CoherentParts
<1>2. ~frames[i].isDirty => e.rc = "OK"
  BY EvictOK, PoolInvParts
<1>3. ASSUME NEW j \in Frames, frames[j].pageNum # NoPage, ~frames[j].isDirty
      PROVE  BlockOf(frames[j], d2) = BlockOf(frames[j], disk)
  <2>1. j # i \/ ~frames[i].isDirty
    BY <1>3
  <2> QED
    BY <1>3, <2>1, EvictBlocks
<1>4. e.rc = "OK" /\ frames[i].isDirty => BlockOf(frames[i], d2) = frames[i].data
  BY EvictBlocks
<1> HIDE DEF e, d2
<1>5. Coherent(fr, d2, unmarked)
  <2>1. ASSUME NEW j \in Frames \ unmarked, fr[j].pageNum # NoPage, ~fr[j].isDirty
        PROVE  CleanMatches(fr[j], d2)
    <3>1. SameButRef(fr[j], frames[j])
      OBVIOUS
    <3>2. BlockOf(frames[j], d2) = BlockOf(frames[j], disk)
      BY <1>3, <2>1, <3>1 DEF SameButRef, SamePage
    <3> QED
      BY <1>1, <2>1, <3>1, <3>2 DEF Coherent, CleanMatches, BlockOf, SameButRef, SamePage
  <2> QED
    BY <2>1 DEF Coherent, CleanMatches
<1>6. ASSUME e.rc = "OK"
      PROVE  Coherent(fr2, d2, unmarked)
  <2>1. ASSUME NEW j \in Frames
        PROVE  /\ SamePage(fr2[j], fr[j]) /\ fr2[j].data = fr[j].data
               /\ j # i => fr2[j].isDirty = fr[j].isDirty
    BY WrittenFrames, ZenonT(40)
  <2> HIDE DEF fr2
  <2>2. ASSUME NEW j \in Frames \ unmarked, fr2[j].pageNum # NoPage, ~fr2[j].isDirty
        PROVE  fr2[j].data = BlockOf(fr2[j], d2)
    <3>1. /\ SamePage(fr2[j], fr[j]) /\ fr2[j].data = fr[j].data
          /\ SamePage(fr[j], frames[j]) /\ fr[j].data = frames[j].data
      BY <2>1 DEF SameButRef
    <3>2. CASE j = i /\ frames[i].isDirty
      BY <1>4, <1>6, <3>1, <3>2 DEF BlockOf, SamePage
    <3>3. CASE ~(j = i /\ frames[i].isDirty)
      <4>1. ~fr[j].isDirty
        <5>1. CASE j = i
          BY <3>3, <5>1 DEF SameButRef
        <5>2. CASE j # i
          BY <2>1, <2>2, <5>2
        <5> QED
          BY <5>1, <5>2
      <4>2. CleanMatches(fr[j], d2)
        BY <1>5 DEF Coherent
      <4> QED
        BY <2>2, <3>1, <4>1, <4>2 DEF CleanMatches, BlockOf, SamePage
    <3> QED
      BY <3>2, <3>3
  <2> QED
    BY <2>2 DEF Coherent, CleanMatches, BlockOf
<1> QED
  BY <1>5, <1>6 DEF e, d2

\* A step that leaves the blocks alone, and of the frames the pages, the
\* contents and the dirty marks.
LEMMA SameContents ==
  ASSUME CleanFramesMatchDisk, unmarked \subseteq unmarked',
         \A j \in Frames : /\ SamePage(frames'[j], frames[j])
                           /\ frames'[j].data = frames[j].data
                           /\ frames'[j].isDirty = frames[j].isDirty
                           /\ frames[j].pageNum # NoPage =>
                                BlockOf(frames[j], disk') = BlockOf(frames[j], disk)
  PROVE  CleanFramesMatchDisk'
<1>1. Coherent(frames, disk, unmarked)
  BY CoherentParts
<1>2. ASSUME NEW j \in Frames \ unmarked', frames'[j].pageNum # NoPage, ~frames'[j].isDirty
      PROVE  frames'[j].data = BlockOf(frames'[j], disk')
  <2>1. /\ SamePage(frames'[j], frames[j]) /\ frames'[j].data = frames[j].data
        /\ BlockOf(frames[j], disk') = BlockOf(frames[j], disk)
        /\ CleanMatches(frames[j], disk)
    BY <1>1, <1>2 DEF Coherent, SamePage
  <2>2. ~frames[j].isDirty /\ frames[j].pageNum # NoPage
    BY <1>2 DEF SamePage
  <2> QED
    BY <2>1, <2>2 DEF CleanMatches, BlockOf, SamePage
<1>3. Coherent(frames', disk', unmarked')
  BY <1>2 DEF Coherent, CleanMatches, BlockOf
<1> QED
  BY <1>3, CoherentPartsNext

LEMMA DiskStepCoherent ==
  ASSUME PoolInv, CleanFramesMatchDisk, NEW t \in Tables, NEW g, g.block = disk[t].block,
         disk' = [disk EXCEPT ![t] = g], UNCHANGED <<frames, unmarked>>
  PROVE  CleanFramesMatchDisk'
<1>1. disk \in [Tables -> File] /\ \A j \in Frames : frames[j].tableId \in Tables
  BY DEF PoolInv, TypeOK, BufferFrame
<1>2. \A j \in Frames : BlockOf(frames[j], disk') = BlockOf(frames[j], disk)
  BY <1>1 DEF BlockOf
<1>3. \A j \in Frames : SamePage(frames[j], frames[j])
  BY DEF SamePage
<1> QED
  BY <1>2, <1>3, SameContents

LEMMA RestartCoherent ==
  ASSUME NEW files, Restart(files)
  PROVE  CleanFramesMatchDisk'
<1>1. \A i \in Frames : frames'[i].pageNum = NoPage
  BY DEF Restart, EmptyFrame
<1> QED
  BY <1>1, CoherentPartsNext DEF Coherent, CleanMatches

LEMMA GetPageHitCoherent ==
  ASSUME PoolInv, CleanFramesMatchDisk, NEW t \in Tables, NEW b \in Blocks, GetPageHit(t, b)
  PROVE  CleanFramesMatchDisk'
<1>1. PICK i \in Frames :
        frames' = [frames EXCEPT ![i].pinCount = @ + 1, ![i].refBit = TRUE]
  BY DEF GetPageHit
<1>2. \A j \in Frames : /\ SamePage(frames'[j], frames[j])
                        /\ frames'[j].data = frames[j].data
                        /\ frames'[j].isDirty = frames[j].isDirty
  BY <1>1 DEF PoolInv, TypeOK, BufferFrame, SamePage
<1> QED
  BY <1>2, SameContents DEF GetPageHit

LEMMA GetPageRefusedCoherent ==
  ASSUME PoolInv, CleanFramesMatchDisk, NEW t, NEW b, GetPageRefused(t, b)
  PROVE  CleanFramesMatchDisk'
<1>1. \A j \in Frames : SameButRef(frames'[j], frames[j])
  BY SweptOK DEF PoolInv, TypeOK, GetPageRefused
<1> QED
  BY <1>1, SameContents DEF SameButRef, GetPageRefused

LEMMA ReleasePageCoherent ==
  ASSUME PoolInv, CleanFramesMatchDisk, NEW t, NEW b, ReleasePage(t, b)
  PROVE  CleanFramesMatchDisk'
<1>1. PICK i \in Frames :
        frames' = [frames EXCEPT ![i].pinCount = IF @ > 0 THEN @ - 1 ELSE @]
  BY DEF ReleasePage
<1>2. \A j \in Frames : /\ SamePage(frames'[j], frames[j])
                        /\ frames'[j].data = frames[j].data
                        /\ frames'[j].isDirty = frames[j].isDirty
  BY <1>1 DEF PoolInv, TypeOK, BufferFrame, SamePage
<1> QED
  BY <1>2, SameContents DEF ReleasePage

LEMMA ModifyCoherent ==
  ASSUME PoolInv, CleanFramesMatchDisk, NEW i \in Frames, NEW c, Modify(i, c)
  PROVE  CleanFramesMatchDisk'
<1>1. ASSUME NEW j \in Frames \ unmarked'
      PROVE  j \in Frames \ unmarked /\ frames'[j] = frames[j]
  BY DEF Modify, PoolInv, TypeOK
<1>2. Coherent(frames', disk', unmarked')
  BY <1>1, CoherentParts DEF Coherent, Modify
<1> QED
  BY <1>2, CoherentPartsNext

LEMMA MarkDirtyCoherent ==
  ASSUME PoolInv, CleanFramesMatchDisk, NEW t, NEW b, MarkDirty(t, b)
  PROVE  CleanFramesMatchDisk'
<1>1. PICK i \in Frames : /\ frames' = [frames EXCEPT ![i].isDirty = TRUE]
                          /\ unmarked' = unmarked \ {i}
  BY DEF MarkDirty
<1>2. frames'[i].isDirty = TRUE /\ \A j \in Frames : j # i => frames'[j] = frames[j]
  BY <1>1 DEF PoolInv, TypeOK, BufferFrame
<1>3. ASSUME NEW j \in Frames \ unmarked'
      PROVE  CleanMatches(frames'[j], disk)
  <2>1. CASE j = i
    BY <1>2, <2>1 DEF CleanMatches
  <2>2. CASE j # i
    BY <1>1, <1>2, <2>2, CoherentParts DEF Coherent
  <2> QED
    BY <2>1, <2>2
<1>4. Coherent(frames', disk', unmarked')
  BY <1>3 DEF Coherent, MarkDirty
<1> QED
  BY <1>4, CoherentPartsNext

LEMMA FlushPageCoherent ==
  ASSUME PoolInv, CleanFramesMatchDisk, NEW t, NEW b, NEW outcome, FlushPage(t, b, outcome)
  PROVE  CleanFramesMatchDisk'
<1>1. PICK i \in Frames :
        /\ disk' = [disk EXCEPT ![frames[i].tableId] = Evict(i, outcome).file]
        /\ frames' = IF Evict(i, outcome).rc = "OK"
                      THEN [frames EXCEPT ![i].isDirty = FALSE] ELSE frames
  BY DEF FlushPage
<1>2. frames \in [Frames -> BufferFrame] /\ \A j \in Frames : SameButRef(frames[j], frames[j])
  BY DEF PoolInv, TypeOK, SameButRef, SamePage
<1>3. Coherent(frames', disk', unmarked)
  BY <1>1, <1>2, WriteBackCoherent
<1> QED
  BY <1>3, CoherentPartsNext DEF FlushPage

LEMMA GetFreeFrameCoherent ==
  ASSUME PoolInv, CleanFramesMatchDisk, NEW s, NEW outcome, GetFreeFrame(s, outcome)
  PROVE  CleanFramesMatchDisk'
<1>1. CASE frames' = Swept(Evictable(s)) /\ UNCHANGED <<clockHand, disk>>
  <2>1. \A j \in Frames : SameButRef(frames'[j], frames[j])
    BY <1>1, SweptOK DEF PoolInv, TypeOK
  <2> QED
    BY <1>1, <2>1, SameContents DEF SameButRef, GetFreeFrame
<1>2. CASE \E i \in Frames :
             /\ disk' = [disk EXCEPT ![frames[i].tableId] = Evict(i, outcome).file]
             /\ frames' = IF Evict(i, outcome).rc = "OK"
                          THEN [SweptFor(s, i) EXCEPT ![i].isDirty = FALSE]
                          ELSE SweptFor(s, i)
  <2>1. PICK i \in Frames :
             /\ disk' = [disk EXCEPT ![frames[i].tableId] = Evict(i, outcome).file]
             /\ frames' = IF Evict(i, outcome).rc = "OK"
                          THEN [SweptFor(s, i) EXCEPT ![i].isDirty = FALSE]
                          ELSE SweptFor(s, i)
    BY <1>2
  <2>2. /\ SweptFor(s, i) \in [Frames -> BufferFrame]
        /\ \A j \in Frames : SameButRef(SweptFor(s, i)[j], frames[j])
    BY SweptForOK DEF PoolInv, TypeOK
  <2>3. Coherent(frames', disk', unmarked)
    BY <2>1, <2>2, WriteBackCoherent
  <2> QED
    BY <2>3, CoherentPartsNext DEF GetFreeFrame
<1> QED
  BY <1>1, <1>2 DEF GetFreeFrame

LEMMA FlushFrameCoherent ==
  ASSUME PoolInv, CleanFramesMatchDisk, NEW outcome, FlushFrame(outcome)
  PROVE  CleanFramesMatchDisk'
<1>1. PICK i \in ToFlush :
        LET w == WriteBlock(disk[FlushTarget(i)], frames[i].pageNum, frames[i].data, outcome)
        IN  /\ disk' = [disk EXCEPT ![FlushTarget(i)] = w.file]
            /\ \/ w.rc = "OK" /\ frames' = [frames EXCEPT ![i].isDirty = FALSE]
               \/ UNCHANGED frames
  BY DEF FlushFrame
<1>2. /\ i \in Frames /\ frames[i].isDirty /\ FlushTarget(i) = frames[i].tableId
      /\ Evict(i, outcome) = WriteBlock(disk[FlushTarget(i)], frames[i].pageNum,
                                        frames[i].data, outcome)
  BY FlushTargetOK DEF FlushFrame, ToFlush, Evict
<1>3. frames \in [Frames -> BufferFrame] /\ \A j \in Frames : SameButRef(frames[j], frames[j])
  BY DEF PoolInv, TypeOK, SameButRef, SamePage
<1>4. /\ disk' = [disk EXCEPT ![frames[i].tableId] = Evict(i, outcome).file]
      /\ \/ /\ Evict(i, outcome).rc = "OK"
            /\ frames' = [frames EXCEPT ![i].isDirty = FALSE]
         \/ UNCHANGED frames
  BY <1>1, <1>2
<1>5. Coherent(frames', disk', unmarked)
  BY <1>2, <1>3, <1>4, WriteBackCoherent
<1> QED
  BY <1>5, CoherentPartsNext DEF FlushFrame

LEMMA GetPageMissCoherent ==
  ASSUME PoolInv, CleanFramesMatchDisk, NEW t \in Tables, NEW b \in Blocks, NEW w, NEW r,
         r # "read", GetPageMiss(t, b, w, r)
  PROVE  CleanFramesMatchDisk'
<1> DEFINE fr(i)    == SweptFor(SpaceOf(t), i)
           e(i)     == Evict(i, w)
           disk1(i) == [disk EXCEPT ![frames[i].tableId] = e(i).file]
           read(i)  == ReadBlock(disk1(i)[t], b, frames[i].data, r)
           disk2(i) == [disk1(i) EXCEPT ![t] = read(i).file]
           loaded(i) == LoadedFrame(frames[i], t, b, read(i))
<1>1. PICK i \in Frames :
        /\ CanUse(SpaceOf(t), i)
        /\ \/ frames' = fr(i) /\ disk' = disk1(i)
           \/ /\ e(i).rc = "OK" /\ disk' = disk2(i)
              /\ frames' = [fr(i) EXCEPT ![i] = loaded(i)]
  BY GetPageMissSteps
<1>2. /\ frames \in [Frames -> BufferFrame] /\ frames[i] \in BufferFrame
      /\ frames[i].data \in Contents /\ frames[i].pinCount = 0
  BY <1>1, CanUseOK DEF PoolInv, TypeOK, BufferFrame
<1>3. unmarked' = unmarked /\ i \notin unmarked
  BY <1>2 DEF PoolInv, GetPageMiss
<1>4. /\ fr(i) \in [Frames -> BufferFrame]
      /\ \A j \in Frames : SameButRef(fr(i)[j], frames[j])
  BY <1>2, SweptForOK
<1>5. /\ Coherent(fr(i), disk1(i), unmarked)
      /\ e(i).rc = "OK" => Coherent([fr(i) EXCEPT ![i].isDirty = FALSE], disk1(i), unmarked)
  BY <1>4, WriteBackCoherent
<1>6. WellFormed(disk1(i)) /\ disk1(i) \in [Tables -> File]
  <2>1. FileOK(e(i).file) /\ WellFormed(disk) /\ frames[i].tableId \in Tables
    BY <1>2, EvictOK, PoolInvParts DEF BufferFrame
  <2> HIDE DEF e
  <2> QED
    BY <2>1 DEF WellFormed, FileOK
<1> HIDE DEF disk1
<1>7. /\ read(i).file.block = disk1(i)[t].block
      /\ read(i).rc = "OK" => read(i).data = disk1(i)[t].block[b]
      /\ read(i).rc # "OK" => read(i).data = frames[i].data
      /\ read(i).data \in Contents
  BY <1>2, <1>6, ReadBlockOK DEF WellFormed
<1>8. /\ loaded(i) \in BufferFrame
      /\ loaded(i).data = read(i).data
      /\ read(i).rc = "OK" => HoldsPage(loaded(i), t, b)
      /\ read(i).rc # "OK" => SamePage(loaded(i), frames[i])
  BY <1>2, <1>7, LoadedFrameOK
<1> HIDE DEF read, fr, e, loaded
<1>9. \A f \in BufferFrame : BlockOf(f, disk2(i)) = BlockOf(f, disk1(i))
  BY <1>6, <1>7 DEF BlockOf, BufferFrame
<1>10. ASSUME e(i).rc = "OK"
       PROVE  Coherent([fr(i) EXCEPT ![i] = loaded(i)], disk2(i), unmarked)
  <2> DEFINE fr1 == [fr(i) EXCEPT ![i].isDirty = FALSE]
             fr2 == [fr(i) EXCEPT ![i] = loaded(i)]
  <2>1. /\ fr2 \in [Frames -> BufferFrame] /\ fr2[i] = loaded(i)
        /\ \A j \in Frames : j # i => fr2[j] = fr(i)[j] /\ fr1[j] = fr(i)[j]
    BY <1>4, <1>8
  <2>2. SamePage(fr1[i], frames[i]) /\ fr1[i].data = frames[i].data /\ ~fr1[i].isDirty
    BY <1>4, WrittenFrames DEF SameButRef, SamePage
  <2>3. Coherent(fr1, disk1(i), unmarked)
    BY <1>5, <1>10
  <2> HIDE DEF fr1, fr2, disk2
  <2>4. ASSUME NEW j \in Frames \ unmarked, fr2[j].pageNum # NoPage, ~fr2[j].isDirty
        PROVE  fr2[j].data = BlockOf(fr2[j], disk1(i))
    <3>1. CASE j = i /\ read(i).rc = "OK"
      BY <1>7, <1>8, <2>1, <3>1 DEF BlockOf, HoldsPage
    <3>2. CASE j = i /\ read(i).rc # "OK"
      BY <1>3, <1>7, <1>8, <2>1, <2>2, <2>3, <2>4, <3>2
      DEF Coherent, CleanMatches, BlockOf, SamePage
    <3>3. CASE j # i
      BY <2>1, <2>3, <2>4, <3>3 DEF Coherent, CleanMatches, BlockOf
    <3> QED
      BY <3>1, <3>2, <3>3
  <2>5. \A j \in Frames : BlockOf(fr2[j], disk2(i)) = BlockOf(fr2[j], disk1(i))
    BY <1>9, <2>1
  <2> QED
    BY <2>4, <2>5 DEF Coherent, CleanMatches, BlockOf, fr2
<1> HIDE DEF disk2
<1>11. Coherent(frames', disk', unmarked)
  BY <1>1, <1>5, <1>10
<1> QED
  BY <1>3, <1>11, CoherentPartsNext

LEMMA NextCoherent ==
  ASSUME "read" \notin Faults, PoolInv, CleanFramesMatchDisk, [Next]_vars
  PROVE  CleanFramesMatchDisk'
<1>1. CASE UNCHANGED vars
  BY <1>1, CoherentParts, CoherentPartsNext DEF vars
<1>2. ASSUME NEW t \in Tables, NEW o, CreateTable(t, o) PROVE CleanFramesMatchDisk'
  <2>1. CreateFile(disk[t], t = LogTable, o).file.block = disk[t].block
    BY CreateFileOK DEF PoolInv
  <2> QED
    BY <1>2, <2>1, DiskStepCoherent DEF CreateTable
<1>3. ASSUME NEW t \in Tables, NEW o, Alloc(t, o) PROVE CleanFramesMatchDisk'
  <2>1. AllocBlock(disk[t], o).file.block = disk[t].block
    BY AllocBlockOK DEF PoolInv
  <2> QED
    BY <1>3, <2>1, DiskStepCoherent DEF Alloc
<1>4. ASSUME NEW t \in Tables, NEW b \in Blocks, NEW o, ReadDirectly(t, b, o)
      PROVE  CleanFramesMatchDisk'
  <2>1. ReadBlock(disk[t], b, Zero, o).file.block = disk[t].block
    BY ReadBlockOK, DiskAssumption DEF PoolInv
  <2> QED
    BY <1>4, <2>1, DiskStepCoherent DEF ReadDirectly
<1>5. ASSUME NEW t \in Tables, NEW b \in Blocks, GetPageHit(t, b) PROVE CleanFramesMatchDisk'
  BY <1>5, GetPageHitCoherent
<1>6. ASSUME NEW t, NEW b, GetPageRefused(t, b) PROVE CleanFramesMatchDisk'
  BY <1>6, GetPageRefusedCoherent
<1>7. ASSUME NEW t \in Tables, NEW b \in Blocks, NEW w, NEW r \in ReadOutcomes,
             GetPageMiss(t, b, w, r)
      PROVE  CleanFramesMatchDisk'
  <2>1. r # "read"
    BY DEF ReadOutcomes, Outcomes
  <2> QED
    BY <1>7, <2>1, GetPageMissCoherent
<1>8. ASSUME NEW t, NEW b, MarkDirty(t, b) PROVE CleanFramesMatchDisk'
  BY <1>8, MarkDirtyCoherent
<1>9. ASSUME NEW t, NEW b, ReleasePage(t, b) PROVE CleanFramesMatchDisk'
  BY <1>9, ReleasePageCoherent
<1>10. ASSUME NEW t, NEW b, NEW o, FlushPage(t, b, o) PROVE CleanFramesMatchDisk'
  BY <1>10, FlushPageCoherent
<1>11. ASSUME NEW i \in Frames, NEW c, Modify(i, c) PROVE CleanFramesMatchDisk'
  BY <1>11, ModifyCoherent
<1>12. ASSUME NEW s, NEW o, GetFreeFrame(s, o) PROVE CleanFramesMatchDisk'
  BY <1>12, GetFreeFrameCoherent
<1>13. ASSUME NEW o, FlushFrame(o) PROVE CleanFramesMatchDisk'
  BY <1>13, FlushFrameCoherent
<1>14. ASSUME FlushAllPages \/ FlushSpaceDone \/ \E s \in Spaces : FlushSpace(s)
       PROVE  CleanFramesMatchDisk'
  BY <1>14, CoherentParts, CoherentPartsNext DEF FlushAllPages, FlushSpaceDone, FlushSpace
<1>15. ASSUME Crash \/ Exit PROVE CleanFramesMatchDisk'
  BY <1>15, RestartCoherent DEF Crash, Exit
<1> QED
  BY <1>1, <1>2, <1>3, <1>4, <1>5, <1>6, <1>7, <1>8, <1>9, <1>10, <1>11, <1>12,
     <1>13, <1>14, <1>15 DEF Next

\* When no read of a block fails, a clean frame that no caller is changing holds
\* what its block holds, whatever writes fail and wherever the process dies:
\* getPage may drop a clean victim (mem_manager.cpp:75-81).
THEOREM Coherence == "read" \notin Faults => (Spec => []CleanFramesMatchDisk)
<1> SUFFICES ASSUME "read" \notin Faults PROVE Spec => []CleanFramesMatchDisk
  OBVIOUS
<1>1. Init => IInv
  <2>1. ASSUME Init PROVE CleanFramesMatchDisk
    BY <2>1 DEF Init, EmptyFrame, CleanFramesMatchDisk, CleanMatches
  <2> QED
    BY <2>1, InitPoolInv DEF IInv
<1>2. IInv /\ [Next]_vars => IInv'
  BY NextPoolInv, NextCoherent DEF IInv
<1>3. IInv => CleanFramesMatchDisk
  BY DEF IInv
<1> QED
  BY <1>1, <1>2, <1>3, PTL DEF Spec

-----------------------------------------------------------------------------
\* Callers and their pages.

HeldStay ==
    \A i \in Frames :
        frames[i].pinCount > 0 /\ frames'[i].pinCount > 0 =>
            /\ frames'[i].tableId = frames[i].tableId
            /\ frames'[i].pageNum = frames[i].pageNum
            /\ frames'[i].data # frames[i].data => i \in unmarked'

LEMMA SameStay ==
  ASSUME \A j \in Frames : SamePage(frames'[j], frames[j]) /\ frames'[j].data = frames[j].data
  PROVE  HeldStay
  BY DEF HeldStay, SamePage

\* The frames after a write-back.
LEMMA WrittenPages ==
  ASSUME NEW i \in Frames, NEW fr \in [Frames -> BufferFrame],
         \A j \in Frames : SameButRef(fr[j], frames[j]),
         frames' = [fr EXCEPT ![i].isDirty = FALSE] \/ frames' = fr
  PROVE  \A j \in Frames : /\ SamePage(frames'[j], frames[j])
                           /\ frames'[j].data = frames[j].data
                           /\ frames'[j].pinCount = frames[j].pinCount
<1>1. CASE frames' = [fr EXCEPT ![i].isDirty = FALSE]
  <2> DEFINE fr2 == [fr EXCEPT ![i].isDirty = FALSE]
  <2>1. \A j \in Frames : /\ SamePage(fr2[j], fr[j])
                          /\ fr2[j].data = fr[j].data
                          /\ fr2[j].pinCount = fr[j].pinCount
    <3>1. SUFFICES ASSUME NEW j \in Frames
                   PROVE  /\ SamePage(fr2[j], fr[j])
                          /\ fr2[j].data = fr[j].data
                          /\ fr2[j].pinCount = fr[j].pinCount
      OBVIOUS
    <3>2. fr[j] \in BufferFrame /\ fr[i] \in BufferFrame
      OBVIOUS
    <3>3. fr2[j] = IF j = i THEN [fr[i] EXCEPT !.isDirty = FALSE] ELSE fr[j]
      OBVIOUS
    <3> HIDE DEF fr2
    <3> QED
      BY <3>2, <3>3 DEF SamePage, BufferFrame
  <2> HIDE DEF fr2
  <2>2. frames' = fr2
    BY <1>1 DEF fr2
  <2> QED
    BY <2>1, <2>2 DEF SameButRef, SamePage
<1>2. CASE frames' = fr
  BY <1>2 DEF SameButRef
<1> QED
  BY <1>1, <1>2

LEMMA WrittenStay ==
  ASSUME NEW i \in Frames, NEW fr \in [Frames -> BufferFrame],
         \A j \in Frames : SameButRef(fr[j], frames[j]),
         frames' = [fr EXCEPT ![i].isDirty = FALSE] \/ frames' = fr
  PROVE  HeldStay
  BY WrittenPages, SameStay

LEMMA GetPageMissStay ==
  ASSUME PoolInv, NEW t \in Tables, NEW b \in Blocks, NEW w, NEW r, GetPageMiss(t, b, w, r)
  PROVE  HeldStay
<1>1. PICK i \in Frames : \E loaded :
        /\ CanUse(SpaceOf(t), i)
        /\ \/ frames' = SweptFor(SpaceOf(t), i)
           \/ frames' = [SweptFor(SpaceOf(t), i) EXCEPT ![i] = loaded]
  BY GetPageMissSteps
<1>2. frames[i].pinCount = 0
  BY <1>1, CanUseOK
<1>3. /\ SweptFor(SpaceOf(t), i) \in [Frames -> BufferFrame]
      /\ \A j \in Frames : SameButRef(SweptFor(SpaceOf(t), i)[j], frames[j])
  BY SweptForOK DEF PoolInv, TypeOK
<1>4. \A j \in Frames : j # i => SameButRef(frames'[j], frames[j])
  BY <1>1, <1>3
<1> QED
  BY <1>2, <1>4 DEF HeldStay, SameButRef, SamePage

LEMMA GetFreeFrameStay ==
  ASSUME PoolInv, NEW s, NEW outcome, GetFreeFrame(s, outcome)
  PROVE  HeldStay
<1>1. frames \in [Frames -> BufferFrame]
  BY DEF PoolInv, TypeOK
<1>2. CASE frames' = Swept(Evictable(s))
  BY <1>1, <1>2, SweptOK, SameStay DEF SameButRef
<1>3. CASE \E i \in Frames : \/ frames' = [SweptFor(s, i) EXCEPT ![i].isDirty = FALSE]
                           \/ frames' = SweptFor(s, i)
  <2>1. PICK i \in Frames : \/ frames' = [SweptFor(s, i) EXCEPT ![i].isDirty = FALSE]
                           \/ frames' = SweptFor(s, i)
    BY <1>3
  <2>2. /\ SweptFor(s, i) \in [Frames -> BufferFrame]
        /\ \A j \in Frames : SameButRef(SweptFor(s, i)[j], frames[j])
    BY <1>1, SweptForOK
  <2> QED
    BY <2>1, <2>2, WrittenStay
<1> QED
  BY <1>2, <1>3 DEF GetFreeFrame

LEMMA NextStay == PoolInv /\ [Next]_vars => HeldStay
<1> SUFFICES ASSUME PoolInv, [Next]_vars PROVE HeldStay
  OBVIOUS
<1> USE DEF PoolInv, TypeOK
<1>1. frames \in [Frames -> BufferFrame]
  OBVIOUS
<1>0. \A j \in Frames : SameButRef(frames[j], frames[j])
  BY DEF SameButRef, SamePage
<1>2. CASE UNCHANGED frames
  BY <1>2 DEF HeldStay
<1>3. ASSUME NEW t, NEW b, GetPageHit(t, b) PROVE HeldStay
  <2>1. PICK i \in Frames :
          frames' = [frames EXCEPT ![i].pinCount = @ + 1, ![i].refBit = TRUE]
    BY <1>3 DEF GetPageHit
  <2> QED
    BY <1>1, <2>1, SameStay DEF SamePage, BufferFrame
<1>4. ASSUME NEW t, NEW b, GetPageRefused(t, b) PROVE HeldStay
  BY <1>1, <1>4, SweptOK, SameStay DEF GetPageRefused, SameButRef
<1>5. ASSUME NEW t, NEW b, MarkDirty(t, b) PROVE HeldStay
  <2>1. PICK i \in Frames : frames' = [frames EXCEPT ![i].isDirty = TRUE]
    BY <1>5 DEF MarkDirty
  <2> QED
    BY <1>1, <2>1, SameStay DEF SamePage, BufferFrame
<1>6. ASSUME NEW t, NEW b, ReleasePage(t, b) PROVE HeldStay
  <2>1. PICK i \in Frames : \E n : frames' = [frames EXCEPT ![i].pinCount = n]
    BY <1>6 DEF ReleasePage
  <2> QED
    BY <1>1, <2>1, SameStay DEF SamePage, BufferFrame
<1>7. ASSUME NEW t, NEW b, NEW o, FlushPage(t, b, o) PROVE HeldStay
  <2>1. PICK i \in Frames : \/ frames' = [frames EXCEPT ![i].isDirty = FALSE]
                           \/ frames' = frames
    BY <1>7 DEF FlushPage
  <2> QED
    BY <1>1, <1>0, <2>1, WrittenStay
<1>8. ASSUME NEW o, FlushFrame(o) PROVE HeldStay
  <2>1. PICK i \in Frames : \/ frames' = [frames EXCEPT ![i].isDirty = FALSE]
                           \/ frames' = frames
    BY <1>8 DEF FlushFrame, ToFlush
  <2> QED
    BY <1>1, <1>0, <2>1, WrittenStay
<1>9. ASSUME NEW i \in Frames, NEW c, Modify(i, c) PROVE HeldStay
  BY <1>1, <1>9 DEF HeldStay, Modify, BufferFrame
<1>10. ASSUME NEW files, Restart(files) PROVE HeldStay
  BY <1>10 DEF HeldStay, Restart, EmptyFrame
<1>11. CASE Crash \/ Exit
  BY <1>10, <1>11 DEF Crash, Exit
<1>12. ASSUME NEW t \in Tables, NEW b \in Blocks, NEW w, NEW r, GetPageMiss(t, b, w, r)
       PROVE  HeldStay
  BY <1>12, GetPageMissStay
<1>13. ASSUME NEW s, NEW o, GetFreeFrame(s, o) PROVE HeldStay
  BY <1>13, GetFreeFrameStay
<1>14. CASE FlushAllPages \/ FlushSpaceDone \/ (\E s \in Spaces : FlushSpace(s))
  BY <1>2, <1>14 DEF FlushAllPages, FlushSpaceDone, FlushSpace
<1>15. ASSUME NEW t, NEW o, CreateTable(t, o) \/ Alloc(t, o) PROVE HeldStay
  BY <1>2, <1>15 DEF CreateTable, Alloc
<1>16. ASSUME NEW t, NEW b, NEW o, ReadDirectly(t, b, o) PROVE HeldStay
  BY <1>2, <1>16 DEF ReadDirectly
<1> QED
  BY <1>2, <1>3, <1>4, <1>5, <1>6, <1>7, <1>8, <1>9, <1>11, <1>12, <1>13, <1>14, <1>15, <1>16
  DEF Next, vars

\* While a caller holds a page its frame stays that page's, and nobody else
\* changes what it holds (mem_manager.cpp:226).
THEOREM HeldPages == Spec => HeldPagesStay
<1>1. PoolInv /\ [Next]_vars => [HeldStay]_vars
  BY NextStay
<1> QED
  BY <1>1, PoolInvariant, PTL DEF Spec, HeldPagesStay, HeldStay

-----------------------------------------------------------------------------
\* What callers rely on when they flush and when they are refused a page.  For
\* flushAllPages that needs a word on the files (one that has failed stays so
\* until it is closed, and a page of the pool fails to be written only by such a
\* failure), and one on where the flush is: what is dirty in the partition it is
\* at lies in front of it, what is dirty in those it has left was left by a
\* failure.

Failed(f) == f.stream = "failed"

\* Only a call on the disk manager changes a file, and a failed one stays failed.
FailuresStay == \A t \in Tables : Failed(disk[t]) => Failed(disk'[t])

LEMMA AccessFailed ==
  ASSUME NEW f, FileOK(f), NEW outcome
  PROVE  LET a == Access(f, outcome)
         IN  /\ Failed(f) => Failed(a.file) /\ ~a.ok
             /\ f.state # "missing" /\ ~a.ok => Failed(a.file)
<1> DEFINE a == Access(f, outcome)
           o == OpenTableFile(f)
<1>1. f \in File /\ (f.state = "missing" => f.stream = "closed")
  BY DEF FileOK, StreamOK
<1>2. CASE f.state = "missing"
  BY <1>1, <1>2 DEF Failed
<1>3. CASE f.state # "missing"
  <2>1. o = [rc |-> "OK", file |-> [f EXCEPT !.stream = IF @ = "closed" THEN "good" ELSE @]]
    BY <1>3 DEF OpenTableFile
  <2>2. o.file \in File /\ (Failed(f) => Failed(o.file))
    BY <1>1, <2>1 DEF Failed, File, Stream
  <2>3. a = ReadTableFileHeader(o.file, outcome)
    BY <2>1 DEF Access
  <2> HIDE DEF o
  <2>4. /\ Failed(o.file) => ~a.ok
        /\ ~a.ok => Failed(a.file)
    BY <2>2, <2>3 DEF ReadTableFileHeader, Failed, File
  <2> QED
    BY <2>2, <2>4
<1> QED
  BY <1>2, <1>3

LEMMA ReadFailed ==
  ASSUME NEW f, FileOK(f), Failed(f), NEW b, NEW buf, NEW outcome
  PROVE  Failed(ReadBlock(f, b, buf, outcome).file)
<1> DEFINE a == Access(f, outcome)
<1>1. Failed(a.file) /\ ~a.ok
  BY AccessFailed
<1> HIDE DEF a
<1> QED
  BY <1>1 DEF ReadBlock, a

\* A block that the file on disk records as used is written, or the file fails.
LEMMA WriteFailed ==
  ASSUME NEW f, FileOK(f), NEW b \in Blocks, NEW data, NEW outcome
  PROVE  LET w == WriteBlock(f, b, data, outcome)
         IN  /\ Failed(f) => Failed(w.file)
             /\ f.state = "ready" /\ b < f.saved.usedBlocks /\ w.rc # "OK" => Failed(w.file)
<1> DEFINE a == Access(f, outcome)
           w == WriteBlock(f, b, data, outcome)
<1>1. /\ FileOK(a.file) /\ a.file \in File
      /\ a.ok => a.file.header = f.header
      /\ Failed(f) => Failed(a.file) /\ ~a.ok
      /\ f.state = "ready" /\ ~a.ok => Failed(a.file)
  BY AccessFailed, AccessOK DEF FileOK
<1>2. f.state = "ready" /\ b < f.saved.usedBlocks /\ a.ok => IsUsed(a.file, b)
  <2>1. /\ f.saved.usedBlocks \in Nat /\ f.header.usedBlocks \in Nat
        /\ f.saved.usedBlocks <= f.header.usedBlocks
    BY DEF FileOK, File, Header, BufferedOK
  <2> QED
    BY <1>1, <2>1 DEF IsUsed, Blocks
<1> HIDE DEF a
<1>3. CASE ~a.ok
  BY <1>1, <1>3 DEF WriteBlock, a
<1>4. CASE a.ok
  <2>1. ~Failed(f)
    BY <1>1, <1>4
  <2>2. IsUsed(a.file, b) /\ w.rc # "OK" => w.file = FailStream(a.file)
    BY <1>4 DEF WriteBlock, a
  <2>3. Failed(FailStream(a.file))
    BY <1>1 DEF FailStream, Failed, File
  <2> QED
    BY <1>2, <1>4, <2>1, <2>2, <2>3
<1> QED
  BY <1>3, <1>4

\* The flush in progress.

\* What is dirty in partition s lies in front of the flush.
InFront(s) ==
    \A i \in Frames : frames[i].isDirty /\ frames[i].spaceType = s => i >= flush.next

\* flushAllPages is at a partition.
Ahead ==
    /\ InFront(Head(flush.todo))
    /\ \/ flush.todo = <<"DICT", "DATA", "LOG">>
       \/ flush.todo = <<"DATA", "LOG">> /\ LeftByFailure("DICT")
       \/ flush.todo = <<"LOG">> /\ LeftByFailure("DICT") /\ LeftByFailure("DATA")

FlushInv ==
    /\ ~Quiet => last = Other
    /\ ~Quiet /\ flush.call = "flushAllPages" => Ahead
    /\ FlushedUntilFailure

\* Nobody asks for pages of PLAN_SPACE.
LEMMA DirtySpaces ==
  ASSUME PoolInv, NEW i \in Frames, frames[i].isDirty
  PROVE  frames[i].spaceType \in {"DICT", "DATA", "LOG"}
<1>1. FrameOK(i, frames[i], disk)
  BY DEF PoolInv, FramesHoldAllocatedPages
<1> QED
  BY <1>1 DEF FrameOK, SpaceOf

\* What a failure has left stays so while the frames of its partition do.
LEMMA LeftStays ==
  ASSUME PoolInv, FailuresStay, NEW s, LeftByFailure(s),
         \A i \in Frames : /\ frames'[i].spaceType = frames[i].spaceType
                           /\ frames'[i].tableId = frames[i].tableId
                           /\ frames[i].spaceType = s => frames'[i].isDirty = frames[i].isDirty
  PROVE  LeftByFailure(s)'
<1>1. \A i \in Frames : frames[i].tableId \in Tables
  BY DEF PoolInv, TypeOK, BufferFrame
<1>2. SUFFICES ASSUME NEW i \in Frames, frames'[i].isDirty, frames'[i].spaceType = s
               PROVE  \E j \in Frames : /\ j <= i
                                        /\ frames'[j].spaceType = s
                                        /\ frames'[j].isDirty
                                        /\ disk'[frames'[j].tableId].stream = "failed"
  BY DEF LeftByFailure
<1>3. PICK j \in Frames : /\ j <= i
                          /\ frames[j].spaceType = s
                          /\ frames[j].isDirty
                          /\ disk[frames[j].tableId].stream = "failed"
  BY <1>2 DEF LeftByFailure
<1> QED
  BY <1>1, <1>3 DEF FailuresStay, Failed

\* The write of a frame's page in a flush.
LEMMA FlushWrite ==
  ASSUME PoolInv, NEW i \in Frames, frames[i].isDirty, NEW outcome,
         disk' = [disk EXCEPT ![frames[i].tableId] =
                    WriteBlock(@, frames[i].pageNum, frames[i].data, outcome).file]
  PROVE  /\ FailuresStay
         /\ WriteBlock(disk[frames[i].tableId], frames[i].pageNum, frames[i].data, outcome).rc # "OK"
            => Failed(disk'[frames[i].tableId])
<1> DEFINE t == frames[i].tableId
           w == WriteBlock(disk[t], frames[i].pageNum, frames[i].data, outcome)
<1>1. frames[i] \in BufferFrame /\ FrameOK(i, frames[i], disk) /\ disk \in [Tables -> File]
  BY DEF PoolInv, TypeOK, FramesHoldAllocatedPages
<1>2. frames[i].pageNum \in Blocks /\ t \in Tables /\ FileOK(disk[t])
  BY <1>1 DEF FrameOK, BufferFrame, PoolInv
<1>3. disk[t].state = "ready" /\ frames[i].pageNum < disk[t].saved.usedBlocks
  BY <1>1, <1>2, PagesAreFrames DEF FrameOK
<1>4. /\ Failed(disk[t]) => Failed(w.file)
      /\ w.rc # "OK" => Failed(w.file)
  BY <1>2, <1>3, WriteFailed
<1>5. disk' = [disk EXCEPT ![t] = w.file]
  OBVIOUS
<1> HIDE DEF w
<1> QED
  BY <1>1, <1>2, <1>4, <1>5 DEF FailuresStay, w

\* The end of a partition, of which a failure has left what is dirty.
LEMMA EndOfSpaceAhead ==
  ASSUME PoolInv, FlushInv, ~Quiet, FailuresStay, UNCHANGED frames, NEW rc, EndOfSpace(rc),
         NEW h, h = Head(flush.todo), LeftByFailure(h)'
  PROVE  FlushInv'
<1>1. last = Other /\ flush \in FlushType /\ frames \in [Frames -> BufferFrame]
  BY PoolInvParts DEF FlushInv, Sound
<1>2. \A s \in {"DICT", "DATA", "LOG"} : LeftByFailure(s) => LeftByFailure(s)'
  BY LeftStays
<1>3. LeftByFailure("PLAN")'
  BY DirtySpaces DEF LeftByFailure
<1>4. \A i \in Frames : i >= 0
  BY DEF Frames
<1>5. CASE flush.call # "flushAllPages" /\ Len(flush.todo) = 1
  BY <1>5 DEF EndOfSpace, FlushInv, FlushedUntilFailure, Quiet, Idle, Returns
<1>6. CASE flush.call # "flushAllPages" /\ Len(flush.todo) # 1
  <2>1. last' = Other /\ flush'.call = flush.call
    BY <1>1, <1>6 DEF EndOfSpace, FlushType
  <2> QED
    BY <1>6, <2>1 DEF FlushInv, FlushedUntilFailure, Other
<1>7. CASE flush.call = "flushAllPages"
  <2>1. Ahead
    BY <1>7 DEF FlushInv
  <2>2. CASE flush.todo = <<"LOG">>
    <3>1. \A s \in Spaces : LeftByFailure(s)'
      BY <1>2, <1>3, <2>1, <2>2 DEF Ahead, Spaces
    <3>2. flush' = Idle
      BY <2>2 DEF EndOfSpace
    <3> QED
      BY <3>1, <3>2 DEF FlushInv, FlushedUntilFailure, Quiet, Idle
  <2>3. CASE flush.todo = <<"DATA", "LOG">>
    <3>1. /\ flush'.todo = <<"LOG">> /\ flush'.next = 0 /\ last' = Other
      BY <1>1, <2>3 DEF EndOfSpace, FlushType
    <3>2. LeftByFailure("DICT")' /\ LeftByFailure("DATA")'
      BY <1>2, <2>1, <2>3 DEF Ahead
    <3>3. Ahead'
      BY <1>4, <3>1, <3>2 DEF Ahead, InFront
    <3> QED
      BY <3>1, <3>3 DEF FlushInv, FlushedUntilFailure, Other
  <2>4. CASE flush.todo = <<"DICT", "DATA", "LOG">>
    <3>1. /\ flush'.todo = <<"DATA", "LOG">> /\ flush'.next = 0 /\ last' = Other
      BY <1>1, <2>4 DEF EndOfSpace, FlushType
    <3>2. LeftByFailure("DICT")'
      BY <2>4
    <3>3. Ahead'
      BY <1>4, <3>1, <3>2 DEF Ahead, InFront
    <3> QED
      BY <3>1, <3>3 DEF FlushInv, FlushedUntilFailure, Other
  <2> QED
    BY <2>1, <2>2, <2>3, <2>4 DEF Ahead
<1> QED
  BY <1>5, <1>6, <1>7

\* One page of a flush: written, or the failure that ends the partition.
LEMMA FlushFrameAhead ==
  ASSUME PoolInv, FlushInv, NEW outcome, FlushFrame(outcome)
  PROVE  FlushInv'
<1> DEFINE w(i) == WriteBlock(disk[FlushTarget(i)], frames[i].pageNum, frames[i].data, outcome)
<1>1. PICK i \in ToFlush :
        /\ \A j \in ToFlush : i <= j
        /\ disk' = [disk EXCEPT ![FlushTarget(i)] = w(i).file]
        /\ IF w(i).rc = "OK"
           THEN /\ frames' = [frames EXCEPT ![i].isDirty = FALSE]
                /\ flush' = [flush EXCEPT !.next = i + 1]
                /\ UNCHANGED last
           ELSE EndOfSpace(w(i).rc) /\ UNCHANGED frames
  BY DEF FlushFrame
<1>2. /\ i \in Frames /\ frames[i].isDirty /\ frames[i].spaceType = Head(flush.todo)
      /\ FlushTarget(i) = frames[i].tableId /\ ~Quiet
  BY FlushTargetOK DEF FlushFrame, ToFlush
<1>3. FailuresStay /\ (w(i).rc # "OK" => Failed(disk'[frames[i].tableId]))
  BY <1>1, <1>2, FlushWrite
<1>4. /\ frames \in [Frames -> BufferFrame] /\ flush \in FlushType /\ last = Other
  BY <1>2, PoolInvParts DEF Sound, FlushInv
<1>5. flush.call = "flushAllPages" => Ahead
  BY <1>2 DEF FlushInv
<1> HIDE DEF w
<1>6. CASE w(i).rc = "OK"
  <2>1. /\ \A j \in Frames : /\ frames'[j].spaceType = frames[j].spaceType
                             /\ frames'[j].tableId = frames[j].tableId
                             /\ frames[j].spaceType # Head(flush.todo)
                                  => frames'[j].isDirty = frames[j].isDirty
                             /\ frames'[j].isDirty => frames[j].isDirty /\ j # i
        /\ flush'.todo = flush.todo /\ flush'.call = flush.call /\ flush'.next = i + 1
        /\ last' = Other
    BY <1>1, <1>2, <1>4, <1>6 DEF BufferFrame, FlushType
  <2>2. ASSUME flush.call = "flushAllPages" PROVE Ahead'
    <3>1. \A j \in ToFlush : j # i => j >= i + 1
      BY <1>1, <1>2 DEF ToFlush, Frames
    <3>2. InFront(Head(flush.todo))'
      BY <1>5, <2>1, <2>2, <3>1 DEF Ahead, InFront, ToFlush
    <3>3. \A s : s # Head(flush.todo) /\ LeftByFailure(s) => LeftByFailure(s)'
      <4>1. SUFFICES ASSUME NEW s, s # Head(flush.todo), LeftByFailure(s) PROVE LeftByFailure(s)'
        OBVIOUS
      <4> QED
        BY <1>3, <2>1, <4>1, LeftStays
    <3> QED
      BY <1>5, <2>1, <2>2, <3>2, <3>3 DEF Ahead
  <2> QED
    BY <2>1, <2>2, <1>2 DEF FlushInv, FlushedUntilFailure, Other, Quiet
<1>7. CASE w(i).rc # "OK"
  <2>1. CASE flush.call = "flushAllPages"
    <3>1. ASSUME NEW j \in Frames, frames[j].isDirty, frames[j].spaceType = Head(flush.todo)
          PROVE  i <= j
      BY <1>1, <1>5, <2>1, <3>1 DEF Ahead, InFront, ToFlush
    <3>2. PICK h : h = Head(flush.todo)
      OBVIOUS
    <3>3. LeftByFailure(h)'
      BY <1>1, <1>2, <1>3, <1>7, <3>1, <3>2 DEF LeftByFailure, Failed
    <3> QED
      BY <1>1, <1>2, <1>3, <1>7, <3>2, <3>3, EndOfSpaceAhead
  <2>2. CASE flush.call # "flushAllPages"
    <3>1. flush' = Idle \/ flush'.call = flush.call
      BY <1>1, <1>4, <1>7 DEF EndOfSpace, FlushType
    <3>2. last'.call # "flushAllPages" /\ (flush' # Idle => last' = Other)
      BY <1>1, <1>4, <1>7, <2>2 DEF EndOfSpace, Returns, Other
    <3> QED
      BY <2>2, <3>1, <3>2 DEF FlushInv, FlushedUntilFailure, Quiet, Idle
  <2> QED
    BY <2>1, <2>2
<1> QED
  BY <1>6, <1>7

\* The end of a partition's frames.
LEMMA FlushSpaceDoneAhead ==
  ASSUME PoolInv, FlushInv, FlushSpaceDone
  PROVE  FlushInv'
<1>1. /\ ~Quiet /\ ToFlush = {} /\ UNCHANGED <<frames, disk>> /\ last = Other
      /\ EndOfSpace("OK") /\ flush \in FlushType
  BY PoolInvParts DEF FlushInv, FlushSpaceDone
<1>2. FailuresStay
  BY <1>1 DEF FailuresStay
<1>3. CASE flush.call = "flushAllPages"
  <2>1. \A i \in Frames : frames[i].isDirty => frames[i].spaceType # Head(flush.todo)
    BY <1>1, <1>3 DEF FlushInv, Ahead, InFront, ToFlush
  <2>2. PICK h : h = Head(flush.todo)
    OBVIOUS
  <2>3. LeftByFailure(h)'
    BY <1>1, <2>1, <2>2 DEF LeftByFailure
  <2> QED
    BY <1>1, <1>2, <2>2, <2>3, EndOfSpaceAhead
<1>4. CASE flush.call # "flushAllPages"
  <2>1. flush' = Idle \/ flush'.call = flush.call
    BY <1>1 DEF EndOfSpace, FlushType
  <2>2. last'.call # "flushAllPages" /\ (flush' # Idle => last' = Other)
    BY <1>1, <1>4 DEF EndOfSpace, Returns, Other
  <2> QED
    BY <1>4, <2>1, <2>2 DEF FlushInv, FlushedUntilFailure, Quiet, Idle
<1> QED
  BY <1>3, <1>4

LEMMA FlushAllPagesAhead ==
  ASSUME PoolInv, FlushInv, FlushAllPages
  PROVE  FlushInv'
<1>1. /\ flush'.todo = <<"DICT", "DATA", "LOG">> /\ flush'.next = 0 /\ last' = Other
  BY DEF FlushAllPages
<1>2. \A i \in Frames : i >= 0
  BY DEF Frames
<1> QED
  BY <1>1, <1>2 DEF FlushInv, FlushedUntilFailure, Ahead, InFront, Other

LEMMA ReadDirectlyAhead ==
  ASSUME PoolInv, FlushInv, NEW t \in Tables, NEW b \in Blocks, NEW outcome,
         ReadDirectly(t, b, outcome)
  PROVE  FlushInv'
<1>1. /\ UNCHANGED <<frames, flush, last>> /\ Quiet
      /\ disk' = [disk EXCEPT ![t] = ReadBlock(@, b, Zero, outcome).file]
  BY DEF ReadDirectly
<1>2. disk \in [Tables -> File] /\ \A u \in Tables : FileOK(disk[u])
  BY DEF PoolInv, TypeOK
<1>3. FailuresStay
  BY <1>1, <1>2, ReadFailed DEF FailuresStay
<1>4. \A s \in Spaces : LeftByFailure(s) => LeftByFailure(s)'
  BY <1>1, <1>3, LeftStays
<1> QED
  BY <1>1, <1>4 DEF FlushInv, FlushedUntilFailure, Quiet

LEMMA NextFlushInv == PoolInv /\ FlushInv /\ [Next]_vars => FlushInv'
<1> SUFFICES ASSUME PoolInv, FlushInv, [Next]_vars PROVE FlushInv'
  OBVIOUS
<1>2. ASSUME Quiet', last'.call # "flushAllPages" PROVE FlushInv'
  BY <1>2 DEF FlushInv, FlushedUntilFailure
<1>3. ASSUME Quiet, UNCHANGED flush, last'.call # "flushAllPages" PROVE FlushInv'
  BY <1>2, <1>3 DEF Quiet
<1>4. ASSUME UNCHANGED <<frames, disk, flush, last>> PROVE FlushInv'
  BY <1>4 DEF FlushInv, FlushedUntilFailure, LeftByFailure, Quiet, Ahead, InFront
<1>5. ASSUME NEW t \in Tables, NEW o, CreateTable(t, o) \/ Alloc(t, o) PROVE FlushInv'
  BY <1>3, <1>5 DEF CreateTable, Alloc, Other
<1>7. ASSUME NEW t \in Tables, NEW b \in Blocks, GetPageHit(t, b) \/ GetPageRefused(t, b)
      PROVE  FlushInv'
  BY <1>3, <1>7 DEF GetPageHit, GetPageRefused, Returns
<1>8. ASSUME NEW t \in Tables, NEW b \in Blocks, NEW w, NEW r, GetPageMiss(t, b, w, r)
      PROVE  FlushInv'
  BY <1>3, <1>8 DEF GetPageMiss, Returns
<1>9. ASSUME NEW t \in Tables, NEW b \in Blocks, NEW o,
             MarkDirty(t, b) \/ ReleasePage(t, b) \/ FlushPage(t, b, o)
      PROVE  FlushInv'
  BY <1>3, <1>9 DEF MarkDirty, ReleasePage, FlushPage, Other
<1>10. ASSUME NEW i, NEW c, Modify(i, c) PROVE FlushInv'
  BY <1>3, <1>10 DEF Modify, Other
<1>11. ASSUME NEW s, NEW o, GetFreeFrame(s, o) PROVE FlushInv'
  BY <1>3, <1>11 DEF GetFreeFrame, Other
<1>12. ASSUME NEW s, FlushSpace(s) PROVE FlushInv'
  BY <1>12 DEF FlushSpace, FlushInv, FlushedUntilFailure, Other
<1>13. CASE Crash \/ Exit
  BY <1>2, <1>13 DEF Crash, Exit, Restart, Idle, Quiet, Other
<1>14. CASE UNCHANGED vars
  BY <1>4, <1>14 DEF vars
<1>15. CASE Next
  BY <1>5, <1>7, <1>8, <1>9, <1>10, <1>11, <1>12, <1>13, <1>15, ReadDirectlyAhead,
     FlushFrameAhead, FlushSpaceDoneAhead, FlushAllPagesAhead DEF Next
<1> QED
  BY <1>14, <1>15

\* Whatever fails, when flushAllPages returns a page is left dirty, in any
\* partition, only at or behind one whose file has failed
\* (mem_manager.cpp:147-193).
THEOREM FlushComplete == Spec => []FlushedUntilFailure
<1>1. Init => FlushInv
  BY DEF Init, FlushInv, FlushedUntilFailure, Idle, Quiet, Other
<1>2. PoolInv /\ FlushInv /\ [Next]_vars => FlushInv'
  BY NextFlushInv
<1>3. FlushInv => FlushedUntilFailure
  BY DEF FlushInv
<1> QED
  BY <1>1, <1>2, <1>3, PoolInvariant, PTL DEF Spec

-----------------------------------------------------------------------------
\* The refusals of the clock.

RefusedInv == RefusedOnlyOnce /\ (~Quiet => last.rc # "BUFFER_FULL")

\* A refusal leaves no reference bit that could cause another.
LEMMA RefusalSweeps ==
  ASSUME PoolInv, NEW t \in Tables, NEW b \in Blocks, GetPageRefused(t, b)
  PROVE  RefusedOnlyOnce'
<1> DEFINE s == SpaceOf(t)
<1>1. frames' = Swept(Evictable(s)) /\ last'.space = s
  BY DEF GetPageRefused, Returns
<1>2. /\ frames \in [Frames -> BufferFrame]
      /\ \A j \in Frames : SameButRef(Swept(Evictable(s))[j], frames[j])
  BY SweptOK DEF PoolInv, TypeOK
<1>3. \A j \in Evictable(s) : ~Swept(Evictable(s))[j].refBit
  BY <1>2 DEF Swept, Evictable, BufferFrame
<1>4. \A j \in Frames :
        frames'[j].spaceType = s /\ frames'[j].pinCount = 0 => ~frames'[j].refBit
  BY <1>1, <1>2, <1>3 DEF Evictable, SameButRef, SamePage
<1> HIDE DEF s
<1>5. (Exhausted(s) => Evictable(s) = {})'
  BY <1>4 DEF Exhausted, Unreferenced, Evictable
<1> QED
  BY <1>1, <1>5 DEF RefusedOnlyOnce, Exhausted, Unused, Unreferenced, Evictable

LEMMA NextRefusedInv == PoolInv /\ RefusedInv /\ [Next]_vars => RefusedInv'
<1> SUFFICES ASSUME PoolInv, RefusedInv, [Next]_vars PROVE RefusedInv'
  OBVIOUS
<1>1. ASSUME last'.rc # "BUFFER_FULL" PROVE RefusedInv'
  BY <1>1 DEF RefusedInv, RefusedOnlyOnce
<1>2. ASSUME UNCHANGED <<frames, flush, last>> PROVE RefusedInv'
  BY <1>2 DEF RefusedInv, RefusedOnlyOnce, Quiet, Exhausted, Unused, Unreferenced, Evictable
<1>3. ASSUME NEW t \in Tables, NEW b \in Blocks, GetPageRefused(t, b) PROVE RefusedInv'
  BY <1>3, RefusalSweeps DEF RefusedInv, GetPageRefused, Quiet
<1>4. ASSUME NEW t \in Tables, NEW b \in Blocks, NEW w, NEW r, GetPageMiss(t, b, w, r)
      PROVE  RefusedInv'
  <2>1. ASSUME NEW i PROVE Evict(i, w).rc # "BUFFER_FULL"
    BY WriteBlockCodes DEF Evict
  <2>2. ASSUME NEW f, NEW buf PROVE ReadBlock(f, b, buf, r).rc # "BUFFER_FULL"
    BY ReadBlockCodes
  <2> QED
    BY <1>1, <1>4, <2>1, <2>2, GetPageMissSteps DEF Returns
<1>5. ASSUME NEW rc, EndOfSpace(rc), rc # "BUFFER_FULL", ~Quiet PROVE RefusedInv'
  BY <1>1, <1>5 DEF EndOfSpace, Returns, RefusedInv
<1>6. ASSUME NEW o, FlushFrame(o) PROVE RefusedInv'
  <2>1. PICK i : LET w == WriteBlock(disk[FlushTarget(i)], frames[i].pageNum, frames[i].data, o)
                 IN  UNCHANGED last \/ EndOfSpace(w.rc)
    BY <1>6 DEF FlushFrame
  <2>2. CASE UNCHANGED last
    BY <1>1, <1>6, <2>2 DEF RefusedInv, FlushFrame
  <2> QED
    BY <1>5, <1>6, <2>1, <2>2, WriteBlockCodes DEF FlushFrame
<1>7. CASE FlushSpaceDone
  BY <1>5, <1>7 DEF FlushSpaceDone
<1>8. ASSUME last' = Other PROVE RefusedInv'
  BY <1>1, <1>8 DEF Other
<1>9. ASSUME NEW t \in Tables, NEW b \in Blocks, GetPageHit(t, b) PROVE RefusedInv'
  BY <1>1, <1>9 DEF GetPageHit, Returns
<1>10. ASSUME NEW t \in Tables, NEW b \in Blocks, NEW o, ReadDirectly(t, b, o) PROVE RefusedInv'
  BY <1>2, <1>10 DEF ReadDirectly
<1>11. ASSUME NEW t, NEW b, NEW o,
              \/ CreateTable(t, o) \/ Alloc(t, o) \/ MarkDirty(t, b)
              \/ ReleasePage(t, b) \/ FlushPage(t, b, o)
       PROVE  RefusedInv'
  BY <1>8, <1>11 DEF CreateTable, Alloc, MarkDirty, ReleasePage, FlushPage
<1>12. ASSUME NEW s, NEW o, FlushSpace(s) \/ GetFreeFrame(s, o) PROVE RefusedInv'
  BY <1>8, <1>12 DEF FlushSpace, GetFreeFrame
<1>13. ASSUME NEW i, NEW c, Modify(i, c) PROVE RefusedInv'
  BY <1>8, <1>13 DEF Modify
<1>14. CASE FlushAllPages \/ Crash \/ Exit
  BY <1>8, <1>14 DEF FlushAllPages, Crash, Exit, Restart
<1>15. CASE UNCHANGED vars
  BY <1>2, <1>15 DEF vars
<1>16. CASE Next
  BY <1>3, <1>4, <1>6, <1>7, <1>9, <1>10, <1>11, <1>12, <1>13, <1>14, <1>16 DEF Next
<1> QED
  BY <1>15, <1>16

\* getPage refuses a partition twice in a row only if callers hold all of its
\* frames: the turn of the clock that found nothing has cleared the reference
\* bits (mem_manager.cpp:221-246).
THEOREM RefusalsEnd == Spec => []RefusedOnlyOnce
<1>1. Init => RefusedInv
  BY DEF Init, RefusedInv, RefusedOnlyOnce, Idle, Quiet, Other
<1>2. RefusedInv => RefusedOnlyOnce
  BY DEF RefusedInv
<1> QED
  BY <1>1, <1>2, NextRefusedInv, PoolInvariant, PTL DEF Spec

-----------------------------------------------------------------------------
\* BufferPool implements PageStore, as long as no read of a block fails.  Every call but a
\* caller's own write leaves the view of every page as it is and may make some of them stable
\* (Settle): what is written to a block is what the frame of that page holds, a page that
\* leaves the pool is in its block by then, and a page that enters it is taken from there.

BlockAt(d, p) == d[p[1]].block[p[2]]
InFrame(f, p) == HoldsPage(f, p[1], p[2])

LEMMA ViewCached ==
  ASSUME NEW fr, NEW d, NEW p \in Pages, OnePerPage(fr), NEW i \in Frames, InFrame(fr[i], p)
  PROVE  ViewOf(fr, d)[p] = fr[i].data
<1> DEFINE c == CHOOSE j \in Frames : HoldsPage(fr[j], p[1], p[2])
<1>1. c \in Frames /\ HoldsPage(fr[c], p[1], p[2])
  BY DEF InFrame
<1>2. fr[i].tableId = p[1] /\ fr[i].pageNum = p[2] /\ p[2] # NoPage
  BY PagesAreFrames DEF InFrame, HoldsPage, Pages
<1>3. i = c
  BY <1>1, <1>2 DEF OnePerPage
<1>4. ViewOf(fr, d)[p] = fr[c].data
  BY <1>1 DEF ViewOf
<1> QED
  BY <1>3, <1>4

LEMMA ViewUncached ==
  ASSUME NEW fr, NEW d, NEW p \in Pages, \A j \in Frames : ~InFrame(fr[j], p)
  PROVE  ViewOf(fr, d)[p] = BlockAt(d, p)
  BY DEF ViewOf, InFrame, BlockAt

LEMMA ViewEqual ==
  ASSUME NEW fr, NEW d, NEW fr2, NEW d2,
         \A p \in Pages : ViewOf(fr2, d2)[p] = ViewOf(fr, d)[p]
  PROVE  ViewOf(fr2, d2) = ViewOf(fr, d)
  BY DEF ViewOf

\* Frames that keep their pages and contents, over files in which no other
\* page has changed.
LEMMA SamePagesView ==
  ASSUME NEW fr, NEW d, NEW fr2, NEW d2, OnePerPage(fr), OnePerPage(fr2),
         \A j \in Frames : SamePage(fr2[j], fr[j]) /\ fr2[j].data = fr[j].data,
         \A p \in Pages : (\A j \in Frames : ~InFrame(fr[j], p)) =>
                            BlockAt(d2, p) = BlockAt(d, p)
  PROVE  ViewOf(fr2, d2) = ViewOf(fr, d)
<1>1. ASSUME NEW p \in Pages
      PROVE  ViewOf(fr2, d2)[p] = ViewOf(fr, d)[p]
  <2>1. \A j \in Frames : InFrame(fr2[j], p) <=> InFrame(fr[j], p)
    BY DEF InFrame, HoldsPage, SamePage
  <2>2. CASE \E j \in Frames : InFrame(fr[j], p)
    BY <2>1, <2>2, ViewCached
  <2>3. CASE \A j \in Frames : ~InFrame(fr[j], p)
    BY <2>1, <2>3, ViewUncached
  <2> QED
    BY <2>2, <2>3
<1> QED
  BY <1>1, ViewEqual

\* The content of a page is the content of a block.
LEMMA ViewType ==
  ASSUME PoolInv
  PROVE  /\ ViewOf(frames, disk) \in [Pages -> Contents]
         /\ StableOf(disk) \in [Pages -> Contents]
<1>1. /\ frames \in [Frames -> BufferFrame] /\ OnePerPage(frames)
      /\ disk \in [Tables -> File]
  BY PoolInvParts DEF Sound, WellFormed
<1>2. ASSUME NEW p \in Pages
      PROVE  BlockAt(disk, p) \in Contents /\ ViewOf(frames, disk)[p] \in Contents
  <2>1. BlockAt(disk, p) \in Contents
    BY <1>1 DEF Pages, BlockAt, File
  <2>2. CASE \E j \in Frames : InFrame(frames[j], p)
    BY <1>1, <2>1, <2>2, ViewCached DEF BufferFrame
  <2>3. CASE \A j \in Frames : ~InFrame(frames[j], p)
    BY <2>1, <2>3, ViewUncached
  <2> QED
    BY <2>1, <2>2, <2>3
<1>3. ViewOf(frames, disk) = [p \in Pages |-> ViewOf(frames, disk)[p]]
  BY DEF ViewOf
<1>4. StableOf(disk) \in [Pages -> Contents]
  BY <1>2 DEF StableOf, BlockAt
<1> QED
  BY <1>2, <1>3, <1>4

\* A write-back changes the block of the page it writes, and to its view.
LEMMA WriteBackView ==
  ASSUME PoolInv, NEW i \in Frames, NEW outcome
  PROVE  LET d2 == [disk EXCEPT ![frames[i].tableId] = Evict(i, outcome).file]
         IN  \A p \in Pages :
               /\ ~InFrame(frames[i], p) => BlockAt(d2, p) = BlockAt(disk, p)
               /\ BlockAt(d2, p) \in {BlockAt(disk, p), ViewOf(frames, disk)[p]}
<1> DEFINE e  == Evict(i, outcome)
           f  == disk[frames[i].tableId]
           d2 == [disk EXCEPT ![frames[i].tableId] = e.file]
<1>1. /\ e.rc # "OK" => e.file.block = f.block
      /\ e.rc = "OK" /\ frames[i].isDirty =>
            e.file.block = [f.block EXCEPT ![frames[i].pageNum] = frames[i].data]
      /\ ~frames[i].isDirty => e.file.block = f.block
  BY EvictOK, PoolInvParts
<1>2. /\ frames \in [Frames -> BufferFrame] /\ OnePerPage(frames)
      /\ disk \in [Tables -> File]
  BY PoolInvParts DEF Sound, WellFormed
<1> HIDE DEF e
<1>3. ASSUME NEW p \in Pages
      PROVE  /\ ~InFrame(frames[i], p) => BlockAt(d2, p) = BlockAt(disk, p)
             /\ BlockAt(d2, p) \in {BlockAt(disk, p), frames[i].data}
  <2>1. p[1] \in Tables /\ p[2] \in Blocks /\ disk[p[1]].block \in [Blocks -> Contents]
    BY <1>2 DEF Pages, File
  <2>2. CASE e.file.block = f.block
    BY <1>2, <2>1, <2>2 DEF BlockAt
  <2>3. CASE e.file.block = [f.block EXCEPT ![frames[i].pageNum] = frames[i].data]
    <3>1. CASE p[1] # frames[i].tableId
      BY <1>2, <2>1, <3>1 DEF BlockAt
    <3>2. CASE p[1] = frames[i].tableId /\ p[2] # frames[i].pageNum
      BY <1>2, <2>1, <2>3, <3>2 DEF BlockAt
    <3>3. CASE p[1] = frames[i].tableId /\ p[2] = frames[i].pageNum
      BY <1>2, <2>1, <2>3, <3>3 DEF BlockAt, InFrame, HoldsPage
    <3> QED
      BY <3>1, <3>2, <3>3
  <2> QED
    BY <1>1, <2>2, <2>3
<1>4. ASSUME NEW p \in Pages
      PROVE  BlockAt(d2, p) \in {BlockAt(disk, p), ViewOf(frames, disk)[p]}
  <2> HIDE DEF d2
  <2>1. CASE InFrame(frames[i], p)
    BY <1>2, <1>3, <2>1, ViewCached
  <2>2. CASE ~InFrame(frames[i], p)
    BY <1>3, <2>2
  <2> QED
    BY <2>1, <2>2
<1> QED
  BY <1>3, <1>4 DEF e

-----------------------------------------------------------------------------
\* Every frame but i keeps its page and is not newly pinned.
PinsOnly(i) == \A j \in Frames : j # i /\ frames'[j].pinCount > 0 =>
                   frames[j].pinCount > 0 /\ SamePage(frames'[j], frames[j])

\* One call makes at most one page held.
LEMMA NewlyHeld ==
  ASSUME NEW i, PinsOnly(i)
  PROVE  \A p, q \in HeldOf(frames') \ HeldOf(frames) : p = q
<1>1. ASSUME NEW p \in HeldOf(frames') \ HeldOf(frames)
      PROVE  p = <<frames'[i].tableId, frames'[i].pageNum>>
  <2>1. PICK j \in Frames : HoldsPage(frames'[j], p[1], p[2]) /\ frames'[j].pinCount > 0
    BY <1>1 DEF HeldOf
  <2>2. j = i
    BY <1>1, <2>1 DEF HeldOf, PinsOnly, SamePage, HoldsPage
  <2>3. p = <<p[1], p[2]>>
    BY <1>1 DEF HeldOf, Pages
  <2> QED
    BY <2>1, <2>2, <2>3 DEF HoldsPage
<1> QED
  BY <1>1

LEMMA NoPins ==
  ASSUME \A j \in Frames : /\ SamePage(frames'[j], frames[j])
                           /\ frames'[j].pinCount = frames[j].pinCount
  PROVE  \A i : PinsOnly(i)
  BY DEF PinsOnly

\* A page that is held is allocated.
LEMMA HeldAllocated ==
  ASSUME NEW fr, NEW d, Sound(fr, d), WellFormed(d), NEW p \in HeldOf(fr)
  PROVE  /\ p \in Pages
         /\ p[2] < d[p[1]].header.usedBlocks
<1>1. PICK j \in Frames : HoldsPage(fr[j], p[1], p[2])
  BY DEF HeldOf
<1>2. p \in Pages /\ p[1] \in Tables /\ p[2] \in Blocks
  BY DEF HeldOf, Pages
<1>3. p[2] < d[p[1]].saved.usedBlocks
  BY <1>1, <1>2, PagesAreFrames DEF Sound, FrameOK, HoldsPage
<1>4. FileOK(d[p[1]]) /\ d[p[1]] \in File
  BY <1>2 DEF WellFormed
<1> QED
  BY <1>2, <1>3, <1>4 DEF FileOK, BufferedOK, File, Header, Blocks

\* Pages that a file gives up were never written and are in no frame.
LEMMA GivenUpPages ==
  ASSUME PoolInv, Grows(disk', disk),
         \A t \in Tables : NoNewBlock(disk'[t], disk[t])
  PROVE  Store!MayLose
<1>1. /\ \A t \in Tables : /\ FileOK(disk[t]) /\ disk[t] \in File
                           /\ FileOK(disk'[t]) /\ disk'[t] \in File
      /\ frames \in [Frames -> BufferFrame]
  BY DEF PoolInv, TypeOK, Grows
<1>2. ASSUME NEW t \in Tables
      PROVE  /\ disk'[t].header.usedBlocks \in Nat
             /\ disk'[t].header.usedBlocks <= disk[t].header.usedBlocks
  BY <1>1 DEF NoNewBlock, File, Header
<1>3. ASSUME NEW p \in Pages, p[2] >= disk'[p[1]].header.usedBlocks
      PROVE  ViewOf(frames, disk)[p] = Zero /\ StableOf(disk)[p] = Zero
  <2>1. p[1] \in Tables /\ p[2] \in Blocks
    BY DEF Pages
  <2>2. p[2] >= disk[p[1]].saved.usedBlocks
    <3>1. /\ p[2] \in Int
          /\ disk[p[1]].saved.usedBlocks \in Nat
          /\ disk'[p[1]].saved.usedBlocks \in Nat
          /\ disk'[p[1]].header.usedBlocks \in Nat
      BY <1>1, <2>1 DEF Blocks, File, Header
    <3>2. /\ disk'[p[1]].saved.usedBlocks >= disk[p[1]].saved.usedBlocks
          /\ disk'[p[1]].saved.usedBlocks <= disk'[p[1]].header.usedBlocks
      BY <1>1, <2>1 DEF Grows, Keeps, FileOK, BufferedOK
    <3> QED
      BY <1>3, <3>1, <3>2
  <2>3. BlockAt(disk, p) = Zero
    BY <1>1, <2>1, <2>2 DEF FileOK, FreshOK, BlockAt
  <2>4. \A j \in Frames : ~InFrame(frames[j], p)
    <3>1. SUFFICES ASSUME NEW j \in Frames, InFrame(frames[j], p) PROVE FALSE
      OBVIOUS
    <3>2. p[2] < disk[p[1]].saved.usedBlocks
      BY <2>1, <3>1, PagesAreFrames
      DEF PoolInv, FramesHoldAllocatedPages, FrameOK, InFrame, HoldsPage
    <3> QED
      BY <1>1, <2>1, <2>2, <3>2 DEF Blocks, File, Header
  <2> QED
    BY <2>3, <2>4, ViewUncached DEF StableOf, BlockAt
<1>4. ASSUME NEW p \in Store!Pages,
             Store!Allocated([t \in Tables |-> disk[t].header.usedBlocks], p),
             ~Store!Allocated([t \in Tables |-> disk'[t].header.usedBlocks], p)
      PROVE  ViewOf(frames, disk)[p] = Zero /\ StableOf(disk)[p] = Zero
  <2>1. p \in Pages /\ p[1] \in Tables /\ p[2] \in Blocks
    BY DEF Store!Pages, Pages
  <2>2. p[2] >= disk'[p[1]].header.usedBlocks
    BY <1>2, <1>4, <2>1 DEF Store!Allocated, Blocks
  <2> QED
    BY <1>3, <2>1, <2>2
<1> QED
  BY <1>2, <1>4 DEF Store!MayLose

\* Files that the next state has in place of some of the old ones.
Later(d2, d1) == Grows(d2, d1) /\ \A t \in Tables : NoNewBlock(d2[t], d1[t])

LEMMA LaterReflexive ==
  ASSUME NEW d, WellFormed(d)
  PROVE  Later(d, d)
  BY GrowsReflexive DEF Later, NoNewBlock, WellFormed, File, Header

LEMMA UpdateLater ==
  ASSUME NEW d, WellFormed(d), NEW t \in Tables, NEW g, FileOK(g), Follows(g, d[t]),
         NoNewBlock(g, d[t])
  PROVE  Later([d EXCEPT ![t] = g], d)
<1>1. \A u \in Tables : NoNewBlock(d[u], d[u])
  BY DEF WellFormed, NoNewBlock, File, Header
<1> QED
  BY <1>1, UpdateGrows DEF Later, WellFormed

LEMMA LaterTransitive ==
  ASSUME NEW d1, NEW d2, NEW d3, WellFormed(d1), Later(d2, d1), Later(d3, d2)
  PROVE  Later(d3, d1)
<1>1. ASSUME NEW t \in Tables
      PROVE  NoNewBlock(d3[t], d1[t])
  <2>1. /\ d1[t].header.usedBlocks \in Nat
        /\ d2[t].header.usedBlocks \in Nat
        /\ d3[t].header.usedBlocks \in Nat
    BY DEF WellFormed, Later, Grows, File, Header
  <2> QED
    BY <2>1 DEF Later, NoNewBlock
<1> QED
  BY <1>1, GrowsTransitive DEF Later

\* A step that changes no view and may copy views to blocks.
LEMMA SettleStep ==
  ASSUME PoolInv, PoolInv', Later(disk', disk),
         ViewOf(frames', disk') = ViewOf(frames, disk),
         \A p \in Pages : BlockAt(disk', p) \in {BlockAt(disk, p), ViewOf(frames, disk)[p]},
         NEW i, PinsOnly(i)
  PROVE  Store!Next
<1>1. Store!MayLose
  BY GivenUpPages DEF Later
<1>2. StableOf(disk') \in [Store!Pages -> Contents]
  <2>1. disk' \in [Tables -> File]
    BY PoolInvPartsNext DEF WellFormed
  <2> QED
    BY <2>1 DEF StableOf, Store!Pages, Pages, File
<1>3. \A p \in Store!Pages :
        StableOf(disk')[p] \in {StableOf(disk)[p], ViewOf(frames, disk)[p]}
  BY DEF Store!Pages, Pages, StableOf, BlockAt
<1>4. /\ HeldOf(frames') \subseteq Store!Pages
      /\ \A p \in HeldOf(frames') :
            Store!Allocated([t \in Tables |-> disk'[t].header.usedBlocks], p)
  <2>1. Sound(frames', disk') /\ WellFormed(disk')
    BY PoolInvPartsNext
  <2> QED
    BY <2>1, HeldAllocated DEF Store!Pages, Store!Allocated, Pages
<1>5. Store!Settle
  <2>1. /\ (StableOf(disk))' = StableOf(disk') /\ (ViewOf(frames, disk))' = ViewOf(frames', disk')
        /\ (HeldOf(frames))' = HeldOf(frames')
    BY DEF StableOf, ViewOf, HeldOf, HoldsPage
  <2> QED
    BY <1>1, <1>2, <1>3, <1>4, <2>1, NewlyHeld DEF Store!Settle
<1> QED
  BY <1>5 DEF Store!Next

LEMMA ViewKept ==
  ASSUME PoolInv, PoolInv',
         \A j \in Frames : SamePage(frames'[j], frames[j]) /\ frames'[j].data = frames[j].data,
         \A p \in Pages : (\A j \in Frames : ~InFrame(frames[j], p)) =>
                            BlockAt(disk', p) = BlockAt(disk, p)
  PROVE  ViewOf(frames', disk') = ViewOf(frames, disk)
<1>1. OnePerPage(frames) /\ OnePerPage(frames')
  BY PoolInvParts, PoolInvPartsNext DEF Sound
<1> QED
  BY <1>1, SamePagesView

\* A step that leaves the frames' pages and contents, and all the blocks.
LEMMA QuietStore ==
  ASSUME PoolInv, PoolInv', Later(disk', disk), NEW i, PinsOnly(i),
         \A j \in Frames : SamePage(frames'[j], frames[j]) /\ frames'[j].data = frames[j].data,
         \A t \in Tables : disk'[t].block = disk[t].block
  PROVE  Store!Next
<1>1. \A p \in Pages : BlockAt(disk', p) = BlockAt(disk, p)
  BY DEF Pages, BlockAt
<1>2. ViewOf(frames', disk') = ViewOf(frames, disk)
  BY <1>1, ViewKept
<1> QED
  BY <1>1, <1>2, SettleStep

\* A step that writes frame i back, or fails to, and keeps the pages.
LEMMA WriteBackStore ==
  ASSUME PoolInv, PoolInv', NEW i \in Frames, NEW outcome, PinsOnly(i),
         disk' = [disk EXCEPT ![frames[i].tableId] = Evict(i, outcome).file],
         \A j \in Frames : SamePage(frames'[j], frames[j]) /\ frames'[j].data = frames[j].data
  PROVE  Store!Next
<1>1. OnePerPage(frames) /\ OnePerPage(frames') /\ WellFormed(disk)
  BY PoolInvParts, PoolInvPartsNext DEF Sound
<1>2. \A p \in Pages :
        /\ ~InFrame(frames[i], p) => BlockAt(disk', p) = BlockAt(disk, p)
        /\ BlockAt(disk', p) \in {BlockAt(disk, p), ViewOf(frames, disk)[p]}
  BY WriteBackView
<1>3. ViewOf(frames', disk') = ViewOf(frames, disk)
  <2>1. \A p \in Pages : (\A j \in Frames : ~InFrame(frames[j], p)) =>
                             BlockAt(disk', p) = BlockAt(disk, p)
    BY <1>2
  <2> QED
    BY <2>1, ViewKept
<1>4. Later(disk', disk)
  <2>1. LET g == Evict(i, outcome).file
        IN  /\ FileOK(g) /\ Follows(g, disk[frames[i].tableId])
            /\ NoNewBlock(g, disk[frames[i].tableId])
    BY EvictOK, PoolInvParts
  <2>2. frames[i].tableId \in Tables
    BY DEF PoolInv, TypeOK, BufferFrame
  <2> QED
    BY <1>1, <2>1, <2>2, UpdateLater
<1> QED
  BY <1>2, <1>3, <1>4, SettleStep

-----------------------------------------------------------------------------
\* One lemma per action.

LEMMA GetPageHitStore ==
  ASSUME PoolInv, PoolInv', NEW t, NEW b, GetPageHit(t, b)
  PROVE  Store!Next
<1>1. PICK i \in Frames :
        frames' = [frames EXCEPT ![i].pinCount = @ + 1, ![i].refBit = TRUE]
  BY DEF GetPageHit
<1>2. \A j \in Frames : SamePage(frames'[j], frames[j]) /\ frames'[j].data = frames[j].data
  BY <1>1 DEF PoolInv, TypeOK, BufferFrame, SamePage
<1>3. Later(disk', disk) /\ disk' = disk
  BY LaterReflexive, PoolInvParts DEF GetPageHit
<1>4. PinsOnly(i)
  <2>1. \A j \in Frames : j # i => frames'[j].pinCount = frames[j].pinCount
    BY <1>1 DEF PoolInv, TypeOK
  <2> QED
    BY <1>2, <2>1 DEF PinsOnly
<1> QED
  BY <1>2, <1>3, <1>4, QuietStore

LEMMA GetPageRefusedStore ==
  ASSUME PoolInv, PoolInv', NEW t, NEW b, GetPageRefused(t, b)
  PROVE  Store!Next
<1>1. \A j \in Frames : SameButRef(frames'[j], frames[j])
  BY SweptOK DEF PoolInv, TypeOK, GetPageRefused
<1>2. Later(disk', disk) /\ disk' = disk
  BY LaterReflexive, PoolInvParts DEF GetPageRefused
<1>3. \A i : PinsOnly(i)
  BY <1>1, NoPins DEF SameButRef
<1> QED
  BY <1>1, <1>2, <1>3, QuietStore DEF SameButRef

LEMMA MarkDirtyStore ==
  ASSUME PoolInv, PoolInv', NEW t, NEW b, MarkDirty(t, b)
  PROVE  Store!Next
<1>1. PICK i \in Frames : frames' = [frames EXCEPT ![i].isDirty = TRUE]
  BY DEF MarkDirty
<1>2. \A j \in Frames : SamePage(frames'[j], frames[j]) /\ frames'[j].data = frames[j].data
  BY <1>1 DEF PoolInv, TypeOK, BufferFrame, SamePage
<1>3. Later(disk', disk) /\ disk' = disk
  BY LaterReflexive, PoolInvParts DEF MarkDirty
<1>4. PinsOnly(i)
  BY <1>1, <1>2 DEF PinsOnly
<1> QED
  BY <1>2, <1>3, <1>4, QuietStore

LEMMA ReleasePageStore ==
  ASSUME PoolInv, PoolInv', NEW t, NEW b, ReleasePage(t, b)
  PROVE  Store!Next
<1>1. PICK i \in Frames : \E n : frames' = [frames EXCEPT ![i].pinCount = n]
  BY DEF ReleasePage
<1>2. \A j \in Frames : SamePage(frames'[j], frames[j]) /\ frames'[j].data = frames[j].data
  BY <1>1 DEF PoolInv, TypeOK, BufferFrame, SamePage
<1>3. Later(disk', disk) /\ disk' = disk
  BY LaterReflexive, PoolInvParts DEF ReleasePage
<1>4. PinsOnly(i)
  BY <1>1, <1>2 DEF PinsOnly
<1> QED
  BY <1>2, <1>3, <1>4, QuietStore

LEMMA FlushPageStore ==
  ASSUME PoolInv, PoolInv', NEW t, NEW b, NEW outcome, FlushPage(t, b, outcome)
  PROVE  Store!Next
<1>1. PICK i \in Frames :
        /\ disk' = [disk EXCEPT ![frames[i].tableId] = Evict(i, outcome).file]
        /\ frames' = [frames EXCEPT ![i].isDirty = FALSE] \/ frames' = frames
  BY DEF FlushPage
<1>2. frames \in [Frames -> BufferFrame] /\ \A j \in Frames : SameButRef(frames[j], frames[j])
  BY DEF PoolInv, TypeOK, SameButRef, SamePage
<1>3. \A j \in Frames : /\ SamePage(frames'[j], frames[j])
                        /\ frames'[j].data = frames[j].data
                        /\ frames'[j].pinCount = frames[j].pinCount
  BY <1>1, <1>2, WrittenPages
<1>4. PinsOnly(i)
  BY <1>3, NoPins
<1> QED
  BY <1>1, <1>3, <1>4, WriteBackStore

LEMMA FlushFrameStore ==
  ASSUME PoolInv, PoolInv', NEW outcome, FlushFrame(outcome)
  PROVE  Store!Next
<1>1. PICK i \in ToFlush :
        /\ disk' = [disk EXCEPT ![FlushTarget(i)] =
                      WriteBlock(disk[FlushTarget(i)], frames[i].pageNum,
                                 frames[i].data, outcome).file]
        /\ frames' = [frames EXCEPT ![i].isDirty = FALSE] \/ frames' = frames
  BY DEF FlushFrame
<1>2. /\ i \in Frames /\ FlushTarget(i) = frames[i].tableId
      /\ Evict(i, outcome) = WriteBlock(disk[FlushTarget(i)], frames[i].pageNum,
                                        frames[i].data, outcome)
  BY FlushTargetOK DEF FlushFrame, ToFlush, Evict
<1>3. disk' = [disk EXCEPT ![frames[i].tableId] = Evict(i, outcome).file]
  BY <1>1, <1>2
<1>4. frames \in [Frames -> BufferFrame] /\ \A j \in Frames : SameButRef(frames[j], frames[j])
  BY DEF PoolInv, TypeOK, SameButRef, SamePage
<1>5. \A j \in Frames : /\ SamePage(frames'[j], frames[j])
                        /\ frames'[j].data = frames[j].data
                        /\ frames'[j].pinCount = frames[j].pinCount
  BY <1>1, <1>2, <1>4, WrittenPages
<1>6. PinsOnly(i)
  BY <1>5, NoPins
<1> QED
  BY <1>2, <1>3, <1>5, <1>6, WriteBackStore

LEMMA GetFreeFrameStore ==
  ASSUME PoolInv, PoolInv', NEW s, NEW outcome, GetFreeFrame(s, outcome)
  PROVE  Store!Next
<1>1. frames \in [Frames -> BufferFrame]
  BY DEF PoolInv, TypeOK
<1>2. CASE frames' = Swept(Evictable(s)) /\ UNCHANGED disk
  <2>1. \A j \in Frames : SameButRef(frames'[j], frames[j])
    BY <1>1, <1>2, SweptOK
  <2>2. Later(disk', disk)
    BY <1>2, LaterReflexive, PoolInvParts
  <2>3. \A i : PinsOnly(i)
    BY <2>1, NoPins DEF SameButRef
  <2> QED
    BY <1>2, <2>1, <2>2, <2>3, QuietStore DEF SameButRef
<1>3. CASE \E i \in Frames :
             /\ disk' = [disk EXCEPT ![frames[i].tableId] = Evict(i, outcome).file]
             /\ \/ frames' = [SweptFor(s, i) EXCEPT ![i].isDirty = FALSE]
                \/ frames' = SweptFor(s, i)
  <2>1. PICK i \in Frames :
             /\ disk' = [disk EXCEPT ![frames[i].tableId] = Evict(i, outcome).file]
             /\ \/ frames' = [SweptFor(s, i) EXCEPT ![i].isDirty = FALSE]
                \/ frames' = SweptFor(s, i)
    BY <1>3
  <2>2. /\ SweptFor(s, i) \in [Frames -> BufferFrame]
        /\ \A j \in Frames : SameButRef(SweptFor(s, i)[j], frames[j])
    BY <1>1, SweptForOK
  <2>3. \A j \in Frames : /\ SamePage(frames'[j], frames[j])
                          /\ frames'[j].data = frames[j].data
                          /\ frames'[j].pinCount = frames[j].pinCount
    BY <2>1, <2>2, WrittenPages
  <2>4. PinsOnly(i)
    BY <2>3, NoPins
  <2> QED
    BY <2>1, <2>3, <2>4, WriteBackStore
<1> QED
  BY <1>2, <1>3 DEF GetFreeFrame

LEMMA QuietDiskStore ==
  ASSUME PoolInv, PoolInv', NEW t \in Tables, NEW g, FileOK(g), Follows(g, disk[t]),
         NoNewBlock(g, disk[t]), g.block = disk[t].block,
         disk' = [disk EXCEPT ![t] = g], UNCHANGED frames
  PROVE  Store!Next
<1>1. Later(disk', disk)
  BY UpdateLater, PoolInvParts
<1>2. \A u \in Tables : disk'[u].block = disk[u].block
  BY DEF PoolInv, TypeOK
<1>3. \A j \in Frames : SamePage(frames[j], frames[j])
  BY DEF SamePage
<1>4. \A i : PinsOnly(i)
  BY <1>3, NoPins
<1> QED
  BY <1>1, <1>2, <1>3, <1>4, QuietStore

LEMMA CreateTableStore ==
  ASSUME PoolInv, PoolInv', NEW t \in Tables, NEW outcome, CreateTable(t, outcome)
  PROVE  Store!Next
<1> DEFINE g == CreateFile(disk[t], t = LogTable, outcome).file
<1>1. /\ FileOK(g) /\ Follows(g, disk[t]) /\ g.block = disk[t].block
      /\ g.header = disk[t].header /\ disk[t] \in File
  BY CreateFileOK DEF PoolInv, TypeOK
<1>2. NoNewBlock(g, disk[t])
  BY <1>1 DEF NoNewBlock, File, Header
<1>3. disk' = [disk EXCEPT ![t] = g] /\ UNCHANGED frames
  BY DEF CreateTable
<1> HIDE DEF g
<1> QED
  BY <1>1, <1>2, <1>3, QuietDiskStore

LEMMA ReadDirectlyStore ==
  ASSUME PoolInv, PoolInv', NEW t \in Tables, NEW b \in Blocks, NEW outcome,
         ReadDirectly(t, b, outcome)
  PROVE  Store!Next
<1> DEFINE g == ReadBlock(disk[t], b, Zero, outcome).file
<1>1. /\ FileOK(g) /\ Follows(g, disk[t]) /\ g.block = disk[t].block
      /\ NoNewBlock(g, disk[t])
  BY ReadBlockOK, DiskAssumption DEF PoolInv
<1>2. disk' = [disk EXCEPT ![t] = g] /\ UNCHANGED frames
  BY DEF ReadDirectly
<1> HIDE DEF g
<1> QED
  BY <1>1, <1>2, QuietDiskStore

\* allocBlock hands out a page that reads as zeros, or fails and may lose the
\* last one.
LEMMA AllocStore ==
  ASSUME PoolInv, PoolInv', NEW t \in Tables, NEW outcome, Alloc(t, outcome)
  PROVE  Store!Next
<1> DEFINE g == AllocBlock(disk[t], outcome).file
           n == disk[t].header.usedBlocks
<1>1. /\ FileOK(g) /\ Follows(g, disk[t]) /\ g.block = disk[t].block
      /\ g.header.usedBlocks <= n + 1
  BY AllocBlockOK DEF PoolInv
<1>2. disk' = [disk EXCEPT ![t] = g] /\ UNCHANGED frames /\ HasRoom(disk[t])
  BY DEF Alloc
<1>3. /\ disk \in [Tables -> File] /\ disk[t] \in File /\ g \in File
      /\ n \in Nat /\ g.header.usedBlocks \in Nat /\ FileOK(disk[t])
  BY <1>1 DEF PoolInv, TypeOK, FileOK, File, Header
<1> HIDE DEF g
<1>4. CASE g.header.usedBlocks <= n
  BY <1>1, <1>2, <1>4, QuietDiskStore DEF NoNewBlock
<1>5. CASE g.header.usedBlocks = n + 1
  <2>1. n \in Blocks
    <3>1. CASE disk[t].state = "ready"
      BY <1>2, <1>3, <3>1, DiskAssumption
      DEF FileOK, HeaderOK, HasRoom, Blocks, File, Header
    <3>2. CASE disk[t].state # "ready"
      BY <1>3, <3>2, DiskAssumption DEF FileOK, EmptyOK, EmptyHeader, Blocks
    <3> QED
      BY <3>1, <3>2
  <2>2. <<t, n>> \in Pages
    BY <2>1 DEF Pages
  <2>3. BlockAt(disk, <<t, n>>) = Zero
    <3>1. n >= disk[t].saved.usedBlocks
      BY <1>3 DEF FileOK, BufferedOK, File, Header
    <3> QED
      BY <1>3, <2>1, <3>1 DEF FileOK, FreshOK, BlockAt
  <2>4. \A j \in Frames : ~InFrame(frames[j], <<t, n>>)
    <3>1. SUFFICES ASSUME NEW j \in Frames, InFrame(frames[j], <<t, n>>) PROVE FALSE
      OBVIOUS
    <3>2. n < disk[t].saved.usedBlocks
      BY <2>1, <3>1, PagesAreFrames
      DEF PoolInv, FramesHoldAllocatedPages, FrameOK, InFrame, HoldsPage
    <3> QED
      BY <1>3, <3>2 DEF FileOK, BufferedOK, File, Header
  <2>5. ViewOf(frames, disk)[<<t, n>>] = Zero
    BY <2>2, <2>3, <2>4, ViewUncached
  <2>6. \A u \in Tables : disk'[u].block = disk[u].block
    BY <1>1, <1>2, <1>3
  <2>7. ViewOf(frames', disk') = ViewOf(frames, disk)
    BY <1>2, <2>6 DEF ViewOf, Pages
  <2>8. StableOf(disk') = StableOf(disk)
    BY <2>6 DEF StableOf, Pages
  <2>9. [u \in Tables |-> disk'[u].header.usedBlocks] =
          [[u \in Tables |-> disk[u].header.usedBlocks] EXCEPT ![t] = @ + 1]
    BY <1>2, <1>3, <1>5
  <2>10. Store!Alloc(t)
    <3>1. /\ (StableOf(disk))' = StableOf(disk') /\ (ViewOf(frames, disk))' = ViewOf(frames', disk')
          /\ (HeldOf(frames))' = HeldOf(frames')
      BY DEF StableOf, ViewOf, HeldOf, HoldsPage
    <3> QED
      BY <1>2, <2>1, <2>5, <2>7, <2>8, <2>9, <3>1 DEF Store!Alloc
  <2> QED
    BY <2>10 DEF Store!Next
<1> QED
  BY <1>1, <1>3, <1>4, <1>5

\* A holder's write is the write of the page.
LEMMA ModifyStore ==
  ASSUME PoolInv, PoolInv', NEW i \in Frames, NEW c \in Contents, Modify(i, c)
  PROVE  Store!Next
<1> DEFINE q == <<frames[i].tableId, frames[i].pageNum>>
<1>1. /\ frames \in [Frames -> BufferFrame] /\ frames[i] \in BufferFrame
      /\ frames[i].pageNum # NoPage
      /\ frames[i].pageNum < disk[frames[i].tableId].saved.usedBlocks
      /\ OnePerPage(frames) /\ OnePerPage(frames')
      /\ disk' = disk
  BY PoolInvParts, PoolInvPartsNext DEF Modify, Sound, FrameOK
<1>2. /\ frames' \in [Frames -> BufferFrame] /\ frames'[i].data = c
      /\ \A j \in Frames : SamePage(frames'[j], frames[j])
      /\ \A j \in Frames : j # i => frames'[j] = frames[j]
  BY <1>1, PoolInvPartsNext DEF Modify, SamePage, BufferFrame, Sound
<1>3. q \in Pages /\ q[1] \in Tables /\ q[2] \in Blocks /\ InFrame(frames[i], q)
  BY <1>1 DEF Pages, BufferFrame, InFrame, HoldsPage
<1>4. frames[i].pageNum < disk[frames[i].tableId].header.usedBlocks
  <2>1. FileOK(disk[q[1]])
    BY <1>3 DEF PoolInv
  <2> QED
    BY <1>1, <1>3, <2>1 DEF FileOK, BufferedOK, File, Header, Blocks
<1> HIDE DEF q
<1>5. ASSUME NEW p \in Pages
      PROVE  ViewOf(frames', disk)[p] = IF p = q THEN c ELSE ViewOf(frames, disk)[p]
  <2>1. \A j \in Frames : InFrame(frames'[j], p) <=> InFrame(frames[j], p)
    BY <1>2 DEF InFrame, HoldsPage, SamePage
  <2>2. CASE p = q
    BY <1>1, <1>2, <1>3, <2>1, <2>2, ViewCached
  <2>3. CASE p # q
    <3>1. ~InFrame(frames[i], p)
      <4>1. p = <<p[1], p[2]>>
        BY DEF Pages
      <4> QED
        BY <2>3, <4>1 DEF InFrame, HoldsPage, q
    <3>2. CASE \E j \in Frames : InFrame(frames[j], p)
      BY <1>1, <1>2, <2>1, <2>3, <3>1, <3>2, ViewCached
    <3>3. CASE \A j \in Frames : ~InFrame(frames[j], p)
      BY <2>1, <2>3, <3>3, ViewUncached
    <3> QED
      BY <3>2, <3>3
  <2> QED
    BY <2>2, <2>3
<1>6. ViewOf(frames', disk) = [ViewOf(frames, disk) EXCEPT ![q] = c]
  <2>1. /\ ViewOf(frames', disk) = [p \in Pages |-> ViewOf(frames', disk)[p]]
        /\ ViewOf(frames, disk) = [p \in Pages |-> ViewOf(frames, disk)[p]]
    BY DEF ViewOf
  <2> QED
    BY <1>3, <1>5, <2>1
<1>7. HeldOf(frames') = HeldOf(frames) /\ q \in HeldOf(frames)
  <2>1. \A j \in Frames : frames'[j].pinCount = frames[j].pinCount
    BY <1>1 DEF Modify, BufferFrame
  <2>2. frames[i].pinCount > 0
    BY DEF Modify
  <2> QED
    BY <1>2, <1>3, <2>1, <2>2 DEF HeldOf, InFrame, HoldsPage, SamePage
<1>8. Store!Write(q, c)
  <2>1. /\ (StableOf(disk))' = StableOf(disk') /\ (ViewOf(frames, disk))' = ViewOf(frames', disk')
        /\ (HeldOf(frames))' = HeldOf(frames')
    BY DEF StableOf, ViewOf, HeldOf, HoldsPage
  <2> QED
    BY <1>1, <1>6, <1>7, <2>1 DEF Store!Write
<1> QED
  BY <1>3, <1>8 DEF Store!Next, Store!Pages, Pages

\* A victim's page is in its block when its frame is given away.
LEMMA VictimStored ==
  ASSUME PoolInv, CleanFramesMatchDisk, NEW i \in Frames, frames[i].pinCount = 0,
         NEW outcome, Evict(i, outcome).rc = "OK", NEW p \in Pages, InFrame(frames[i], p)
  PROVE  LET d2 == [disk EXCEPT ![frames[i].tableId] = Evict(i, outcome).file]
         IN  BlockAt(d2, p) = frames[i].data
<1> DEFINE d2 == [disk EXCEPT ![frames[i].tableId] = Evict(i, outcome).file]
<1>1. /\ p[1] = frames[i].tableId /\ p[2] = frames[i].pageNum
      /\ frames[i].pageNum # NoPage /\ i \notin unmarked
  BY PagesAreFrames DEF InFrame, HoldsPage, Pages, PoolInv
<1>2. BlockOf(frames[i], d2) = frames[i].data
  <2>1. CASE frames[i].isDirty
    BY <2>1, EvictBlocks
  <2>2. CASE ~frames[i].isDirty
    <3>1. BlockOf(frames[i], d2) = BlockOf(frames[i], disk)
      BY <1>1, <2>2, EvictBlocks
    <3> HIDE DEF d2
    <3> QED
      BY <1>1, <2>2, <3>1 DEF CleanFramesMatchDisk, CleanMatches, BlockOf
  <2> QED
    BY <2>1, <2>2
<1> QED
  BY <1>1, <1>2 DEF BlockOf, BlockAt

LEMMA GetPageMissStore ==
  ASSUME PoolInv, PoolInv', CleanFramesMatchDisk, NEW t \in Tables, NEW b \in Blocks,
         NEW w, NEW r, r # "read", GetPageMiss(t, b, w, r)
  PROVE  Store!Next
<1> DEFINE fr(i)    == SweptFor(SpaceOf(t), i)
           e(i)     == Evict(i, w)
           disk1(i) == [disk EXCEPT ![frames[i].tableId] = e(i).file]
           read(i)  == ReadBlock(disk1(i)[t], b, frames[i].data, r)
           disk2(i) == [disk1(i) EXCEPT ![t] = read(i).file]
           loaded(i) == LoadedFrame(frames[i], t, b, read(i))
           q        == <<t, b>>
<1>1. PICK i \in Frames :
        /\ CanUse(SpaceOf(t), i)
        /\ \/ frames' = fr(i) /\ disk' = disk1(i)
           \/ /\ e(i).rc = "OK" /\ disk' = disk2(i)
              /\ frames' = [fr(i) EXCEPT ![i] = loaded(i)]
  BY GetPageMissSteps
<1>2. /\ frames \in [Frames -> BufferFrame] /\ frames[i] \in BufferFrame
      /\ frames[i].tableId \in Tables /\ frames[i].data \in Contents
      /\ frames[i].pinCount = 0 /\ WellFormed(disk)
      /\ OnePerPage(frames) /\ OnePerPage(frames')
  BY <1>1, CanUseOK, PoolInvParts, PoolInvPartsNext DEF Sound, BufferFrame
<1>3. /\ fr(i) \in [Frames -> BufferFrame]
      /\ \A j \in Frames : SameButRef(fr(i)[j], frames[j])
  BY <1>2, SweptForOK
<1>4. CASE frames' = fr(i) /\ disk' = disk1(i)
  <2>1. \A j \in Frames : SameButRef(frames'[j], frames[j])
    BY <1>3, <1>4
  <2>2. PinsOnly(i)
    BY <2>1, NoPins DEF SameButRef
  <2> QED
    BY <1>4, <2>1, <2>2, WriteBackStore DEF SameButRef
<1>5. Later(disk1(i), disk) /\ WellFormed(disk1(i)) /\ disk1(i) \in [Tables -> File]
  <2>1. /\ FileOK(e(i).file) /\ Follows(e(i).file, disk[frames[i].tableId])
        /\ NoNewBlock(e(i).file, disk[frames[i].tableId])
    BY EvictOK, PoolInvParts
  <2> HIDE DEF e
  <2> QED
    BY <1>2, <2>1, UpdateLater DEF Later, Grows, WellFormed
<1>6. /\ \A p \in Pages : ~InFrame(frames[i], p) => BlockAt(disk1(i), p) = BlockAt(disk, p)
      /\ \A p \in Pages : BlockAt(disk1(i), p) \in {BlockAt(disk, p), ViewOf(frames, disk)[p]}
  BY WriteBackView
<1>7. e(i).rc = "OK" =>
        \A p \in Pages : InFrame(frames[i], p) => BlockAt(disk1(i), p) = frames[i].data
  BY <1>2, VictimStored
<1> HIDE DEF disk1
<1>8. /\ FileOK(read(i).file) /\ Follows(read(i).file, disk1(i)[t])
      /\ NoNewBlock(read(i).file, disk1(i)[t])
      /\ read(i).file.block = disk1(i)[t].block
      /\ read(i).rc = "OK" => read(i).data = disk1(i)[t].block[b]
      /\ read(i).rc # "OK" => read(i).data = frames[i].data
      /\ read(i).data \in Contents
  BY <1>2, <1>5, ReadBlockOK DEF WellFormed
<1>9. /\ loaded(i) \in BufferFrame
      /\ loaded(i).data = read(i).data
      /\ read(i).rc = "OK" => HoldsPage(loaded(i), t, b)
      /\ read(i).rc # "OK" => SamePage(loaded(i), frames[i])
  BY <1>2, <1>8, LoadedFrameOK
<1> HIDE DEF read, fr, e, loaded
<1>10. Later(disk2(i), disk)
  BY <1>2, <1>5, <1>8, UpdateLater, LaterTransitive
<1>11. \A p \in Pages : BlockAt(disk2(i), p) = BlockAt(disk1(i), p)
  BY <1>5, <1>8 DEF BlockAt, Pages
<1> HIDE DEF disk2
<1>12. \A j \in Frames : ~InFrame(frames[j], q)
  BY DEF GetPageMiss, Cached, Holds, InFrame
<1>13. q \in Pages /\ q[1] = t /\ q[2] = b
  BY DEF Pages
<1>14. CASE e(i).rc = "OK" /\ disk' = disk2(i) /\ frames' = [fr(i) EXCEPT ![i] = loaded(i)]
  <2>1. /\ frames'[i] = loaded(i)
        /\ \A j \in Frames : j # i => SameButRef(frames'[j], frames[j])
    BY <1>3, <1>9, <1>14
  <2>2. \A p \in Pages : BlockAt(disk', p) \in {BlockAt(disk, p), ViewOf(frames, disk)[p]}
    BY <1>6, <1>11, <1>14
  <2>3. ViewOf(frames', disk') = ViewOf(frames, disk)
    <3>1. CASE read(i).rc # "OK"
      <4>1. \A j \in Frames : SamePage(frames'[j], frames[j]) /\ frames'[j].data = frames[j].data
        BY <1>8, <1>9, <2>1, <3>1 DEF SameButRef
      <4>2. \A p \in Pages : (\A j \in Frames : ~InFrame(frames[j], p)) =>
                               BlockAt(disk', p) = BlockAt(disk, p)
        BY <1>6, <1>11, <1>14
      <4> QED
        BY <4>1, <4>2, ViewKept
    <3>2. CASE read(i).rc = "OK"
      <4>1. ASSUME NEW p \in Pages
            PROVE  ViewOf(frames', disk')[p] = ViewOf(frames, disk)[p]
        <5>1. BlockAt(disk', p) = BlockAt(disk1(i), p)
          BY <1>11, <1>14
        <5>2. InFrame(frames'[i], p) <=> p = q
          <6>1. p = <<p[1], p[2]>>
            BY DEF Pages
          <6> QED
            BY <1>9, <2>1, <3>2, <6>1 DEF InFrame, HoldsPage
        <5>3. \A j \in Frames : j # i =>
                /\ InFrame(frames'[j], p) <=> InFrame(frames[j], p)
                /\ frames'[j].data = frames[j].data
          BY <2>1 DEF SameButRef, SamePage, InFrame, HoldsPage
        <5>4. CASE p = q
          <6>1. ViewOf(frames', disk')[p] = read(i).data
            BY <1>2, <1>9, <2>1, <5>2, <5>4, ViewCached
          <6>2. ViewOf(frames, disk)[p] = BlockAt(disk, p)
            BY <1>12, <5>4, ViewUncached
          <6>3. BlockAt(disk1(i), p) = BlockAt(disk, p)
            BY <1>6, <1>12, <5>4
          <6>4. read(i).data = BlockAt(disk1(i), p)
            BY <1>8, <1>13, <3>2, <5>4 DEF BlockAt
          <6> QED
            BY <6>1, <6>2, <6>3, <6>4
        <5>5. CASE InFrame(frames[i], p)
          <6>1. \A j \in Frames : j # i => ~InFrame(frames[j], p)
            BY <1>2, <5>5, PagesAreFrames DEF OnePerPage, InFrame, HoldsPage, Pages
          <6>2. p # q
            BY <1>12, <5>5
          <6>3. ViewOf(frames', disk')[p] = BlockAt(disk', p)
            BY <5>2, <5>3, <6>1, <6>2, ViewUncached
          <6>4. ViewOf(frames, disk)[p] = frames[i].data
            BY <1>2, <5>5, ViewCached
          <6> QED
            BY <1>7, <1>14, <5>1, <5>5, <6>3, <6>4
        <5>6. CASE \E j \in Frames : j # i /\ InFrame(frames[j], p)
          BY <1>2, <5>3, <5>6, ViewCached
        <5>7. CASE p # q /\ \A j \in Frames : ~InFrame(frames[j], p)
          <6>1. ViewOf(frames', disk')[p] = BlockAt(disk', p)
            BY <5>2, <5>3, <5>7, ViewUncached
          <6>2. ViewOf(frames, disk)[p] = BlockAt(disk, p)
            BY <5>7, ViewUncached
          <6> QED
            BY <1>6, <5>1, <5>7, <6>1, <6>2
        <5> QED
          BY <5>4, <5>5, <5>6, <5>7
      <4> QED
        BY <4>1, ViewEqual
    <3> QED
      BY <3>1, <3>2
  <2>4. Later(disk', disk)
    BY <1>10, <1>14
  <2>5. PinsOnly(i)
    BY <2>1 DEF PinsOnly, SameButRef
  <2> QED
    BY <2>2, <2>3, <2>4, <2>5, SettleStep
<1> QED
  BY <1>1, <1>4, <1>14

\* The end of a process, whether it crashes or closes its files.
LEMMA RestartStore ==
  ASSUME PoolInv, NEW files, Restart(files), Later(files, disk),
         \A t \in Tables : files[t].block = disk[t].block
  PROVE  Store!Next
<1>1. disk' = files /\ \A j \in Frames : frames'[j].pageNum = NoPage
  BY DEF Restart, EmptyFrame
<1>2. Store!MayLose
  BY <1>1, GivenUpPages DEF Later
<1>3. ViewOf(frames', disk') = StableOf(disk')
  <2>1. ASSUME NEW p \in Pages
        PROVE  ViewOf(frames', disk')[p] = BlockAt(disk', p)
    <3>1. \A j \in Frames : ~InFrame(frames'[j], p)
      BY <1>1, PagesAreFrames DEF InFrame, HoldsPage, Pages
    <3> QED
      BY <3>1, ViewUncached
  <2>2. ViewOf(frames', disk') = [p \in Pages |-> ViewOf(frames', disk')[p]]
    BY DEF ViewOf
  <2> QED
    BY <2>1, <2>2 DEF StableOf, BlockAt
<1>4. StableOf(disk') = StableOf(disk)
  BY <1>1 DEF StableOf, Pages
<1>5. HeldOf(frames') = {}
  BY <1>1, PagesAreFrames DEF HeldOf, HoldsPage, Pages
<1>6. Store!Crash
  <2>1. /\ (StableOf(disk))' = StableOf(disk') /\ (ViewOf(frames, disk))' = ViewOf(frames', disk')
        /\ (HeldOf(frames))' = HeldOf(frames')
    BY DEF StableOf, ViewOf, HeldOf, HoldsPage
  <2> QED
    BY <1>2, <1>3, <1>4, <1>5, <2>1 DEF Store!Crash
<1> QED
  BY <1>6 DEF Store!Next

LEMMA StopStore ==
  ASSUME PoolInv, Crash \/ Exit
  PROVE  Store!Next
<1> DEFINE crashed == [t \in Tables |-> Abandon(disk[t])]
           closed  == [t \in Tables |-> CloseTableFile(disk[t]).file]
<1>1. ASSUME NEW t \in Tables
      PROVE  /\ FileOK(crashed[t]) /\ Follows(crashed[t], disk[t])
             /\ NoNewBlock(crashed[t], disk[t]) /\ crashed[t].block = disk[t].block
             /\ FileOK(closed[t]) /\ Follows(closed[t], disk[t])
             /\ NoNewBlock(closed[t], disk[t]) /\ closed[t].block = disk[t].block
  <2>1. FileOK(disk[t]) /\ disk[t] \in File
    BY DEF PoolInv, TypeOK
  <2>2. \A g : g.header = disk[t].header => NoNewBlock(g, disk[t])
    BY <2>1 DEF NoNewBlock, File, Header
  <2> QED
    BY <2>1, <2>2, AbandonFileOK, CloseFileOK
<1> HIDE DEF crashed, closed
<1>2. ASSUME NEW files, DOMAIN files = Tables, files = [t \in Tables |-> files[t]],
             \A t \in Tables : FileOK(files[t]) /\ Follows(files[t], disk[t])
                               /\ NoNewBlock(files[t], disk[t])
      PROVE  Later(files, disk)
  <2>1. files \in [Tables -> File]
    BY <1>2 DEF FileOK
  <2> QED
    BY <1>2, <2>1 DEF Later, Grows, Keeps, Follows
<1>3. Later(crashed, disk) /\ Later(closed, disk)
  BY <1>1, <1>2 DEF crashed, closed
<1>4. CASE Crash
  <2>1. Restart(crashed)
    BY <1>4 DEF Crash, crashed
  <2> QED
    BY <1>1, <1>3, <2>1, RestartStore
<1>5. CASE Exit
  <2>1. Restart(closed)
    BY <1>5 DEF Exit, closed
  <2> QED
    BY <1>1, <1>3, <2>1, RestartStore
<1> QED
  BY <1>4, <1>5

LEMMA InitStore == Init => Store!Init
<1> SUFFICES ASSUME Init PROVE Store!Init
  OBVIOUS
<1>1. \A p \in Pages : BlockAt(disk, p) = Zero
  BY DEF Init, MissingFile, Pages, BlockAt
<1>2. \A p \in Pages, j \in Frames : ~InFrame(frames[j], p)
  BY PagesAreFrames DEF Init, EmptyFrame, InFrame, HoldsPage, Pages
<1>3. \A p \in Pages : ViewOf(frames, disk)[p] = Zero
  BY <1>1, <1>2, ViewUncached
<1>4. ViewOf(frames, disk) = [p \in Store!Pages |-> Zero]
  <2>1. ViewOf(frames, disk) = [p \in Pages |-> ViewOf(frames, disk)[p]]
    BY DEF ViewOf
  <2> QED
    BY <1>3, <2>1 DEF Store!Pages, Pages
<1>5. StableOf(disk) = [p \in Store!Pages |-> Zero]
  BY <1>1 DEF StableOf, BlockAt, Store!Pages, Pages
<1>6. [t \in Tables |-> disk[t].header.usedBlocks] = [t \in Tables |-> 0]
  BY DEF Init, MissingFile, EmptyHeader
<1>7. HeldOf(frames) = {}
  BY PagesAreFrames DEF Init, EmptyFrame, HeldOf, HoldsPage, Pages
<1> QED
  BY <1>4, <1>5, <1>6, <1>7 DEF Store!Init

LEMMA NextStore ==
  ASSUME "read" \notin Faults, PoolInv, PoolInv', CleanFramesMatchDisk, [Next]_vars
  PROVE  [Store!Next]_Store!vars
<1>1. CASE UNCHANGED vars
  BY <1>1 DEF vars, Store!vars, ViewOf, StableOf, HeldOf, HoldsPage
<1>2. ASSUME NEW t \in Tables, NEW o, CreateTable(t, o) PROVE Store!Next
  BY <1>2, CreateTableStore
<1>3. ASSUME NEW t \in Tables, NEW o, Alloc(t, o) PROVE Store!Next
  BY <1>3, AllocStore
<1>4. ASSUME NEW t \in Tables, NEW b \in Blocks, NEW o, ReadDirectly(t, b, o)
      PROVE  Store!Next
  BY <1>4, ReadDirectlyStore
<1>5. ASSUME NEW t, NEW b, GetPageHit(t, b) PROVE Store!Next
  BY <1>5, GetPageHitStore
<1>6. ASSUME NEW t, NEW b, GetPageRefused(t, b) PROVE Store!Next
  BY <1>6, GetPageRefusedStore
<1>7. ASSUME NEW t \in Tables, NEW b \in Blocks, NEW w, NEW r \in ReadOutcomes,
             GetPageMiss(t, b, w, r)
      PROVE  Store!Next
  <2>1. r # "read"
    BY DEF ReadOutcomes, Outcomes
  <2> QED
    BY <1>7, <2>1, GetPageMissStore
<1>8. ASSUME NEW t, NEW b, MarkDirty(t, b) PROVE Store!Next
  BY <1>8, MarkDirtyStore
<1>9. ASSUME NEW t, NEW b, ReleasePage(t, b) PROVE Store!Next
  BY <1>9, ReleasePageStore
<1>10. ASSUME NEW t, NEW b, NEW o, FlushPage(t, b, o) PROVE Store!Next
  BY <1>10, FlushPageStore
<1>11. ASSUME NEW i \in Frames, NEW c \in Contents, Modify(i, c) PROVE Store!Next
  BY <1>11, ModifyStore
<1>12. ASSUME NEW s, NEW o, GetFreeFrame(s, o) PROVE Store!Next
  BY <1>12, GetFreeFrameStore
<1>13. ASSUME NEW o, FlushFrame(o) PROVE Store!Next
  BY <1>13, FlushFrameStore
<1>14. ASSUME FlushAllPages \/ FlushSpaceDone \/ \E s \in Spaces : FlushSpace(s)
       PROVE  UNCHANGED Store!vars
  <2>1. UNCHANGED <<frames, disk>>
    BY <1>14 DEF FlushAllPages, FlushSpaceDone, FlushSpace
  <2> QED
    BY <2>1 DEF Store!vars, ViewOf, StableOf, HeldOf, HoldsPage
<1>15. ASSUME Crash \/ Exit PROVE Store!Next
  BY <1>15, StopStore
<1> QED
  BY <1>1, <1>2, <1>3, <1>4, <1>5, <1>6, <1>7, <1>8, <1>9, <1>10, <1>11, <1>12,
     <1>13, <1>14, <1>15 DEF Next

\* The pool over its files implements the page store, whatever writes fail and
\* wherever the process dies, when no read of a block fails: a page changes only
\* by its holder's write, and a crash takes it back to its last complete write
\* (mem_manager.cpp, disk_manager.cpp).
THEOREM Refinement == "read" \notin Faults => (Spec => ImplementsStore)
<1> SUFFICES ASSUME "read" \notin Faults PROVE Spec => ImplementsStore
  OBVIOUS
<1>1. Init => IInv
  <2>1. ASSUME Init PROVE CleanFramesMatchDisk
    BY <2>1 DEF Init, EmptyFrame, CleanFramesMatchDisk, CleanMatches
  <2> QED
    BY <2>1, InitPoolInv DEF IInv
<1>2. IInv /\ [Next]_vars => IInv'
  BY NextPoolInv, NextCoherent DEF IInv
<1>3. IInv /\ [Next]_vars => [Store!Next]_Store!vars
  BY NextPoolInv, NextStore DEF IInv
<1> QED
  BY <1>1, <1>2, <1>3, InitStore, PTL DEF Spec, ImplementsStore, Store!Spec

=============================================================================
