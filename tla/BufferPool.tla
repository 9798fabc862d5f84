----------------------------- MODULE BufferPool -----------------------------
(***************************************************************************)
(* The buffer pool (src/src/mem_manager.cpp) over the disk manager: frames *)
(* in four fixed partitions, pins, dirty marks, the CLOCK replacement and  *)
(* the flushing of a partition, as the managers above it use them.         *)
(*                                                                         *)
(* The callers are part of the model as far as the pool depends on them:   *)
(* they change a page only while they hold it, call markDirty for what     *)
(* they changed before they release it, and always ask for a table's pages *)
(* in the same partition.  Calls do not overlap (one thread), but the      *)
(* process may die between any two disk writes, the writes of a flush      *)
(* included, so flushSpace and flushAllPages take one step per write.      *)
(*                                                                         *)
(* Not modelled: frames are valid from the start and for ever, so isValid  *)
(* (mem_manager.h:13) is not a variable.                                   *)
(* Bounds: MaxBlocks (DiskManager), MaxPins pins of a frame.               *)
(***************************************************************************)
EXTENDS DiskManager, Sequences

CONSTANTS
    LogTable,    \* LOG_TABLE_ID
    DictTables,  \* DICT_TABLE_ID, INDEX_META_TABLE_ID
    PlanFrames, DictFrames, DataFrames, LogFrames,  \* sizes of the partitions
    MaxPins

ASSUME PoolAssumption ==
    /\ LogTable \in Tables
    /\ DictTables \subseteq Tables \ {LogTable}
    /\ PlanFrames \in Nat /\ DictFrames \in Nat
    /\ DataFrames \in Nat /\ LogFrames \in Nat
    /\ PlanFrames + DictFrames + DataFrames + LogFrames > 0
    /\ MaxPins \in Nat \ {0}

NumFrames == PlanFrames + DictFrames + DataFrames + LogFrames
Frames    == 0 .. NumFrames - 1
Spaces    == {"PLAN", "DICT", "DATA", "LOG"}
Pages     == Tables \X Blocks
NoPage    == -1

\* The partition of frame i, fixed by MemManager::init.
Partition(i) ==
    IF i < PlanFrames THEN "PLAN"
    ELSE IF i < PlanFrames + DictFrames THEN "DICT"
    ELSE IF i < PlanFrames + DictFrames + DataFrames THEN "DATA"
    ELSE "LOG"

\* The partition every caller names for the pages of table t.
SpaceOf(t) ==
    IF t = LogTable THEN "LOG" ELSE IF t \in DictTables THEN "DICT" ELSE "DATA"

BufferFrame == [tableId   : Tables,
                pageNum   : Blocks \union {NoPage},
                data      : Contents,
                isDirty   : BOOLEAN,
                refBit    : BOOLEAN,
                spaceType : Spaces,
                pinCount  : Nat]

\* A frame after init; -1, its first tableId, is the id of the log table.
EmptyFrame(i) == [tableId   |-> LogTable,
                  pageNum   |-> NoPage,
                  data      |-> Zero,
                  isDirty   |-> FALSE,
                  refBit    |-> FALSE,
                  spaceType |-> Partition(i),
                  pinCount  |-> 0]

VARIABLES
    frames,     \* frames_
    clockHand,  \* clockHand_
    disk,       \* the files of the disk manager
    flush,      \* the partitions a flush has yet to do, the next frame index
                \* of the first one, and the call it serves
    \* The following only observe the callers.
    unmarked,   \* frames a caller changed and has yet to call markDirty for
    last        \* the last call that ended: its name, partition, return code

vars == <<frames, clockHand, disk, flush, unmarked, last>>

Idle == [todo |-> <<>>, next |-> 0, call |-> "other"]
Quiet == flush.todo = <<>>

Calls == {"getPage", "flushSpace", "flushAllPages", "other"}
ReturnCodes == {"OK", "BUFFER_FULL", "PAGE_NOT_FOUND", "FILE_NOT_FOUND", "INVALID_BLOCK"}
Other == [call |-> "other", space |-> "PLAN", rc |-> "OK"]

Init ==
    /\ frames    = [i \in Frames |-> EmptyFrame(i)]
    /\ clockHand = 0
    /\ disk      = [t \in Tables |-> MissingFile]
    /\ flush     = Idle
    /\ unmarked  = {}
    /\ last      = Other

-----------------------------------------------------------------------------
\* findFrame, and the search for a hit in getPage: the first match.
HoldsPage(fr, t, b) == fr.tableId = t /\ fr.pageNum = b
Holds(i, t, b) == HoldsPage(frames[i], t, b)
\* Mutant: a page whose reference bit the clock has cleared is not looked for.
Cached_Referenced(t, b) == \E i \in Frames : Holds(i, t, b) /\ frames[i].refBit

Cached(t, b) == \E i \in Frames : Holds(i, t, b)
FoundFrame(i, t, b) ==
    /\ i \in Frames
    /\ Holds(i, t, b)
    /\ \A j \in Frames : Holds(j, t, b) => i <= j

\* Mutant: the pins are not looked at.
Evictable_Pinned(s) == {i \in Frames : frames[i].spaceType = s}

Evictable(s) == {i \in Frames : frames[i].spaceType = s /\ frames[i].pinCount = 0}

\* findFreeFrame: the first frame of the partition that never held a page.
Unused(s) == {i \in Evictable(s) : frames[i].pageNum = NoPage}
FreeFrame(s, i) == i \in Unused(s) /\ \A j \in Unused(s) : i <= j

\* The position of frame i in a sweep that starts at the clock hand.
Distance(i) == (i - clockHand + NumFrames) % NumFrames
\* Mutant: the hand does not wrap around.
NextFrame_NoWrap(i) == i + 1

NextFrame(i) == (i + 1) % NumFrames

\* clockReplace, when it finds a victim: the nearest evictable frame whose
\* reference bit is clear.
Unreferenced(s) == {i \in Evictable(s) : ~frames[i].refBit}
Victim(s, i) == i \in Unreferenced(s) /\ \A j \in Unreferenced(s) : Distance(i) <= Distance(j)

\* Mutant: a full sweep leaves the reference bits alone.
Swept_Nothing(S) == frames

\* The frames when clockReplace has swept the evictable frames in S.
Swept(S) == [i \in Frames |-> IF i \in S THEN [frames[i] EXCEPT !.refBit = FALSE]
                                         ELSE frames[i]]
Passed(s, i) == {j \in Evictable(s) : Distance(j) < Distance(i)}

\* The frame a miss in partition s may use, and the frames and the clock hand
\* once it is found.
CanUse(s, i) == IF Unused(s) # {} THEN FreeFrame(s, i) ELSE Victim(s, i)
SweptFor(s, i) == IF Unused(s) # {} THEN frames ELSE Swept(Passed(s, i))
HandFor(s, i) == IF Unused(s) # {} THEN clockHand ELSE NextFrame(i)

\* No frame of the partition can be had.
Exhausted(s) == Unused(s) = {} /\ Unreferenced(s) = {}

Returns(call, s, rc) == last' = [call |-> call, space |-> s, rc |-> rc]

-----------------------------------------------------------------------------
\* getPage: the page is in the pool.
GetPageHit(t, b) ==
    /\ Quiet
    /\ \E i \in Frames :
        /\ FoundFrame(i, t, b)
        /\ frames[i].pinCount < MaxPins
        /\ frames' = [frames EXCEPT ![i].pinCount = @ + 1, ![i].refBit = TRUE]
    /\ Returns("getPage", SpaceOf(t), "OK")
    /\ UNCHANGED <<clockHand, disk, flush, unmarked>>

\* getPage: a full sweep of the clock finds no victim.  It has cleared the
\* reference bit of every frame it could have evicted, and the hand is back
\* where it was.
GetPageRefused(t, b) ==
    /\ Quiet
    /\ ~Cached(t, b)
    /\ Exhausted(SpaceOf(t))
    /\ frames' = Swept(Evictable(SpaceOf(t)))
    /\ Returns("getPage", SpaceOf(t), "BUFFER_FULL")
    /\ UNCHANGED <<clockHand, disk, flush, unmarked>>

\* Mutant: the victim is not written back.
Evict_NoWrite(i, outcome) == [rc |-> "OK", file |-> disk[frames[i].tableId]]

\* The write of a dirty victim to its own table.
Evict(i, outcome) ==
    LET v == frames[i]
    IN  IF v.isDirty THEN WriteBlock(disk[v.tableId], v.pageNum, v.data, outcome)
                     ELSE [rc |-> "OK", file |-> disk[v.tableId]]

\* Mutant: the frame is given its new page before the read has succeeded.
LoadedFrame_Early(victim, t, b, read) ==
    [victim EXCEPT !.tableId = t, !.pageNum = b, !.data = read.data,
                   !.isDirty = FALSE, !.spaceType = SpaceOf(t),
                   !.pinCount = IF read.rc = "OK" THEN 1 ELSE 0, !.refBit = TRUE]

\* The frame once the page is read into it, or the read has failed: then it
\* still is the victim's, and clean.
LoadedFrame(victim, t, b, read) ==
    IF read.rc = "OK"
    THEN [victim EXCEPT !.tableId = t, !.pageNum = b, !.data = read.data,
                        !.isDirty = FALSE, !.spaceType = SpaceOf(t),
                        !.pinCount = 1, !.refBit = TRUE]
    ELSE [victim EXCEPT !.data = read.data, !.isDirty = FALSE]

\* getPage: a frame is found, its page evicted, the new page read into it.
GetPageMiss(t, b, wOutcome, rOutcome) ==
    /\ Quiet
    /\ ~Cached(t, b)
    /\ ~Exhausted(SpaceOf(t))
    /\ \E i \in Frames :
        LET s       == SpaceOf(t)
            evicted == Evict(i, wOutcome)
            disk1   == [disk EXCEPT ![frames[i].tableId] = evicted.file]
            read    == ReadBlock(disk1[t], b, frames[i].data, rOutcome)
        IN  /\ CanUse(s, i)
            /\ clockHand' = HandFor(s, i)
            /\ IF evicted.rc # "OK"
               THEN /\ frames' = SweptFor(s, i)
                    /\ disk' = disk1
                    /\ Returns("getPage", s, evicted.rc)
               ELSE /\ frames' = [SweptFor(s, i) EXCEPT
                                   ![i] = LoadedFrame(frames[i], t, b, read)]
                    /\ disk' = [disk1 EXCEPT ![t] = read.file]
                    /\ Returns("getPage", s, IF read.rc = "BLOCK_NOT_FOUND"
                                             THEN "PAGE_NOT_FOUND" ELSE read.rc)
    /\ UNCHANGED <<flush, unmarked>>

\* A caller that holds a page writes into frame->data.
Modify(i, c) ==
    /\ Quiet
    /\ frames[i].pinCount > 0
    /\ frames' = [frames EXCEPT ![i].data = c]
    /\ unmarked' = unmarked \union {i}
    /\ last' = Other
    /\ UNCHANGED <<clockHand, disk, flush>>

\* markDirty, called by a holder of the page.
MarkDirty(t, b) ==
    /\ Quiet
    /\ \E i \in Frames :
        /\ FoundFrame(i, t, b)
        /\ frames[i].pinCount > 0
        /\ frames' = [frames EXCEPT ![i].isDirty = TRUE]
        /\ unmarked' = unmarked \ {i}
    /\ last' = Other
    /\ UNCHANGED <<clockHand, disk, flush>>

\* releasePage.  Callers call markDirty before they let go of what they changed.
ReleasePage(t, b) ==
    /\ Quiet
    /\ \E i \in Frames :
        /\ FoundFrame(i, t, b)
        /\ i \notin unmarked
        /\ frames' = [frames EXCEPT ![i].pinCount = IF @ > 0 THEN @ - 1 ELSE @]
    /\ last' = Other
    /\ UNCHANGED <<clockHand, disk, flush, unmarked>>

\* flushPage
FlushPage(t, b, outcome) ==
    /\ Quiet
    /\ \E i \in Frames :
        /\ FoundFrame(i, t, b)
        /\ LET w == Evict(i, outcome)
           IN  /\ disk' = [disk EXCEPT ![frames[i].tableId] = w.file]
               /\ frames' = IF w.rc = "OK" THEN [frames EXCEPT ![i].isDirty = FALSE]
                                           ELSE frames
    /\ last' = Other
    /\ UNCHANGED <<clockHand, flush, unmarked>>

\* getFreeFrame: hands out a frame without taking its page or a pin; a dirty
\* page is flushed first, and the outcome of that is ignored.
GetFreeFrame(s, outcome) ==
    /\ Quiet
    /\ \/ /\ Exhausted(s)
          /\ frames' = Swept(Evictable(s))
          /\ UNCHANGED <<clockHand, disk>>
       \/ \E i \in Frames :
          /\ ~Exhausted(s)
          /\ CanUse(s, i)
          /\ clockHand' = HandFor(s, i)
          /\ LET w == Evict(i, outcome)
             IN  /\ disk' = [disk EXCEPT ![frames[i].tableId] = w.file]
                 /\ frames' = IF w.rc = "OK"
                              THEN [SweptFor(s, i) EXCEPT ![i].isDirty = FALSE]
                              ELSE SweptFor(s, i)
    /\ last' = Other
    /\ UNCHANGED <<flush, unmarked>>

-----------------------------------------------------------------------------
\* flushSpace, called for one partition; nothing to do for PLAN_SPACE.
FlushSpace(s) ==
    /\ Quiet
    /\ flush' = [todo |-> IF s = "PLAN" THEN <<>> ELSE <<s>>, next |-> 0,
                 call |-> "flushSpace"]
    /\ last' = Other
    /\ UNCHANGED <<frames, clockHand, disk, unmarked>>

\* flushAllPages: three partitions in turn.
FlushAllPages ==
    /\ Quiet
    /\ flush' = [todo |-> <<"DICT", "DATA", "LOG">>, next |-> 0,
                 call |-> "flushAllPages"]
    /\ last' = Other
    /\ UNCHANGED <<frames, clockHand, disk, unmarked>>

\* The dirty frames the loop of flushSpace has yet to come to.
ToFlush == {i \in Frames : /\ i >= flush.next
                           /\ frames[i].isDirty
                           /\ frames[i].spaceType = Head(flush.todo)}

\* The table flushSpace writes the page of frame i to.
FlushTarget(i) ==
    IF Head(flush.todo) = "LOG" THEN LogTable ELSE frames[i].tableId

\* Mutant: flushAllPages ends at the first error of a partition.
EndOfSpace_GivesUp(rc) ==
    /\ flush' = IF Len(flush.todo) = 1 \/ rc # "OK" THEN Idle
                ELSE [flush EXCEPT !.todo = Tail(@), !.next = 0]
    /\ IF Len(flush.todo) = 1 \/ rc # "OK"
       THEN Returns(flush.call, Head(flush.todo),
                    IF flush.call = "flushAllPages" THEN "OK" ELSE rc)
       ELSE UNCHANGED last

\* The loop leaves a partition at its end or at the first error, which
\* flushAllPages ignores.
EndOfSpace(rc) ==
    /\ flush' = IF Len(flush.todo) = 1 THEN Idle
                ELSE [flush EXCEPT !.todo = Tail(@), !.next = 0]
    /\ IF Len(flush.todo) = 1
       THEN Returns(flush.call, Head(flush.todo),
                    IF flush.call = "flushAllPages" THEN "OK" ELSE rc)
       ELSE UNCHANGED last

FlushFrame(outcome) ==
    /\ ~Quiet
    /\ \E i \in ToFlush :
        LET t == FlushTarget(i)
            w == WriteBlock(disk[t], frames[i].pageNum, frames[i].data, outcome)
        IN  /\ \A j \in ToFlush : i <= j
            /\ disk' = [disk EXCEPT ![t] = w.file]
            /\ IF w.rc = "OK"
               THEN /\ frames' = [frames EXCEPT ![i].isDirty = FALSE]
                    /\ flush' = [flush EXCEPT !.next = i + 1]
                    /\ UNCHANGED last
               ELSE /\ EndOfSpace(w.rc)
                    /\ UNCHANGED frames
    /\ UNCHANGED <<clockHand, unmarked>>

FlushSpaceDone ==
    /\ ~Quiet
    /\ ToFlush = {}
    /\ EndOfSpace("OK")
    /\ UNCHANGED <<frames, clockHand, disk, unmarked>>

-----------------------------------------------------------------------------
\* Calls the managers make on the disk manager next to the pool: new files,
\* new blocks, and direct reads of a header or a block.
CreateTable(t, outcome) ==
    /\ Quiet
    /\ disk' = [disk EXCEPT ![t] = CreateFile(@, t = LogTable, outcome).file]
    /\ last' = Other
    /\ UNCHANGED <<frames, clockHand, flush, unmarked>>

Alloc(t, outcome) ==
    /\ Quiet
    /\ HasRoom(disk[t])
    /\ disk' = [disk EXCEPT ![t] = AllocBlock(@, outcome).file]
    /\ last' = Other
    /\ UNCHANGED <<frames, clockHand, flush, unmarked>>

ReadDirectly(t, b, outcome) ==
    /\ Quiet
    /\ disk' = [disk EXCEPT ![t] = ReadBlock(@, b, Zero, outcome).file]
    /\ UNCHANGED <<frames, clockHand, flush, unmarked, last>>

\* A new process: an empty pool over the files as the last one left them.
Restart(files) ==
    /\ frames' = [i \in Frames |-> EmptyFrame(i)]
    /\ clockHand' = 0
    /\ disk' = files
    /\ flush' = Idle
    /\ unmarked' = {}
    /\ last' = Other

Crash == Restart([t \in Tables |-> Abandon(disk[t])])

\* The end of main: flushAllPages was the last call, the destructors close
\* the files.
Exit ==
    /\ Quiet
    /\ last.call = "flushAllPages"
    /\ Restart([t \in Tables |-> CloseTableFile(disk[t]).file])

Next ==
    \/ \E t \in Tables :
        \/ \E outcome \in CreateOutcomes : CreateTable(t, outcome)
        \/ \E outcome \in AllocOutcomes : Alloc(t, outcome)
    \/ \E t \in Tables, b \in Blocks :
        \/ GetPageHit(t, b)
        \/ GetPageRefused(t, b)
        \/ \E w \in WriteOutcomes, r \in ReadOutcomes : GetPageMiss(t, b, w, r)
        \/ MarkDirty(t, b)
        \/ ReleasePage(t, b)
        \/ \E outcome \in WriteOutcomes : FlushPage(t, b, outcome)
        \/ \E outcome \in ReadOutcomes : ReadDirectly(t, b, outcome)
    \/ \E i \in Frames, c \in Contents \ {Garbage} : Modify(i, c)
    \/ \E s \in Spaces :
        \/ FlushSpace(s)
        \/ \E outcome \in WriteOutcomes : GetFreeFrame(s, outcome)
    \/ FlushAllPages
    \/ \E outcome \in WriteOutcomes : FlushFrame(outcome)
    \/ FlushSpaceDone
    \/ Crash
    \/ Exit

Spec == Init /\ [][Next]_vars

-----------------------------------------------------------------------------
\* Type invariant: the shape of the frames, the clock hand, the files and the
\* flush in progress.
TypeOK ==
    /\ frames \in [Frames -> BufferFrame]
    /\ clockHand \in Frames
    /\ disk \in [Tables -> File]
    /\ flush \in [todo : Seq(Spaces), next : 0 .. NumFrames, call : Calls]
    /\ unmarked \subseteq Frames
    /\ last \in [call : Calls, space : Spaces, rc : ReturnCodes]

\* No page is in two frames: two callers that ask for a page share one copy of
\* it, although getPage looks for a victim by partition and for a hit by page
\* (mem_manager.cpp:55-67).
OneFramePerPage ==
    \A i, j \in Frames :
        /\ frames[i].pageNum # NoPage
        /\ HoldsPage(frames[j], frames[i].tableId, frames[i].pageNum)
        => i = j

\* Frame i, when it is fr and the files are d, is of its own partition and
\* either holds no page, and then is clean and not held, or a page of that
\* partition that the file on disk records as allocated.
FrameOK(i, fr, d) ==
    /\ fr.spaceType = Partition(i)
    /\ fr.pageNum = NoPage => ~fr.isDirty /\ fr.pinCount = 0
    /\ fr.pageNum # NoPage =>
        /\ SpaceOf(fr.tableId) = Partition(i)
        /\ d[fr.tableId].state = "ready"
        /\ fr.pageNum < d[fr.tableId].saved.usedBlocks

\* Every frame can be written back whatever happens to its table's header, and
\* the -1 of a frame that holds no page is never written
\* (mem_manager.cpp:75-81, 156-190).
FramesHoldAllocatedPages == \A i \in Frames : FrameOK(i, frames[i], disk)

\* A frame that is clean equals its block.
CleanMatches(fr, d) ==
    fr.pageNum # NoPage /\ ~fr.isDirty => fr.data = d[fr.tableId].block[fr.pageNum]

\* A clean frame equals its block, unless a caller is in the middle of changing
\* it: dropping a clean frame (mem_manager.cpp:75) loses nothing, and a direct
\* read of the file sees what the pool holds.
CleanFramesMatchDisk ==
    \A i \in Frames : i \notin unmarked => CleanMatches(frames[i], disk)

\* The inductive invariant of the pool whatever the errors; callers hold what
\* they have yet to mark.
PoolInv ==
    /\ TypeOK
    /\ \A t \in Tables : FileOK(disk[t])
    /\ OneFramePerPage
    /\ FramesHoldAllocatedPages
    /\ \A i \in unmarked : frames[i].pinCount > 0

\* The inductive invariant of the pool when no read of a block fails.
IInv == PoolInv /\ CleanFramesMatchDisk

\* After getPage has refused a partition, the next getPage there is refused
\* only if callers hold all of its frames (mem_manager.cpp:232-243).
RefusedOnlyOnce ==
    last.rc = "BUFFER_FULL" /\ Exhausted(last.space) => Evictable(last.space) = {}

\* What is dirty in partition s lies at or behind a frame of s whose page could
\* not be written, its file having failed.
LeftByFailure(s) ==
    \A i \in Frames :
        frames[i].isDirty /\ frames[i].spaceType = s =>
            \E j \in Frames :
                /\ j <= i
                /\ frames[j].spaceType = s
                /\ frames[j].isDirty
                /\ disk[frames[j].tableId].stream = "failed"

\* When flushAllPages returns, whatever failed before or in it: no partition is
\* skipped because another one failed, and in each of them a page is left dirty
\* only by the failure of a file, its own or that of a frame before it, at which
\* flushSpace has given up (mem_manager.cpp:147-193).  This is what is left of
\* "flush all dirty pages" (mem_manager.h:70-73): a page of a healthy file
\* behind a failed one is not written.
FlushedUntilFailure ==
    last.call = "flushAllPages" => \A s \in Spaces : LeftByFailure(s)

\* While a caller holds a page, its frame keeps that page, and its content
\* changes only by a caller's own writes (mem_manager.cpp:226).
HeldPagesStay ==
    [][\A i \in Frames :
        frames[i].pinCount > 0 /\ frames'[i].pinCount > 0 =>
            /\ frames'[i].tableId = frames[i].tableId
            /\ frames'[i].pageNum = frames[i].pageNum
            /\ frames'[i].data # frames[i].data => i \in unmarked']_vars

\* BUFFER_FULL means that callers hold every frame of the partition: "back at
\* the start, there is no frame to replace" (comment at mem_manager.cpp:241).
FullOnlyIfAllHeld == last.rc = "BUFFER_FULL" => Evictable(last.space) = {}

-----------------------------------------------------------------------------
\* The pool and the files together are a store of pages: a page's view is its
\* frame, or else its block; its stable content is its block; it is held while
\* its frame is pinned.
StableOf(d) == [p \in Pages |-> d[p[1]].block[p[2]]]

ViewOf(fr, d) ==
    [p \in Pages |->
        IF \E i \in Frames : HoldsPage(fr[i], p[1], p[2])
        THEN fr[CHOOSE i \in Frames : HoldsPage(fr[i], p[1], p[2])].data
        ELSE d[p[1]].block[p[2]]]

HeldOf(fr) ==
    {p \in Pages : \E i \in Frames : HoldsPage(fr[i], p[1], p[2]) /\ fr[i].pinCount > 0}

Store == INSTANCE PageStore
    WITH PageNums  <- Blocks,
         allocated <- [t \in Tables |-> disk[t].header.usedBlocks],
         view      <- ViewOf(frames, disk),
         stable    <- StableOf(disk),
         held      <- HeldOf(frames)

\* Every call on the pool, whatever it evicts, flushes or fails to do, is a
\* step of the page store: no page changes but by its holder's write, and a
\* crash takes each page back to its last complete write.
ImplementsStore == Store!Spec
=============================================================================
