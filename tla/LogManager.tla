----------------------------- MODULE LogManager -----------------------------
(***************************************************************************)
(* The log manager (src/src/log_manager.cpp): numbered records in blocks   *)
(* of the log's file, chained per transaction, written through the pool.   *)
(*                                                                         *)
(* It stands on the page store that BufferPool implements (PageStore):     *)
(* `view' is what getPage gives, `stable' what the file holds, and the     *)
(* pool may write back a page at any time.  A call is a sequence of steps, *)
(* one for each call on the pool or the disk that changes something, and   *)
(* the process may die between any two.                                    *)
(*                                                                         *)
(* A block has Capacity cells, the size of a record without data; a record *)
(* lies in the cells from its place on, as many as its length, and a place *)
(* where none begins is NoRecord.  All types of record but BEGIN and       *)
(* COMMIT are written the same way ("other"), in one of several lengths.   *)
(*                                                                         *)
(* A failed write or read of the file breaks its stream for the rest of    *)
(* the process (see DiskManager).  A read through the pool does not fail   *)
(* before that: then the pool would not be a page store.                   *)
(*                                                                         *)
(* Bounds: MaxBlocks blocks, MaxLSN records.                               *)
(***************************************************************************)
EXTENDS Integers, Sequences, FiniteSetsExt

CONSTANTS
    Transactions,
    MaxBlocks,
    Capacity,
    Lengths,     \* of the records that are not BEGIN or COMMIT
    InvalidLSN,  \* RC_INVALID_LSN, 21 in the code
    MaxLSN,
    NoRecord,
    Faults       \* the errors that may happen: a subset of FaultKinds

\* "full": getPage refuses; "write", "append", "read": the I/O of a flush or an
\* eviction, of an allocation, of the start-up.
FaultKinds == {"full", "write", "append", "read"}

Blocks  == 0 .. MaxBlocks - 1
Offsets == 0 .. Capacity - 1
Types   == {"begin", "commit", "other"}
Record  == [type : Types, txId : Transactions, lsn : Nat, prevLSN : Nat,
            length : 1 .. Capacity]
Page    == [Offsets -> Record \union {NoRecord}]
NoBlock == -1
NoPlace == <<NoBlock, 0>>

ASSUME LogAssumption ==
    /\ MaxBlocks \in Nat \ {0}
    /\ Capacity \in Nat \ {0}
    /\ Lengths \subseteq 1 .. Capacity
    /\ InvalidLSN \in Nat \ {0}
    /\ MaxLSN \in Nat \ {0}
    /\ NoRecord \notin Record
    /\ Faults \subseteq FaultKinds

VARIABLES
    allocated,        \* blocks of the log's file that are handed out
    view,             \* [Blocks -> Page], as the pool gives them
    stable,           \* [Blocks -> Page], as the file holds them
    broken,           \* the stream of the log's file has failed
    seen,             \* blocks this process has had in the pool
    currentLSN,
    lastFlushedLSN,
    currentLogBlock,
    blockOffsets,     \* 0 for a block the map does not know
    txLastLSN,        \* 0 for a transaction the map does not know
    lsnBlockMap,      \* NoPlace for a number the map does not know
    pc,               \* what the process does next
    call,             \* the call in progress
    committed         \* observes the commits that were reported, and
                      \* whether the file had failed by then

store   == <<allocated, view, stable>>
process == <<seen, currentLSN, lastFlushedLSN, currentLogBlock, blockOffsets,
             txLastLSN, lsnBlockMap>>
vars    == <<store, broken, process, pc, call, committed>>

EmptyPage == [o \in Offsets |-> NoRecord]
NoCall    == [type |-> "none", at |-> 0, chain |-> {}]

\* What LogManager's constructor sets.
Fresh ==
    /\ seen' = {}
    /\ currentLSN' = 0
    /\ lastFlushedLSN' = 0
    /\ currentLogBlock' = NoBlock
    /\ blockOffsets' = [b \in 0 .. MaxBlocks |-> 0]
    /\ txLastLSN' = [tx \in Transactions |-> 0]
    /\ lsnBlockMap' = [l \in 1 .. MaxLSN |-> NoPlace]

Init ==
    /\ allocated = 0
    /\ view   = [b \in Blocks |-> EmptyPage]
    /\ stable = [b \in Blocks |-> EmptyPage]
    /\ broken = FALSE
    /\ seen = {}
    /\ currentLSN = 0
    /\ lastFlushedLSN = 0
    /\ currentLogBlock = NoBlock
    /\ blockOffsets = [b \in 0 .. MaxBlocks |-> 0]
    /\ txLastLSN = [tx \in Transactions |-> 0]
    /\ lsnBlockMap = [l \in 1 .. MaxLSN |-> NoPlace]
    /\ pc = "down"
    /\ call = NoCall
    /\ committed = {}

-----------------------------------------------------------------------------
Dirty == {b \in Blocks : view[b] # stable[b]}

nextLSN == currentLSN + 1

getLastLSN(tx) == IF txLastLSN[tx] = 0 THEN InvalidLSN ELSE txLastLSN[tx]

\* Mutant: the test forgets the length of the record.
NeedsBlock_Late(length) ==
    currentLogBlock = NoBlock \/ blockOffsets[currentLogBlock] >= Capacity

\* The test every write starts with: no current block, or no room in it.
NeedsBlock(length) ==
    currentLogBlock = NoBlock \/ blockOffsets[currentLogBlock] + length > Capacity

\* calculateLogLength: a record of a transaction's control has no data.
LengthsOf(type) == IF type = "other" THEN Lengths ELSE {1}

RecordAt(pages, p) == pages[p[1]][p[2]]
Places == Blocks \X Offsets

\* The numbers of the records in pages.
LSNs(pages) == {RecordAt(pages, p).lsn : p \in {q \in Places : RecordAt(pages, q) # NoRecord}}

\* getPage: a page that was never in the pool needs the file.
GetPage(b) ==
    /\ b < allocated
    /\ broken => b \in seen
    /\ seen' = seen \union {b}
    /\ UNCHANGED broken

GetPageFails(b) ==
    /\ \/ /\ b >= allocated \/ broken \/ "full" \in Faults
          /\ UNCHANGED broken
       \/ /\ b < allocated /\ "write" \in Faults
          /\ broken' = TRUE
    /\ UNCHANGED seen

Ready == pc = "ready"
Return == pc' = "ready" /\ call' = NoCall

-----------------------------------------------------------------------------
\* Cell o of block b belongs to a record that begins there or before.
Covered(pages, b, o) ==
    \E start \in Offsets : /\ start <= o
                          /\ pages[b][start] # NoRecord
                          /\ start + pages[b][start].length > o

\* The places of the records init finds in the first n blocks: it goes through
\* each block, from the end of a record to the next, up to a place without one.
Parsed(n) == {p \in (0 .. n - 1) \X Offsets :
                /\ stable[p[1]][p[2]] # NoRecord
                /\ \A o \in Offsets : o < p[2] => Covered(stable, p[1], o)}

\* The index init builds of the records it finds.
LoadIndex(found) ==
    LET highest == Max({0} \union {RecordAt(stable, p).lsn : p \in found})
        At(l)   == {p \in found : RecordAt(stable, p).lsn = l}
        Ends(b) == {p[2] + RecordAt(stable, p).length : p \in {q \in found : q[1] = b}}
    IN  /\ currentLSN' = highest
        /\ lastFlushedLSN' = highest
        /\ lsnBlockMap' = [l \in 1 .. MaxLSN |->
                            IF At(l) # {} THEN CHOOSE p \in At(l) : TRUE ELSE NoPlace]
        /\ blockOffsets' = [b \in 0 .. MaxBlocks |-> Max({0} \union Ends(b))]

\* init, which reads the file's blocks one by one: all of them, unless a read
\* fails.  The first block it cannot read becomes the current one if it found
\* a record; else a block is allocated, if it can be.
Start(n, fails) ==
    /\ pc = "down"
    /\ fails => "read" \in Faults
    /\ IF fails THEN n <= allocated ELSE n = allocated
    /\ LoadIndex(Parsed(n))
    /\ \/ /\ Parsed(n) # {}
          /\ currentLogBlock' = n
          /\ broken' = fails
          /\ UNCHANGED allocated
       \/ /\ Parsed(n) = {}
          /\ ~fails
          /\ allocated < MaxBlocks
          /\ currentLogBlock' = allocated
          /\ allocated' = allocated + 1
          /\ UNCHANGED broken
       \/ /\ Parsed(n) = {}
          /\ fails \/ "append" \in Faults
          /\ broken' = TRUE
          /\ UNCHANGED <<allocated, currentLogBlock>>
    /\ pc' = "ready"
    /\ UNCHANGED <<view, stable, seen, txLastLSN, call, committed>>

-----------------------------------------------------------------------------
\* Mutant: the next block is taken without a flush of the last one.
WriteLog_NoFlush(type, tx, length) ==
    /\ Ready
    /\ currentLSN < MaxLSN
    /\ NeedsBlock(length) => allocated < MaxBlocks
    /\ type = "commit" => getLastLSN(tx) # InvalidLSN
    /\ call' = [type |-> type, txId |-> tx, length |-> length]
    /\ pc' = IF NeedsBlock(length) THEN "alloc" ELSE "append"
    /\ UNCHANGED <<store, broken, process, committed>>

\* The write of a record: writeBeginLog, writeCommitLog, and all the others.
\* A commit is refused for a transaction without a last record.
WriteLog(type, tx, length) ==
    /\ Ready
    /\ currentLSN < MaxLSN
    /\ NeedsBlock(length) => allocated < MaxBlocks
    /\ type = "commit" => getLastLSN(tx) # InvalidLSN
    /\ call' = [type |-> type, txId |-> tx, length |-> length]
    /\ pc' = IF NeedsBlock(length) THEN "makeRoom" ELSE "append"
    /\ UNCHANGED <<store, broken, process, committed>>

\* allocLogBlock, after its flush.
AllocLogBlock ==
    /\ pc = "alloc"
    /\ ~broken
    /\ currentLogBlock' = allocated
    /\ blockOffsets' = [blockOffsets EXCEPT ![allocated] = 0]
    /\ allocated' = allocated + 1
    /\ pc' = "append"
    /\ UNCHANGED <<view, stable, broken, seen, currentLSN, lastFlushedLSN,
                   txLastLSN, lsnBlockMap, call, committed>>

AllocLogBlockFails ==
    /\ pc = "alloc"
    /\ broken \/ "append" \in Faults
    /\ broken' = TRUE
    /\ Return
    /\ UNCHANGED <<store, process, committed>>

\* Mutant: a BEGIN record is chained like any other.
PrevLSN_Begin(type, tx) == getLastLSN(tx)

\* Mutant: a record is chained to the last of any transaction.
PrevLSN_Last(type, tx) == IF type = "begin" THEN 0 ELSE currentLSN

\* The first record of a transaction has no predecessor.
PrevLSN(type, tx) == IF type = "begin" THEN 0 ELSE getLastLSN(tx)

\* Mutant: the index is extended before the record has its number.
AppendRecord_IndexFirst ==
    LET b   == currentLogBlock
        o   == blockOffsets[b]
        tx  == call.txId
        rec == [type |-> call.type, txId |-> tx, lsn |-> nextLSN,
                prevLSN |-> PrevLSN(call.type, tx), length |-> call.length]
    IN  /\ pc = "append"
        /\ GetPage(b)
        /\ view' = [view EXCEPT ![b][o] = rec]
        /\ currentLSN' = nextLSN
        /\ txLastLSN' = [txLastLSN EXCEPT ![tx] = nextLSN]
        /\ lsnBlockMap' = [l \in DOMAIN lsnBlockMap |->
                            IF l = currentLSN THEN <<b, o>> ELSE lsnBlockMap[l]]
        /\ blockOffsets' = [blockOffsets EXCEPT ![b] = @ + call.length]
        /\ IF call.type = "commit" THEN pc' = "commit" /\ UNCHANGED call ELSE Return
        /\ UNCHANGED <<allocated, stable, lastFlushedLSN, currentLogBlock, committed>>

\* getCurrentLogBlock, and the record is put in its place.
AppendRecord ==
    LET b   == currentLogBlock
        o   == blockOffsets[b]
        tx  == call.txId
        rec == [type |-> call.type, txId |-> tx, lsn |-> nextLSN,
                prevLSN |-> PrevLSN(call.type, tx), length |-> call.length]
    IN  /\ pc = "append"
        /\ GetPage(b)
        /\ view' = [view EXCEPT ![b][o] = rec]
        /\ currentLSN' = nextLSN
        /\ txLastLSN' = [txLastLSN EXCEPT ![tx] = nextLSN]
        /\ lsnBlockMap' = [lsnBlockMap EXCEPT ![nextLSN] = <<b, o>>]
        /\ blockOffsets' = [blockOffsets EXCEPT ![b] = @ + call.length]
        /\ IF call.type = "commit" THEN pc' = "commit" /\ UNCHANGED call ELSE Return
        /\ UNCHANGED <<allocated, stable, lastFlushedLSN, currentLogBlock, committed>>

\* Mutant: the number is taken before the block is there.
AppendFails_Numbered ==
    /\ pc = "append"
    /\ GetPageFails(currentLogBlock)
    /\ Return
    /\ currentLSN' = nextLSN
    /\ UNCHANGED <<store, lastFlushedLSN, currentLogBlock, blockOffsets,
                   txLastLSN, lsnBlockMap, committed>>

AppendFails ==
    /\ pc = "append"
    /\ GetPageFails(currentLogBlock)
    /\ Return
    /\ UNCHANGED <<store, currentLSN, lastFlushedLSN, currentLogBlock, blockOffsets,
                   txLastLSN, lsnBlockMap, committed>>

-----------------------------------------------------------------------------
\* flushLog without a number, the one LogManager's destructor calls.
FlushLog ==
    /\ Ready
    /\ pc' = "flush"
    /\ call' = [type |-> "flush"]
    /\ UNCHANGED <<store, broken, process, committed>>

Flushing == pc \in {"makeRoom", "commit", "flush", "exit"}

\* The write of a page by the flush in progress, or by the pool at any time.
WritePage(b) ==
    /\ b \in Dirty
    /\ ~broken
    /\ stable' = [stable EXCEPT ![b] = view[b]]
    /\ UNCHANGED <<allocated, view, broken, process, pc, call, committed>>

\* writeCommitLog has returned its record's number.
Committed(failed) ==
    committed' = IF pc = "commit" /\ currentLSN # InvalidLSN
                 THEN committed \union
                        {[txId |-> call.txId, lsn |-> currentLSN, failed |-> failed]}
                 ELSE committed

\* Mutant: the flush of a commit is skipped.
FlushSucceeds_Skipped ==
    /\ Flushing
    /\ pc # "commit" => Dirty = {}
    /\ lastFlushedLSN' = IF pc \in {"makeRoom", "commit"} THEN lastFlushedLSN ELSE currentLSN
    /\ Committed(broken)
    /\ IF pc = "makeRoom" THEN pc' = "alloc" /\ UNCHANGED call
       ELSE IF pc = "exit" THEN pc' = "stopped" /\ call' = NoCall
       ELSE Return
    /\ UNCHANGED <<store, broken, seen, currentLSN, currentLogBlock, blockOffsets,
                   txLastLSN, lsnBlockMap>>

\* flushSpace has written every page.
FlushSucceeds ==
    /\ Flushing
    /\ Dirty = {}
    /\ lastFlushedLSN' = IF pc = "makeRoom" THEN lastFlushedLSN ELSE currentLSN
    /\ Committed(broken)
    /\ IF pc = "makeRoom" THEN pc' = "alloc" /\ UNCHANGED call
       ELSE IF pc = "exit" THEN pc' = "stopped" /\ call' = NoCall
       ELSE Return
    /\ UNCHANGED <<store, broken, seen, currentLSN, currentLogBlock, blockOffsets,
                   txLastLSN, lsnBlockMap>>

\* Mutant: a flush that failed counts.
FlushFails_Counted ==
    /\ Flushing
    /\ Dirty # {}
    /\ broken \/ "write" \in Faults
    /\ broken' = TRUE
    /\ lastFlushedLSN' = currentLSN
    /\ Committed(TRUE)
    /\ IF pc = "exit" THEN pc' = "stopped" /\ call' = NoCall ELSE Return
    /\ UNCHANGED <<store, seen, currentLSN, currentLogBlock, blockOffsets,
                   txLastLSN, lsnBlockMap>>

\* flushSpace fails on a page.  A commit ignores that.
FlushFails ==
    /\ Flushing
    /\ Dirty # {}
    /\ broken \/ "write" \in Faults
    /\ broken' = TRUE
    /\ Committed(TRUE)
    /\ IF pc = "exit" THEN pc' = "stopped" /\ call' = NoCall ELSE Return
    /\ UNCHANGED <<store, process>>

-----------------------------------------------------------------------------
\* traverseTxLog follows the chain of a transaction back to a record without a
\* predecessor; each record is read by readLog.
TraverseTxLog(tx) ==
    /\ Ready
    /\ getLastLSN(tx) # InvalidLSN
    /\ pc' = "traverse"
    /\ call' = [type |-> "traverse", txId |-> tx, at |-> getLastLSN(tx), chain |-> {}]
    /\ UNCHANGED <<store, broken, process, committed>>

HasPlace(l) == l \in DOMAIN lsnBlockMap /\ lsnBlockMap[l] # NoPlace

ReadLog ==
    LET p == lsnBlockMap[call.at]
    IN  /\ pc = "traverse"
        /\ call.at # 0
        /\ HasPlace(call.at)
        /\ GetPage(p[1])
        /\ call' = [call EXCEPT !.at    = RecordAt(view, p).prevLSN,
                                !.chain = @ \union {call.at}]
        /\ UNCHANGED <<store, currentLSN, lastFlushedLSN, currentLogBlock, blockOffsets,
                       txLastLSN, lsnBlockMap, pc, committed>>

ReadLogFails ==
    /\ pc = "traverse"
    /\ call.at # 0
    /\ IF HasPlace(call.at) THEN GetPageFails(lsnBlockMap[call.at][1])
                            ELSE UNCHANGED <<broken, seen>>
    /\ Return
    /\ UNCHANGED <<store, currentLSN, lastFlushedLSN, currentLogBlock, blockOffsets,
                   txLastLSN, lsnBlockMap, committed>>

TraverseDone ==
    /\ pc = "traverse"
    /\ call.at = 0
    /\ Return
    /\ UNCHANGED <<store, broken, process, committed>>

-----------------------------------------------------------------------------
\* The end of main: LogManager's destructor flushes what is not flushed.
Exit ==
    /\ Ready
    /\ pc' = IF currentLSN > lastFlushedLSN THEN "exit" ELSE "stopped"
    /\ UNCHANGED <<store, broken, process, call, committed>>

\* The last block, if nobody has had it in the pool, may be forgotten with the
\* header that records it.
MayForget ==
    /\ allocated > 0
    /\ allocated - 1 \notin seen
    /\ view[allocated - 1] = EmptyPage

\* The process ends, after Exit or at any time.
Crash ==
    /\ pc # "down"
    /\ \/ UNCHANGED allocated
       \/ MayForget /\ allocated' = allocated - 1
    /\ view' = stable
    /\ broken' = FALSE
    /\ Fresh
    /\ pc' = "down"
    /\ call' = NoCall
    /\ UNCHANGED <<stable, committed>>

\* The steps of a call in progress.
Work ==
    \/ AllocLogBlock \/ AllocLogBlockFails
    \/ AppendRecord \/ AppendFails
    \/ FlushSucceeds \/ FlushFails
    \/ Flushing /\ \E b \in Blocks : WritePage(b)
    \/ ReadLog \/ ReadLogFails \/ TraverseDone

Next ==
    \/ Work
    \/ \E n \in 0 .. MaxBlocks, fails \in BOOLEAN : Start(n, fails)
    \/ \E tx \in Transactions :
        \/ \E type \in Types : \E length \in LengthsOf(type) : WriteLog(type, tx, length)
        \/ TraverseTxLog(tx)
    \/ FlushLog
    \/ \E b \in Blocks : WritePage(b)
    \/ Exit
    \/ Crash

Spec == Init /\ [][Next]_vars

\* A call that has begun goes on, unless the process dies.
FairSpec == Spec /\ WF_vars(Work)

-----------------------------------------------------------------------------
\* Type invariant: the shape of the log's file, of what the process keeps and
\* of the call in progress.
TypeOK ==
    /\ allocated \in 0 .. MaxBlocks
    /\ view \in [Blocks -> Page] /\ stable \in [Blocks -> Page]
    /\ broken \in BOOLEAN
    /\ seen \subseteq Blocks
    /\ currentLSN \in 0 .. MaxLSN /\ lastFlushedLSN \in 0 .. currentLSN
    /\ currentLogBlock \in 0 .. MaxBlocks \union {NoBlock}
    /\ blockOffsets \in [0 .. MaxBlocks -> 0 .. Capacity]
    /\ txLastLSN \in [Transactions -> 0 .. currentLSN]
    /\ lsnBlockMap \in [1 .. MaxLSN -> Places \union {NoPlace}]
    /\ pc \in {"down", "ready", "makeRoom", "alloc", "append", "commit", "flush",
               "traverse", "exit", "stopped"}
    /\ committed \subseteq [txId : Transactions, lsn : 1 .. MaxLSN, failed : BOOLEAN]

\* A record that counts as flushed is in the file, crash or not, whatever part
\* of a flush failed (log_manager.cpp:605, 620, and 80 after a restart).
FlushedIsDurable ==
    \A l \in LSNs(view) : l <= lastFlushedLSN => l \in LSNs(stable)

\* The only block with records that are not in the file is the current one:
\* allocLogBlock flushes before it goes on to the next (log_manager.cpp:698).
OnlyCurrentBlockDirty == Dirty \subseteq {currentLogBlock}

\* readLog finds the record it is asked for, by the index that init builds from
\* the file and that every write extends (log_manager.cpp:61, 632-644).
IndexFindsRecords ==
    pc # "down" => \A l \in 1 .. currentLSN :
        /\ lsnBlockMap[l] # NoPlace
        /\ RecordAt(view, lsnBlockMap[l]) # NoRecord
        /\ RecordAt(view, lsnBlockMap[l]).lsn = l

\* The records of transaction tx, and its BEGIN records.
RecordsOf(tx) == {r \in {RecordAt(view, p) : p \in Places} : r # NoRecord /\ r.txId = tx}
Begins(tx) == {r \in RecordsOf(tx) : r.type = "begin"}

\* Following the chain of a transaction that was begun gives exactly its records
\* since its last BEGIN (log_manager.cpp:655-685).
TraversalComplete ==
    pc = "traverse" /\ call.at = 0 /\ Begins(call.txId) # {} =>
        \E first \in Begins(call.txId) :
            /\ \A r \in Begins(call.txId) : r.lsn <= first.lsn
            /\ call.chain = {r.lsn : r \in {q \in RecordsOf(call.txId) : q.lsn >= first.lsn}}

\* The record of commit c is in the file.
CommitInFile(c) == \E p \in Places :
    LET r == RecordAt(stable, p)
    IN  r # NoRecord /\ r.type = "commit" /\ r.txId = c.txId /\ r.lsn = c.lsn

\* A commit that is reported while the file has not failed is in the file, and
\* stays there, crash or not (log_manager.cpp:519-522).
CommitDurable == \A c \in committed : c.failed \/ CommitInFile(c)

\* A call on the log ends, unless the process dies first; a traversal does if
\* its transaction was begun (log_manager.cpp:661-680).
CallsReturn ==
    (pc \notin {"down", "ready", "stopped"} /\ (pc = "traverse" => Begins(call.txId) # {}))
        ~> pc \in {"down", "ready", "stopped"}

-----------------------------------------------------------------------------
\* A commit that was reported is in the file: "the commit log needs to be flushed
\* at once" (comment at log_manager.cpp:519).
CommitFlushed == \A c \in committed : CommitInFile(c)

\* After init, the current log block is one that getPage can give: "if there is
\* a log, set the current log block" (comment at log_manager.cpp:74).
CurrentBlockExists ==
    pc = "ready" /\ currentLogBlock # NoBlock => currentLogBlock < allocated

-----------------------------------------------------------------------------
\* The records in the order of their numbers, and how many are in the file, are
\* a durable log.
Count(pages) == Cardinality(LSNs(pages))

\* A number that no record has stands for a record numbered 0.
RecordNumbered(l) ==
    LET records == {RecordAt(view, p) : p \in Places} \ {NoRecord}
    IN  IF l \in LSNs(view) THEN CHOOSE r \in records : r.lsn = l ELSE [lsn |-> 0]

Log == INSTANCE DurableLog
    WITH log     <- [l \in 1 .. Count(view) |-> RecordNumbered(l)],
         durable <- Count(stable)

\* Whatever is flushed when, and whatever fails: records are numbered without
\* gaps and in order (log_manager.cpp:160-172), and a crash leaves a prefix of
\* them.  (Once a restart finds records no more are added: CurrentBlockExists.)
ImplementsLog == Log!Spec
=============================================================================
