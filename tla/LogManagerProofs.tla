-------------------------- MODULE LogManagerProofs --------------------------
(***************************************************************************)
(* What the log manager keeps, for any transactions, block size and        *)
(* bounds, and whatever fails: the shape of its state, the current block   *)
(* as the only dirty one, flushed records in the file; commits reported    *)
(* while the file had not failed in it for good; and records in the order  *)
(* of their numbers, of which the file has a prefix.                       *)
(***************************************************************************)
EXTENDS LogManager, FiniteSetTheorems, TLAPS

-----------------------------------------------------------------------------
\* What holds beside TypeOK while calls are in progress.

\* A call in progress has what its next step needs.
CallOK ==
    /\ pc \in {"makeRoom", "alloc", "append", "commit"} =>
            call \in [type : Types, txId : Transactions, length : 1 .. Capacity]
    /\ pc \in {"makeRoom", "alloc"} => NeedsBlock(call.length) /\ allocated < MaxBlocks
    /\ pc \in {"makeRoom", "alloc", "append"} => currentLSN < MaxLSN
    /\ pc = "append" => ~NeedsBlock(call.length)
    /\ pc = "commit" => call.type = "commit" /\ currentLSN > 0
    /\ pc = "down" => /\ seen = {} /\ ~broken /\ currentLogBlock = NoBlock
                      /\ txLastLSN = [tx \in Transactions |-> 0]

Holds(pages, p) == RecordAt(pages, p) # NoRecord

\* Records have numbers in bounds, and lie inside allocated blocks; the file has
\* none that the pool has not, and all of them when nothing may be dirty.
StoreOK ==
    /\ \A p \in Places : Holds(view, p) => RecordAt(view, p).lsn \in 1 .. MaxLSN
    /\ \A p \in Places : Holds(view, p) => p[2] + RecordAt(view, p).length <= Capacity
    /\ \A b \in Blocks : b >= allocated => view[b] = EmptyPage
    /\ \A p \in Places : Holds(stable, p) => RecordAt(view, p) = RecordAt(stable, p)
    /\ pc \in {"down", "alloc"} => view = stable

\* The pool can give the current block.
Reached ==
    /\ currentLogBlock # NoBlock
    /\ currentLogBlock < allocated
    /\ broken => currentLogBlock \in seen

\* Then it is empty from its offset on.
Room == Reached => \A o \in Offsets :
            o >= blockOffsets[currentLogBlock] => view[currentLogBlock][o] = NoRecord

IInv == TypeOK /\ CallOK /\ StoreOK /\ Room /\ OnlyCurrentBlockDirty

-----------------------------------------------------------------------------
\* Numbers and sizes.

LEMMA MaxOfBounded ==
  ASSUME NEW n \in Nat, NEW S \in SUBSET (0 .. n), S # {}
  PROVE  Max(S) \in S /\ \A x \in S : Max(S) >= x
<1> DEFINE R == OpToRel(<, Nat)
           T == {n - x : x \in S}
<1>1. T \subseteq Nat
  OBVIOUS
<1>2. T # {}
  OBVIOUS
<1>3. \A j, k \in Nat : j < k => <<j, k>> \in R
  BY DEF OpToRel
<1>4. IsWellFoundedOn(R, Nat)
  BY NatLessThanWellFounded
<1> HIDE DEF R
<1>5. PICK m \in T : \A k \in T : ~ (<<k, m>> \in R)
  <2> HIDE DEF T
  <2> QED
    BY <1>1, <1>2, <1>4, WFMin
<1>6. PICK x \in S : m = n - x
  OBVIOUS
<1>7. \A y \in S : x >= y
  <2> SUFFICES ASSUME NEW y \in S, y > x PROVE FALSE
    OBVIOUS
  <2>1. n - y \in T /\ n - y \in Nat /\ m \in Nat
    BY <1>1
  <2>2. n - y < m
    BY <1>6
  <2> QED
    BY <1>3, <1>5, <2>1, <2>2
<1> QED
  BY <1>7 DEF Max

-----------------------------------------------------------------------------
\* The bounds, as sets of integers.
LEMMA Bounds ==
  /\ MaxBlocks \in Nat /\ MaxBlocks > 0 /\ Capacity \in Nat /\ Capacity > 0
  /\ MaxLSN \in Nat /\ MaxLSN > 0 /\ NoRecord \notin Record
  /\ EmptyPage \in Page
  /\ \A b \in Blocks : b \in Int /\ b >= 0 /\ b < MaxBlocks
  /\ \A p \in Places : p[1] \in Blocks /\ p[2] \in Offsets /\ p = <<p[1], p[2]>>
  BY LogAssumption DEF Blocks, Offsets, Places, EmptyPage, Page

LEMMA RecordTyped ==
  ASSUME NEW pages \in [Blocks -> Page], NEW p \in Places, Holds(pages, p)
  PROVE  RecordAt(pages, p) \in Record
  BY DEF Holds, RecordAt, Places, Page

\* What is found in the first n blocks.
LEMMA ParsedFound ==
  ASSUME TypeOK, NEW n \in 0 .. MaxBlocks
  PROVE  /\ Parsed(n) \subseteq Places
         /\ \A p \in Parsed(n) : p[1] < n /\ Holds(stable, p)
<1> SUFFICES ASSUME NEW p \in Parsed(n)
             PROVE  p \in Places /\ p[1] < n /\ Holds(stable, p)
  OBVIOUS
<1>1. p \in (0 .. n - 1) \X Offsets /\ stable[p[1]][p[2]] # NoRecord
  BY DEF Parsed
<1>2. p[1] \in 0 .. n - 1 /\ p[2] \in Offsets /\ p = <<p[1], p[2]>>
  BY <1>1
<1>3. p[1] \in Blocks
  BY <1>2, Bounds DEF Blocks
<1> QED
  BY <1>1, <1>2, <1>3 DEF Places, Holds, RecordAt

LEMMA LoadIndexTypes ==
  ASSUME TypeOK, StoreOK, NEW n \in 0 .. MaxBlocks, LoadIndex(Parsed(n))
  PROVE  /\ currentLSN' \in 0 .. MaxLSN /\ lastFlushedLSN' = currentLSN'
         /\ \A p \in Parsed(n) : RecordAt(stable, p).lsn <= currentLSN'
         /\ blockOffsets' \in [0 .. MaxBlocks -> 0 .. Capacity]
         /\ lsnBlockMap' \in [1 .. MaxLSN -> Places \union {NoPlace}]
<1> DEFINE found == Parsed(n)
           S == {0} \union {RecordAt(stable, p).lsn : p \in found}
<1>1. \A p \in found : p \in Places /\ RecordAt(stable, p).lsn \in 1 .. MaxLSN
  BY ParsedFound DEF StoreOK, Holds
<1>2. \A p \in found : p[2] + RecordAt(stable, p).length \in 0 .. Capacity
  <2> SUFFICES ASSUME NEW p \in found PROVE p[2] + RecordAt(stable, p).length \in 0 .. Capacity
    OBVIOUS
  <2>1. p \in Places /\ Holds(stable, p)
    BY ParsedFound
  <2>2. p[2] \in Offsets /\ RecordAt(stable, p) \in Record /\ RecordAt(view, p) = RecordAt(stable, p)
    BY <2>1, RecordTyped, Bounds DEF TypeOK, StoreOK
  <2>3. p[2] + RecordAt(stable, p).length <= Capacity
    BY <2>1, <2>2 DEF StoreOK, Holds
  <2> QED
    BY <2>2, <2>3, Bounds DEF Offsets, Record
<1> DEFINE Ends(b) == {p[2] + RecordAt(stable, p).length : p \in {q \in found : q[1] = b}}
<1>3. /\ currentLSN' = Max(S) /\ lastFlushedLSN' = Max(S)
      /\ lsnBlockMap' = [l \in 1 .. MaxLSN |->
            IF {p \in found : RecordAt(stable, p).lsn = l} # {}
            THEN CHOOSE p \in {q \in found : RecordAt(stable, q).lsn = l} : TRUE ELSE NoPlace]
      /\ blockOffsets' = [b \in 0 .. MaxBlocks |-> Max({0} \union Ends(b))]
  BY DEF LoadIndex
<1> HIDE DEF found
<1>4. S \subseteq 0 .. MaxLSN /\ S # {}
  BY <1>1, Bounds
<1>5. Max(S) \in S /\ \A x \in S : Max(S) >= x
  BY <1>4, MaxOfBounded, Bounds
<1>6. \A p \in found : RecordAt(stable, p).lsn <= Max(S)
  BY <1>1, <1>4, <1>5
<1>7. ASSUME NEW b \in 0 .. MaxBlocks PROVE Max({0} \union Ends(b)) \in 0 .. Capacity
  <2>1. {0} \union Ends(b) \subseteq 0 .. Capacity /\ {0} \union Ends(b) # {}
    BY <1>2, Bounds
  <2> HIDE DEF Ends
  <2>2. Max({0} \union Ends(b)) \in {0} \union Ends(b)
    BY <2>1, MaxOfBounded, Bounds
  <2> QED
    BY <2>1, <2>2
<1>8. lsnBlockMap' \in [1 .. MaxLSN -> Places \union {NoPlace}]
  BY <1>1, <1>3
<1> QED
  BY <1>3, <1>4, <1>5, <1>6, <1>7, <1>8 DEF found

-----------------------------------------------------------------------------
\* The steps, one by one.

LEMMA NothingDirty ==
  ASSUME TypeOK, Dirty = {}
  PROVE  view = stable
  BY DEF TypeOK, Dirty

\* A step that leaves the pages and what the process knows of them alone.
LEMMA QuietStep ==
  ASSUME IInv, CallOK',
         UNCHANGED <<store, currentLSN, currentLogBlock, blockOffsets, txLastLSN, lsnBlockMap>>,
         seen' \subseteq Blocks, broken' \in BOOLEAN, lastFlushedLSN' \in 0 .. currentLSN,
         Reached' => Reached,
         committed' \subseteq [txId : Transactions, lsn : 1 .. MaxLSN, failed : BOOLEAN],
         pc' \in {"ready", "makeRoom", "alloc", "append", "flush", "traverse", "exit", "stopped"},
         pc' = "alloc" => view = stable
  PROVE  IInv'
<1> USE DEF IInv, store
<1>1. TypeOK'
  BY DEF TypeOK
<1>2. StoreOK'
  BY DEF StoreOK, Holds, RecordAt
<1>3. Room' /\ OnlyCurrentBlockDirty'
  BY DEF Room, OnlyCurrentBlockDirty, Dirty
<1> QED
  BY <1>1, <1>2, <1>3

LEMMA GetPageQuiet ==
  ASSUME TypeOK, NEW b \in Blocks, GetPage(b) \/ GetPageFails(b),
         UNCHANGED <<allocated, currentLogBlock>>
  PROVE  seen' \subseteq Blocks /\ broken' \in BOOLEAN /\ (Reached' => Reached)
<1>1. CASE GetPage(b)
  <2>1. seen' = seen \union {b} /\ broken' = broken /\ (broken => seen' = seen)
    BY <1>1 DEF GetPage
  <2> QED
    BY <2>1 DEF TypeOK, Reached
<1>2. CASE GetPageFails(b)
  BY <1>2 DEF GetPageFails, TypeOK, Reached
<1> QED
  BY <1>1, <1>2

LEMMA CommittedTyped ==
  ASSUME TypeOK, CallOK, NEW failed \in BOOLEAN, Committed(failed)
  PROVE  committed' \subseteq [txId : Transactions, lsn : 1 .. MaxLSN, failed : BOOLEAN]
<1>1. CASE pc = "commit" /\ currentLSN # InvalidLSN
  <2>1. call.txId \in Transactions /\ currentLSN \in 1 .. MaxLSN
    BY <1>1, Bounds DEF TypeOK, CallOK
  <2> QED
    BY <1>1, <2>1 DEF Committed, TypeOK
<1>2. CASE ~(pc = "commit" /\ currentLSN # InvalidLSN)
  BY <1>2 DEF Committed, TypeOK
<1> QED
  BY <1>1, <1>2

\* The steps that change neither the pages nor what the process knows of them.
LEMMA QuietSteps ==
  ASSUME IInv,
         \/ \E tx \in Transactions : \/ \E type \in Types : \E length \in LengthsOf(type) : WriteLog(type, tx, length)
                                     \/ TraverseTxLog(tx)
         \/ FlushLog \/ AllocLogBlockFails \/ AppendFails \/ FlushSucceeds \/ FlushFails
         \/ ReadLog \/ ReadLogFails \/ TraverseDone \/ Exit
  PROVE  IInv'
<1>1. TypeOK /\ CallOK /\ StoreOK
  BY DEF IInv
<1>2. lastFlushedLSN \in 0 .. currentLSN /\ currentLSN \in 0 .. MaxLSN
      /\ currentLSN \in 0 .. currentLSN
      /\ committed \subseteq [txId : Transactions, lsn : 1 .. MaxLSN, failed : BOOLEAN]
  BY <1>1, Bounds DEF TypeOK
<1> USE DEF store, process, Return, NoCall
<1>3. ASSUME NEW tx \in Transactions, NEW type \in Types, NEW length \in LengthsOf(type),
             WriteLog(type, tx, length)
      PROVE  IInv'
  <2>1. length \in 1 .. Capacity
    BY LogAssumption, Bounds DEF LengthsOf
  <2>2. CallOK'
    BY <1>1, <1>2, <1>3, <2>1 DEF WriteLog, Ready, CallOK, NeedsBlock
  <2> QED
    BY <1>1, <1>2, <1>3, <2>2, QuietStep DEF WriteLog, TypeOK, Reached
<1>4. ASSUME NEW tx \in Transactions, TraverseTxLog(tx) PROVE IInv'
  BY <1>1, <1>2, <1>4, QuietStep DEF TraverseTxLog, CallOK, TypeOK, Reached
<1>5. CASE FlushLog
  BY <1>1, <1>2, <1>5, QuietStep DEF FlushLog, CallOK, TypeOK, Reached
<1>6. CASE AllocLogBlockFails
  BY <1>1, <1>2, <1>6, QuietStep DEF AllocLogBlockFails, CallOK, TypeOK, Reached
<1>7. CASE AppendFails
  <2>1. \/ currentLogBlock \in Blocks
        \/ UNCHANGED seen /\ broken' \in BOOLEAN /\ (broken => broken')
    BY <1>1, <1>7 DEF AppendFails, GetPageFails, TypeOK
  <2> QED
    BY <1>1, <1>2, <1>7, <2>1, QuietStep, GetPageQuiet DEF AppendFails, CallOK, TypeOK, Reached
<1>8. CASE FlushSucceeds
  <2>1. Dirty = {} /\ view = stable
    BY <1>1, <1>8, NothingDirty DEF FlushSucceeds
  <2>2. committed' \subseteq [txId : Transactions, lsn : 1 .. MaxLSN, failed : BOOLEAN]
    BY <1>1, <1>8, CommittedTyped DEF FlushSucceeds, TypeOK
  <2>3. CallOK'
    BY <1>1, <1>8 DEF FlushSucceeds, CallOK, NeedsBlock
  <2>4. pc' \in {"ready", "alloc", "stopped"} /\ lastFlushedLSN' \in 0 .. currentLSN
    BY <1>1, <1>2, <1>8 DEF FlushSucceeds
  <2>5. UNCHANGED <<store, broken, seen, currentLSN, currentLogBlock, blockOffsets,
                    txLastLSN, lsnBlockMap>>
    BY <1>8 DEF FlushSucceeds
  <2> QED
    BY <1>1, <2>1, <2>2, <2>3, <2>4, <2>5, QuietStep DEF TypeOK, Reached
<1>9. CASE FlushFails
  <2>1. committed' \subseteq [txId : Transactions, lsn : 1 .. MaxLSN, failed : BOOLEAN]
    BY <1>1, <1>9, CommittedTyped DEF FlushFails
  <2>2. CallOK' /\ pc' \in {"ready", "stopped"}
    BY <1>1, <1>9 DEF FlushFails, CallOK
  <2>3. broken' = TRUE /\ UNCHANGED <<store, process>>
    BY <1>9 DEF FlushFails
  <2> QED
    BY <1>1, <1>2, <2>1, <2>2, <2>3, QuietStep DEF TypeOK, Reached
<1>10. CASE ReadLog
  <2>1. PICK b : GetPage(b) /\ b = lsnBlockMap[call.at][1] /\ HasPlace(call.at)
    BY <1>10 DEF ReadLog
  <2>2. b \in Blocks
    BY <1>1, <2>1, Bounds DEF HasPlace, TypeOK
  <2>3. /\ pc' = "traverse"
        /\ UNCHANGED <<store, currentLSN, lastFlushedLSN, currentLogBlock, blockOffsets,
                       txLastLSN, lsnBlockMap, committed>>
    BY <1>10 DEF ReadLog
  <2>4. CallOK'
    BY <2>3 DEF CallOK
  <2> QED
    BY <1>1, <1>2, <2>1, <2>2, <2>3, <2>4, QuietStep, GetPageQuiet
<1>11. CASE ReadLogFails
  <2>1. \/ UNCHANGED <<broken, seen>>
        \/ \E b \in Blocks : GetPageFails(b)
    BY <1>1, <1>11, Bounds DEF ReadLogFails, HasPlace, TypeOK
  <2>2. /\ pc' = "ready"
        /\ UNCHANGED <<store, currentLSN, lastFlushedLSN, currentLogBlock, blockOffsets,
                       txLastLSN, lsnBlockMap, committed>>
    BY <1>11 DEF ReadLogFails
  <2>3. CallOK'
    BY <2>2 DEF CallOK
  <2>4. seen' \subseteq Blocks /\ broken' \in BOOLEAN /\ (Reached' => Reached)
    BY <1>1, <2>1, <2>2, GetPageQuiet DEF TypeOK, Reached
  <2> QED
    BY <1>2, <2>2, <2>3, <2>4, QuietStep
<1>12. CASE TraverseDone
  BY <1>1, <1>2, <1>12, QuietStep DEF TraverseDone, CallOK, TypeOK, Reached
<1>13. CASE Exit
  BY <1>1, <1>2, <1>13, QuietStep DEF Exit, CallOK, TypeOK, Reached
<1> QED
  BY <1>3, <1>4, <1>5, <1>6, <1>7, <1>8, <1>9, <1>10, <1>11, <1>12, <1>13

LEMMA StartIInv ==
  ASSUME IInv, NEW n \in 0 .. MaxBlocks, NEW fails \in BOOLEAN, Start(n, fails)
  PROVE  IInv'
<1>1. TypeOK /\ StoreOK /\ CallOK /\ pc = "down" /\ pc' = "ready"
  BY DEF IInv, Start
<1>2. /\ view = stable /\ seen = {} /\ ~broken /\ currentLogBlock = NoBlock
      /\ txLastLSN = [tx \in Transactions |-> 0]
  BY <1>1 DEF StoreOK, CallOK
<1>3. UNCHANGED <<view, stable, seen, txLastLSN, call, committed>>
  BY DEF Start
<1>4. allocated \in 0 .. MaxBlocks
  BY <1>1 DEF TypeOK
<1>5. \/ /\ currentLogBlock' = n /\ allocated' = allocated
         /\ broken' = fails /\ (~fails => n = allocated)
      \/ /\ allocated < MaxBlocks /\ currentLogBlock' = allocated
         /\ allocated' = allocated + 1 /\ broken' = FALSE
      \/ currentLogBlock' = NoBlock /\ allocated' = allocated /\ broken' = TRUE
  BY <1>2 DEF Start
<1>6. /\ currentLSN' \in 0 .. MaxLSN /\ lastFlushedLSN' = currentLSN'
      /\ blockOffsets' \in [0 .. MaxBlocks -> 0 .. Capacity]
      /\ lsnBlockMap' \in [1 .. MaxLSN -> Places \union {NoPlace}]
  BY <1>1, LoadIndexTypes DEF Start
<1>7. txLastLSN' \in [Transactions -> 0 .. currentLSN']
  BY <1>2, <1>3, <1>6
<1>8. TypeOK'
  <2>1. lastFlushedLSN' \in 0 .. currentLSN'
    BY <1>6, Bounds
  <2>2. allocated' \in 0 .. MaxBlocks /\ currentLogBlock' \in 0 .. MaxBlocks \union {NoBlock}
    BY <1>4, <1>5, Bounds
  <2> QED
    BY <1>1, <1>3, <1>5, <1>6, <1>7, <2>1, <2>2 DEF TypeOK
<1>9. CallOK'
  BY <1>1 DEF CallOK
<1>10. StoreOK'
  BY <1>1, <1>3, <1>4, <1>5, Bounds DEF StoreOK, Holds, RecordAt
<1>11. Room'
  <2> SUFFICES ASSUME Reached'
               PROVE  \A o \in Offsets : view'[currentLogBlock'][o] = NoRecord
    BY DEF Room
  <2>1. currentLogBlock' = allocated /\ allocated < MaxBlocks
    BY <1>2, <1>3, <1>4, <1>5 DEF Reached
  <2>2. view[allocated] = EmptyPage
    BY <1>1, <1>4, <2>1, Bounds DEF StoreOK, Blocks
  <2> QED
    BY <1>3, <2>1, <2>2 DEF EmptyPage
<1>12. OnlyCurrentBlockDirty'
  BY <1>2, <1>3 DEF OnlyCurrentBlockDirty, Dirty
<1> QED
  BY <1>8, <1>9, <1>10, <1>11, <1>12 DEF IInv

LEMMA AllocLogBlockIInv ==
  ASSUME IInv, AllocLogBlock
  PROVE  IInv'
<1>1. TypeOK /\ StoreOK /\ CallOK /\ pc = "alloc" /\ pc' = "append"
  BY DEF IInv, AllocLogBlock
<1>2. /\ view = stable /\ allocated < MaxBlocks /\ currentLSN < MaxLSN
      /\ call \in [type : Types, txId : Transactions, length : 1 .. Capacity]
  BY <1>1 DEF StoreOK, CallOK
<1>3. /\ UNCHANGED <<view, stable, broken, seen, currentLSN, lastFlushedLSN,
                     txLastLSN, lsnBlockMap, call, committed>>
      /\ currentLogBlock' = allocated /\ allocated' = allocated + 1
      /\ blockOffsets' = [blockOffsets EXCEPT ![allocated] = 0]
  BY DEF AllocLogBlock
<1>4. allocated \in 0 .. MaxBlocks /\ allocated \in Blocks
  BY <1>1, <1>2, Bounds DEF TypeOK, Blocks
<1>5. blockOffsets' \in [0 .. MaxBlocks -> 0 .. Capacity] /\ blockOffsets'[allocated] = 0
  BY <1>1, <1>3, <1>4, Bounds DEF TypeOK
<1>6. TypeOK'
  <2>1. allocated' \in 0 .. MaxBlocks /\ currentLogBlock' \in 0 .. MaxBlocks
    BY <1>2, <1>3, <1>4, Bounds
  <2> QED
    BY <1>1, <1>3, <1>5, <2>1 DEF TypeOK
<1>7. CallOK'
  <2>1. ~NeedsBlock(call.length)'
    BY <1>2, <1>3, <1>4, <1>5, Bounds DEF NeedsBlock, NoBlock
  <2> QED
    BY <1>1, <1>2, <1>3, <2>1 DEF CallOK
<1>8. StoreOK'
  BY <1>1, <1>3, <1>4, Bounds DEF StoreOK, Holds, RecordAt
<1>9. Room'
  <2>1. view'[currentLogBlock'] = EmptyPage
    BY <1>1, <1>3, <1>4, Bounds DEF StoreOK
  <2> QED
    BY <1>3, <1>5, <2>1 DEF Room, EmptyPage
<1>10. OnlyCurrentBlockDirty'
  BY <1>2, <1>3 DEF OnlyCurrentBlockDirty, Dirty
<1> QED
  BY <1>6, <1>7, <1>8, <1>9, <1>10 DEF IInv

\* Where an append puts its record: a free place of the current block, which
\* is the only one whose records may be missing in the file.
LEMMA AppendPlace ==
  ASSUME IInv, AppendRecord
  PROVE  LET b == currentLogBlock
             o == blockOffsets[b]
         IN  /\ Reached /\ b \in Blocks /\ b < allocated
             /\ call.length \in 1 .. Capacity /\ o + call.length <= Capacity
             /\ o \in Offsets /\ <<b, o>> \in Places
             /\ ~Holds(view, <<b, o>>) /\ ~Holds(stable, <<b, o>>)
<1> DEFINE b == currentLogBlock
           o == blockOffsets[b]
<1>1. TypeOK /\ StoreOK /\ CallOK /\ Room /\ pc = "append" /\ GetPage(b)
  BY DEF IInv, AppendRecord
<1>2. /\ ~NeedsBlock(call.length) /\ call.length \in 1 .. Capacity
      /\ b < allocated /\ (broken => b \in seen)
  BY <1>1 DEF CallOK, GetPage
<1>3. Reached
  BY <1>2 DEF Reached, NeedsBlock
<1>4. b \in Blocks /\ b \in 0 .. MaxBlocks
  BY <1>1, <1>2, Bounds DEF TypeOK, NeedsBlock, Blocks, NoBlock
<1>5. o \in Offsets /\ o + call.length <= Capacity
  BY <1>1, <1>2, <1>4, Bounds DEF TypeOK, NeedsBlock, Offsets
<1>6. ~Holds(view, <<b, o>>)
  BY <1>1, <1>3, <1>5, Bounds DEF Room, Holds, RecordAt, Offsets
<1>7. ~Holds(stable, <<b, o>>)
  BY <1>1, <1>4, <1>5, <1>6 DEF StoreOK, Holds, Places
<1> QED
  BY <1>2, <1>3, <1>4, <1>5, <1>6, <1>7 DEF Places

\* The record an append writes, and the pages after it.
NewRecord == [type |-> call.type, txId |-> call.txId, lsn |-> nextLSN,
              prevLSN |-> PrevLSN(call.type, call.txId), length |-> call.length]
NewPlace  == <<currentLogBlock, blockOffsets[currentLogBlock]>>

LEMMA AppendView ==
  ASSUME IInv, AppendRecord
  PROVE  /\ call.type \in Types /\ call.txId \in Transactions
         /\ nextLSN = currentLSN + 1 /\ nextLSN \in 1 .. MaxLSN
         /\ NewRecord \in Record /\ NewRecord.lsn = nextLSN
         /\ NewRecord.type = call.type /\ NewRecord.txId = call.txId
         /\ NewRecord.length = call.length
         /\ view' \in [Blocks -> Page]
         /\ \A p \in Places : RecordAt(view', p) =
                IF p = NewPlace THEN NewRecord ELSE RecordAt(view, p)
         /\ \A c \in Blocks : c # currentLogBlock => view'[c] = view[c]
<1> DEFINE b == currentLogBlock
           o == blockOffsets[b]
<1>1. TypeOK /\ CallOK /\ pc = "append"
  BY DEF IInv, AppendRecord
<1>2. /\ call \in [type : Types, txId : Transactions, length : 1 .. Capacity]
      /\ nextLSN = currentLSN + 1 /\ nextLSN \in 1 .. MaxLSN
  BY <1>1, Bounds DEF CallOK, TypeOK, nextLSN
<1>3. b \in Blocks /\ o \in Offsets
  BY AppendPlace
<1>4. PrevLSN(call.type, call.txId) \in Nat
  BY <1>1, <1>2, LogAssumption, Bounds DEF PrevLSN, getLastLSN, TypeOK
<1>5. NewRecord \in Record
  BY <1>2, <1>4, Bounds DEF NewRecord, Record
<1>6. view' = [view EXCEPT ![b][o] = NewRecord]
  BY DEF AppendRecord, NewRecord
<1>7. view \in [Blocks -> Page] /\ view[b] \in Page
  BY <1>1, <1>3 DEF TypeOK
<1>8. view' = [view EXCEPT ![b] = [view[b] EXCEPT ![o] = NewRecord]]
  BY <1>6
<1>9. [view[b] EXCEPT ![o] = NewRecord] \in Page
  BY <1>3, <1>5, <1>7 DEF Page
<1>10. view' \in [Blocks -> Page]
  BY <1>3, <1>7, <1>8, <1>9
<1>11. \A c \in Blocks : c # b => view'[c] = view[c]
  BY <1>7, <1>8
<1>12. ASSUME NEW p \in Places
       PROVE  RecordAt(view', p) = IF p = NewPlace THEN NewRecord ELSE RecordAt(view, p)
  <2>1. p[1] \in Blocks /\ p[2] \in Offsets /\ p = <<p[1], p[2]>>
    BY Bounds
  <2>2. CASE p[1] = b
    <3>1. view'[b] = [view[b] EXCEPT ![o] = NewRecord]
      BY <1>3, <1>7, <1>8
    <3>2. view'[b][p[2]] = IF p[2] = o THEN NewRecord ELSE view[b][p[2]]
      BY <1>7, <2>1, <3>1 DEF Page
    <3>3. p = NewPlace <=> p[2] = o
      BY <2>1, <2>2 DEF NewPlace
    <3> QED
      BY <2>2, <3>2, <3>3 DEF RecordAt
  <2>3. CASE p[1] # b
    <3>1. p # NewPlace
      BY <2>1, <2>3 DEF NewPlace
    <3> QED
      BY <1>11, <2>1, <2>3, <3>1 DEF RecordAt
  <2> QED
    BY <2>2, <2>3
<1> QED
  BY <1>2, <1>5, <1>10, <1>11, <1>12 DEF NewRecord

LEMMA AppendIInv ==
  ASSUME IInv, AppendRecord
  PROVE  IInv'
<1> DEFINE b == currentLogBlock
           o == blockOffsets[b]
           tx == call.txId
           end == o + call.length
<1>1. TypeOK /\ StoreOK /\ CallOK /\ Room /\ OnlyCurrentBlockDirty /\ pc = "append"
  BY DEF IInv, AppendRecord
<1>2. /\ b \in Blocks /\ b \in 0 .. MaxBlocks /\ b < allocated /\ Reached
      /\ o \in Offsets /\ NewPlace \in Places /\ ~Holds(stable, NewPlace)
      /\ call.length \in 1 .. Capacity /\ end <= Capacity
  BY AppendPlace, Bounds DEF Blocks, NewPlace
<1>3. /\ tx \in Transactions /\ nextLSN = currentLSN + 1 /\ nextLSN \in 1 .. MaxLSN
      /\ view' \in [Blocks -> Page] /\ NewRecord.lsn = nextLSN /\ NewRecord.length = call.length
      /\ \A p \in Places : RecordAt(view', p) =
                IF p = NewPlace THEN NewRecord ELSE RecordAt(view, p)
      /\ \A c \in Blocks : c # b => view'[c] = view[c]
  BY AppendView
<1>4. /\ GetPage(b) /\ currentLSN' = nextLSN
      /\ txLastLSN' = [txLastLSN EXCEPT ![tx] = nextLSN]
      /\ lsnBlockMap' = [lsnBlockMap EXCEPT ![nextLSN] = <<b, o>>]
      /\ blockOffsets' = [blockOffsets EXCEPT ![b] = @ + call.length]
      /\ UNCHANGED <<allocated, stable, lastFlushedLSN, currentLogBlock, committed>>
      /\ \/ pc' = "commit" /\ call' = call /\ call.type = "commit"
         \/ pc' = "ready"
  BY DEF AppendRecord, Return
<1>5. broken' = broken /\ seen' = seen \union {b}
  BY <1>4 DEF GetPage
<1>6. /\ currentLSN \in 0 .. MaxLSN
      /\ blockOffsets' \in [0 .. MaxBlocks -> 0 .. Capacity] /\ blockOffsets'[b] = end
  BY <1>1, <1>2, <1>4, Bounds DEF TypeOK, Offsets
<1>7. TypeOK'
  <2>1. currentLSN' \in 0 .. MaxLSN /\ lastFlushedLSN' \in 0 .. currentLSN'
    BY <1>1, <1>3, <1>4, <1>6, Bounds DEF TypeOK
  <2>2. txLastLSN' \in [Transactions -> 0 .. currentLSN']
    <3>1. txLastLSN \in [Transactions -> 0 .. currentLSN] /\ 0 .. currentLSN \subseteq 0 .. currentLSN'
      BY <1>1, <1>3, <1>4, <1>6, Bounds, SMTT(30) DEF TypeOK
    <3> QED
      BY <1>3, <1>4, <3>1
  <2>3. lsnBlockMap' \in [1 .. MaxLSN -> Places \union {NoPlace}]
    BY <1>1, <1>2, <1>4 DEF TypeOK, NewPlace
  <2> QED
    BY <1>1, <1>2, <1>3, <1>4, <1>5, <1>6, <2>1, <2>2, <2>3 DEF TypeOK
<1>8. CallOK'
  BY <1>1, <1>3, <1>4, <1>6 DEF CallOK
<1>9. StoreOK'
  <2>1. \A p \in Places : Holds(view', p) => RecordAt(view', p).lsn \in 1 .. MaxLSN
    BY <1>1, <1>3 DEF StoreOK, Holds
  <2>5. \A p \in Places : Holds(view', p) => p[2] + RecordAt(view', p).length <= Capacity
    BY <1>1, <1>2, <1>3 DEF StoreOK, Holds, NewPlace
  <2>2. \A c \in Blocks : c >= allocated => view'[c] = EmptyPage
    BY <1>1, <1>2, <1>3, Bounds DEF StoreOK, TypeOK
  <2>3. \A p \in Places : Holds(stable, p) => RecordAt(view', p) = RecordAt(stable, p)
    BY <1>1, <1>2, <1>3 DEF StoreOK
  <2>4. pc' \notin {"down", "alloc"}
    BY <1>4
  <2> QED
    BY <1>4, <2>1, <2>2, <2>3, <2>4, <2>5 DEF StoreOK, Holds, RecordAt
<1>10. Room'
  <2> SUFFICES ASSUME NEW q \in Offsets, q >= end
               PROVE  view'[b][q] = NoRecord
    BY <1>4, <1>6 DEF Room
  <2>1. view[b][q] = NoRecord /\ q # o
    BY <1>1, <1>2, Bounds DEF Room, Offsets
  <2>2. <<b, q>> \in Places /\ <<b, q>> # NewPlace
    BY <1>2, <2>1 DEF Places, NewPlace
  <2>3. RecordAt(view', <<b, q>>) = RecordAt(view, <<b, q>>)
    BY <1>3, <2>2
  <2> QED
    BY <2>1, <2>3 DEF RecordAt
<1>11. OnlyCurrentBlockDirty'
  BY <1>1, <1>3, <1>4 DEF OnlyCurrentBlockDirty, Dirty
<1> QED
  BY <1>7, <1>8, <1>9, <1>10, <1>11 DEF IInv

LEMMA WritePageIInv ==
  ASSUME IInv, NEW b \in Blocks, WritePage(b)
  PROVE  IInv'
<1>1. TypeOK /\ StoreOK /\ CallOK /\ Room /\ OnlyCurrentBlockDirty
  BY DEF IInv
<1>2. /\ b \in Dirty /\ stable' = [stable EXCEPT ![b] = view[b]]
      /\ UNCHANGED <<allocated, view, broken, process, pc, call, committed>>
  BY DEF WritePage
<1>3. \A c \in Blocks : stable'[c] = IF c = b THEN view[b] ELSE stable[c]
  BY <1>1, <1>2 DEF TypeOK
<1>4. TypeOK'
  BY <1>1, <1>2 DEF TypeOK, process
<1>5. CallOK'
  BY <1>1, <1>2 DEF CallOK, process, NeedsBlock
<1>6. StoreOK'
  <2>1. pc \notin {"down", "alloc"}
    BY <1>1, <1>2 DEF StoreOK, Dirty
  <2>2. \A p \in Places : RecordAt(stable', p) = IF p[1] = b THEN RecordAt(view, p) ELSE RecordAt(stable, p)
    BY <1>3, Bounds DEF RecordAt
  <2> QED
    BY <1>1, <1>2, <2>1, <2>2 DEF StoreOK, Holds, RecordAt
<1>7. Room'
  BY <1>1, <1>2 DEF Room, Reached, process
<1>8. OnlyCurrentBlockDirty'
  BY <1>1, <1>2, <1>3 DEF OnlyCurrentBlockDirty, Dirty, process
<1> QED
  BY <1>4, <1>5, <1>6, <1>7, <1>8 DEF IInv

LEMMA CrashIInv ==
  ASSUME IInv, Crash
  PROVE  IInv'
<1>1. TypeOK /\ StoreOK
  BY DEF IInv
<1>2. /\ view' = stable /\ stable' = stable /\ broken' = FALSE /\ pc' = "down"
      /\ seen' = {} /\ currentLSN' = 0 /\ lastFlushedLSN' = 0 /\ currentLogBlock' = NoBlock
      /\ blockOffsets' = [c \in 0 .. MaxBlocks |-> 0]
      /\ txLastLSN' = [tx \in Transactions |-> 0]
      /\ lsnBlockMap' = [l \in 1 .. MaxLSN |-> NoPlace]
      /\ committed' = committed
  BY DEF Crash, Fresh
<1>3. \/ allocated' = allocated
      \/ /\ allocated > 0 /\ allocated' = allocated - 1
         /\ view[allocated - 1] = EmptyPage
  BY DEF Crash, MayForget
<1>4. TypeOK'
  <2>1. allocated' \in 0 .. MaxBlocks
    BY <1>1, <1>3, Bounds DEF TypeOK
  <2>2. /\ 0 \in 0 .. MaxLSN /\ 0 \in 0 .. 0
        /\ [c \in 0 .. MaxBlocks |-> 0] \in [0 .. MaxBlocks -> 0 .. Capacity]
    BY Bounds
  <2> QED
    BY <1>1, <1>2, <2>1, <2>2 DEF TypeOK
<1>5. CallOK'
  BY <1>2 DEF CallOK
<1>6. StoreOK'
  <2>1. ASSUME NEW c \in Blocks, view[c] = EmptyPage PROVE stable[c] = EmptyPage
    <3>1. stable[c] \in Page
      BY <1>1 DEF TypeOK
    <3>2. \A o \in Offsets : stable[c][o] = NoRecord
      <4> SUFFICES ASSUME NEW o \in Offsets, stable[c][o] # NoRecord PROVE FALSE
        OBVIOUS
      <4>1. <<c, o>> \in Places /\ Holds(stable, <<c, o>>)
        BY DEF Places, Holds, RecordAt
      <4>2. view[c][o] = stable[c][o]
        BY <1>1, <4>1 DEF StoreOK, RecordAt
      <4> QED
        BY <2>1, <4>2 DEF EmptyPage
    <3> QED
      BY <3>1, <3>2 DEF Page, EmptyPage
  <2>2. \A c \in Blocks : c >= allocated' => view[c] = EmptyPage
    BY <1>1, <1>3, Bounds DEF StoreOK, TypeOK
  <2>3. \A c \in Blocks : c >= allocated' => stable[c] = EmptyPage
    BY <2>1, <2>2
  <2>4. \A p \in Places : Holds(stable, p) =>
            /\ RecordAt(stable, p).lsn \in 1 .. MaxLSN
            /\ p[2] + RecordAt(stable, p).length <= Capacity
    BY <1>1 DEF StoreOK, Holds
  <2> QED
    BY <1>2, <2>3, <2>4 DEF StoreOK, Holds, RecordAt
<1>7. Room' /\ OnlyCurrentBlockDirty'
  BY <1>2 DEF Room, Reached, OnlyCurrentBlockDirty, Dirty
<1> QED
  BY <1>4, <1>5, <1>6, <1>7 DEF IInv

-----------------------------------------------------------------------------
LEMMA InitIInv == Init => IInv
<1> SUFFICES ASSUME Init PROVE IInv
  OBVIOUS
<1>1. TypeOK
  <2>1. /\ 0 \in 0 .. MaxBlocks /\ 0 \in 0 .. MaxLSN /\ 0 \in 0 .. 0
        /\ [c \in 0 .. MaxBlocks |-> 0] \in [0 .. MaxBlocks -> 0 .. Capacity]
        /\ [c \in Blocks |-> EmptyPage] \in [Blocks -> Page]
    BY Bounds
  <2> QED
    BY <2>1 DEF Init, TypeOK
<1>2. CallOK
  BY DEF Init, CallOK
<1>3. StoreOK
  BY Bounds DEF Init, StoreOK, Holds, RecordAt, EmptyPage
<1>4. Room /\ OnlyCurrentBlockDirty
  BY DEF Init, Room, Reached, OnlyCurrentBlockDirty, Dirty
<1> QED
  BY <1>1, <1>2, <1>3, <1>4 DEF IInv

LEMMA NextIInv ==
  ASSUME IInv, [Next]_vars
  PROVE  IInv'
<1>1. CASE UNCHANGED vars
  BY <1>1 DEF vars, store, process, IInv, TypeOK, CallOK, StoreOK, Room, Reached, NeedsBlock,
       OnlyCurrentBlockDirty, Dirty, Holds, RecordAt
<1>2. CASE Next
  BY <1>2, StartIInv, AllocLogBlockIInv, AppendIInv, QuietSteps, WritePageIInv, CrashIInv
     DEF Next, Work
<1> QED
  BY <1>1, <1>2

\* Types, the call in progress, an empty rest of the current block and nothing dirty
\* outside it hold together, whatever fails (log_manager.cpp:31-85, 137-172, 599-720).
THEOREM LogInvariant == Spec => []IInv
  BY InitIInv, NextIInv, PTL DEF Spec

\* The log manager's state has its shape (log_manager.cpp:41-60, 160-172, 690-720).
THEOREM LogTypes == Spec => []TypeOK
<1>1. IInv => TypeOK
  BY DEF IInv
<1> QED
  BY <1>1, LogInvariant, PTL

\* Whatever the pool writes back and whatever fails, records that are not in the
\* file are in the current block (log_manager.cpp:698).
THEOREM CurrentBlockDirty == Spec => []OnlyCurrentBlockDirty
<1>1. IInv => OnlyCurrentBlockDirty
  BY DEF IInv
<1> QED
  BY <1>1, LogInvariant, PTL

-----------------------------------------------------------------------------
\* What a step does to the pages.
LEMMA NextPages ==
  ASSUME IInv, [Next]_vars
  PROVE  \/ /\ UNCHANGED <<view, stable>>
            /\ lastFlushedLSN' = lastFlushedLSN \/ view = stable
         \/ AppendRecord
         \/ \E b \in Blocks : WritePage(b)
         \/ Crash
<1> USE DEF store, process
<1>1. TypeOK /\ StoreOK
  BY DEF IInv
<1>2. CASE UNCHANGED vars
  BY <1>2 DEF vars
<1>3. ASSUME NEW n \in 0 .. MaxBlocks, NEW fails \in BOOLEAN, Start(n, fails)
      PROVE  view = stable /\ UNCHANGED <<view, stable>>
  BY <1>1, <1>3 DEF Start, StoreOK
<1>4. CASE FlushSucceeds
  BY <1>1, <1>4, NothingDirty DEF FlushSucceeds
<1>5. CASE \/ \E tx \in Transactions : \/ \E type \in Types : \E length \in LengthsOf(type) : WriteLog(type, tx, length)
                                       \/ TraverseTxLog(tx)
           \/ FlushLog \/ AllocLogBlock \/ AllocLogBlockFails \/ AppendFails
           \/ FlushFails \/ ReadLog \/ ReadLogFails \/ TraverseDone \/ Exit
  BY <1>5 DEF WriteLog, TraverseTxLog, FlushLog, AllocLogBlock, AllocLogBlockFails, AppendFails,
       FlushFails, ReadLog, ReadLogFails, TraverseDone, Exit
<1> QED
  BY <1>2, <1>3, <1>4, <1>5 DEF Next, Work

LEMMA LSNsOf ==
  ASSUME NEW pages, NEW l
  PROVE  l \in LSNs(pages) <=> \E p \in Places : Holds(pages, p) /\ RecordAt(pages, p).lsn = l
  BY DEF LSNs, Holds

\* What is in the file stays there.
LEMMA FileGrows ==
  ASSUME IInv, [Next]_vars, NEW p \in Places, Holds(stable, p)
  PROVE  RecordAt(stable', p) = RecordAt(stable, p)
<1>1. ASSUME NEW b \in Blocks, WritePage(b)
      PROVE  RecordAt(stable', p) = RecordAt(stable, p)
  <2>1. RecordAt(view, p) = RecordAt(stable, p) /\ p[1] \in Blocks
    BY Bounds DEF IInv, StoreOK
  <2>2. stable'[p[1]] = IF p[1] = b THEN view[p[1]] ELSE stable[p[1]]
    BY <1>1, <2>1 DEF WritePage, IInv, TypeOK
  <2> QED
    BY <2>1, <2>2 DEF RecordAt
<1>2. CASE stable' = stable
  BY <1>2
<1> QED
  BY <1>1, <1>2, NextPages DEF AppendRecord, Crash

LEMMA NextFlushedIsDurable ==
  ASSUME IInv, FlushedIsDurable, [Next]_vars
  PROVE  FlushedIsDurable'
<1> SUFFICES ASSUME NEW l \in LSNs(view'), l <= lastFlushedLSN'
             PROVE  l \in LSNs(stable')
  BY DEF FlushedIsDurable, LSNs, RecordAt
<1>1. ASSUME l \in LSNs(stable) PROVE l \in LSNs(stable')
  <2>1. PICK p \in Places : Holds(stable, p) /\ RecordAt(stable, p).lsn = l
    BY <1>1, LSNsOf
  <2>2. Holds(stable', p) /\ RecordAt(stable', p).lsn = l
    BY <2>1, FileGrows DEF Holds
  <2> QED
    BY <2>2, LSNsOf
<1>2. CASE UNCHANGED <<view, stable>> /\ (lastFlushedLSN' = lastFlushedLSN \/ view = stable)
  BY <1>2 DEF FlushedIsDurable
<1>3. CASE AppendRecord
  <2>1. PICK p \in Places : Holds(view', p) /\ RecordAt(view', p).lsn = l
    BY LSNsOf
  <2>2. lastFlushedLSN' = lastFlushedLSN /\ lastFlushedLSN < nextLSN
    BY <1>3, Bounds DEF AppendRecord, IInv, TypeOK, nextLSN
  <2>3. p # NewPlace
    BY <1>3, <2>1, <2>2, AppendView, Bounds DEF IInv, TypeOK
  <2>4. Holds(view, p) /\ RecordAt(view, p).lsn = l
    BY <1>3, <2>1, <2>3, AppendView DEF Holds
  <2> QED
    BY <1>1, <2>2, <2>4, LSNsOf DEF FlushedIsDurable
<1>4. CASE \E b \in Blocks : WritePage(b)
  BY <1>1, <1>4 DEF WritePage, process, FlushedIsDurable
<1>5. CASE Crash
  BY <1>5 DEF Crash
<1> QED
  BY <1>2, <1>3, <1>4, <1>5, NextPages

\* A record that counts as flushed is in the file, over crashes, restarts and
\* failed flushes (log_manager.cpp:605, 620, and 80 after a restart).
THEOREM FlushedStays == Spec => []FlushedIsDurable
<1>1. Init => FlushedIsDurable
  BY DEF Init, FlushedIsDurable
<1> QED
  BY <1>1, NextFlushedIsDurable, LogInvariant, PTL DEF Spec

-----------------------------------------------------------------------------
\* A commit in progress has written its record.
CommitInv ==
    /\ CommitDurable
    /\ pc = "commit" => \E p \in Places :
            LET r == RecordAt(view, p)
            IN  r # NoRecord /\ r.type = "commit" /\ r.txId = call.txId /\ r.lsn = currentLSN

\* The record of the commit in progress.
LEMMA CommitWritten ==
  ASSUME IInv, CommitInv, Next,  pc' = "commit"
  PROVE  \E p \in Places :
            LET r == RecordAt(view', p)
            IN  r # NoRecord /\ r.type = "commit" /\ r.txId = call'.txId /\ r.lsn = currentLSN'
<1>1. CASE AppendRecord
  <2>1. NewPlace \in Places /\ RecordAt(view', NewPlace) = NewRecord /\ NewRecord # NoRecord
    BY <1>1, AppendPlace, AppendView, Bounds DEF NewPlace
  <2>2. call' = call /\ call.type = "commit" /\ currentLSN' = nextLSN
    BY <1>1 DEF AppendRecord, Return
  <2> QED
    BY <1>1, <2>1, <2>2, AppendView
<1>2. CASE \E b \in Blocks : WritePage(b)
  BY <1>2 DEF WritePage, process, CommitInv
<1>3. CASE ~AppendRecord /\ ~ \E b \in Blocks : WritePage(b)
  BY <1>3 DEF Next, Work, Start, WriteLog, TraverseTxLog, FlushLog, AllocLogBlock,
       AllocLogBlockFails, AppendFails, FlushSucceeds, FlushFails, ReadLog, ReadLogFails,
       TraverseDone, Exit, Crash, Return
<1> QED
  BY <1>1, <1>2, <1>3

\* What is in the file stays there, so do the commits.
LEMMA CommitStaysInFile ==
  ASSUME IInv, [Next]_vars, NEW c, CommitInFile(c)
  PROVE  CommitInFile(c)'
  BY FileGrows DEF CommitInFile, Holds, RecordAt

\* A commit that is reported without a failure has been flushed.
LEMMA ReportedDurable ==
  ASSUME IInv, CommitInv, Next
  PROVE  CommitDurable'
<1>1. ASSUME committed' = committed PROVE CommitDurable'
  <2> SUFFICES ASSUME NEW c \in committed, ~c.failed PROVE CommitInFile(c)'
    BY <1>1 DEF CommitDurable
  <2>1. CommitInFile(c)
    BY DEF CommitInv, CommitDurable
  <2> QED
    BY <2>1, CommitStaysInFile
<1>2. ASSUME NEW failed \in BOOLEAN, Committed(failed), UNCHANGED <<view, stable>>,
             failed \/ view = stable
      PROVE  CommitDurable'
  <2>1. CASE committed' = committed
    BY <1>1, <2>1
  <2>2. CASE committed' # committed
    <3> DEFINE new == [txId |-> call.txId, lsn |-> currentLSN, failed |-> failed]
    <3>1. pc = "commit" /\ committed' = committed \union {new}
      BY <1>2, <2>2 DEF Committed
    <3>2. \A c : CommitInFile(c)' <=> CommitInFile(c)
      BY <1>2 DEF CommitInFile, RecordAt
    <3>3. failed \/ CommitInFile(new)
      BY <1>2, <3>1 DEF CommitInv, CommitInFile
    <3> HIDE DEF new
    <3>4. failed => new.failed
      BY DEF new
    <3> QED
      BY <3>1, <3>2, <3>3, <3>4 DEF CommitInv, CommitDurable
  <2> QED
    BY <2>1, <2>2
<1>3. CASE FlushFails
  BY <1>2, <1>3 DEF FlushFails, store
<1>4. CASE FlushSucceeds
  <2>1. view = stable /\ broken \in BOOLEAN
    BY <1>4, NothingDirty DEF FlushSucceeds, IInv, TypeOK
  <2> QED
    BY <1>2, <1>4, <2>1 DEF FlushSucceeds, store
<1>5. CASE ~FlushFails /\ ~FlushSucceeds
  <2>1. committed' = committed
    BY <1>5 DEF Next, Work, Start, WriteLog, TraverseTxLog, FlushLog, AllocLogBlock,
       AllocLogBlockFails, AppendRecord, AppendFails, WritePage, ReadLog, ReadLogFails,
       TraverseDone, Exit, Crash
  <2> QED
    BY <1>1, <2>1
<1> QED
  BY <1>3, <1>4, <1>5

LEMMA NextCommitInv ==
  ASSUME IInv, CommitInv, [Next]_vars
  PROVE  CommitInv'
<1>1. CASE Next
  BY <1>1, CommitWritten, ReportedDurable DEF CommitInv, RecordAt
<1>2. CASE UNCHANGED vars
  BY <1>2 DEF vars, store, process, CommitInv, CommitDurable, CommitInFile, RecordAt
<1> QED
  BY <1>1, <1>2

\* Whatever fails and whenever the process dies, a commit that was reported while
\* the file had not failed is in the file and stays there (log_manager.cpp:519-522).
THEOREM CommitsStay == Spec => []CommitDurable
<1>1. Init => CommitInv
  BY DEF Init, CommitInv, CommitDurable
<1>2. CommitInv => CommitDurable
  BY DEF CommitInv
<1> QED
  BY <1>1, <1>2, NextCommitInv, LogInvariant, PTL DEF Spec

-----------------------------------------------------------------------------
\* The order of the log, whatever fails: records lie in the order of their numbers,
\* without gaps and without holes, and the file has a prefix of them.  So readLog finds
\* every record, a traversal is complete, and LogManager implements DurableLog.

Before(p, q) == p[1] < q[1] \/ (p[1] = q[1] /\ p[2] < q[2])

LSNAt(p) == RecordAt(view, p).lsn

-----------------------------------------------------------------------------
\* Places and numbers are in the same order; no number and no place is left out;
\* what lies before a record in the file is in the file.
InOrder  == \A p, q \in Places :
                Holds(view, p) /\ Holds(view, q) /\ Before(p, q) => LSNAt(p) < LSNAt(q)
NoGap    == \A p \in Places : Holds(view, p) => 1 .. LSNAt(p) \subseteq LSNs(view)
NoHole   == \A p \in Places : Holds(view, p) =>
                \A o \in Offsets : o < p[2] => Covered(view, p[1], o)
IsPrefix == \A p, q \in Places :
                Holds(view, p) /\ Holds(stable, q) /\ Before(p, q) => Holds(stable, p)

\* When the current block can be reached, all records lie before its offset.
AtEnd ==
    pc # "down" /\ Reached =>
        /\ \A p \in Places : Holds(view, p) => LSNAt(p) <= currentLSN /\ Before(p, NewPlace)
        /\ \A o \in Offsets : o < blockOffsets[currentLogBlock] =>
                Covered(view, currentLogBlock, o)

\* A current block that is not in the file is never full, so that it stays the
\* current one.
Stuck ==
    pc # "down" /\ ~broken =>
        /\ currentLogBlock # NoBlock
        /\ currentLogBlock < allocated \/ blockOffsets[currentLogBlock] = 0

OInv == /\ InOrder /\ NoGap /\ NoHole /\ IsPrefix
        /\ AtEnd /\ Stuck /\ IndexFindsRecords

-----------------------------------------------------------------------------
LEMMA BeforeTotal ==
  ASSUME NEW p \in Places, NEW q \in Places
  PROVE  p = q \/ Before(p, q) \/ Before(q, p)
<1>1. /\ p = <<p[1], p[2]>> /\ p[1] \in Int /\ p[2] \in Int
      /\ q = <<q[1], q[2]>> /\ q[1] \in Int /\ q[2] \in Int
  BY Bounds DEF Offsets
<1>2. p[1] = q[1] /\ p[2] = q[2] => p = q
  BY <1>1
<1> QED
  BY <1>1, <1>2 DEF Before

LEMMA LSNInteger ==
  ASSUME IInv, NEW p \in Places, Holds(view, p)
  PROVE  LSNAt(p) \in 1 .. MaxLSN
  BY DEF IInv, StoreOK, LSNAt

\* A record with a smaller number lies before.
LEMMA SmallerBefore ==
  ASSUME IInv, InOrder, NEW p \in Places, NEW q \in Places,
         Holds(view, p), Holds(view, q), LSNAt(p) <= LSNAt(q)
  PROVE  p = q \/ Before(p, q)
<1>1. LSNAt(p) \in Int /\ LSNAt(q) \in Int
  BY LSNInteger
<1>2. ~Before(q, p)
  BY <1>1 DEF InOrder
<1> QED
  BY <1>2, BeforeTotal

LEMMA InFile ==
  ASSUME IInv, NEW p \in Places, Holds(stable, p)
  PROVE  Holds(view, p) /\ LSNAt(p) = RecordAt(stable, p).lsn
  BY DEF IInv, StoreOK, Holds, LSNAt

\* The numbers in the file have no gaps either.
LEMMA FileNoGap ==
  ASSUME IInv, OInv, NEW p \in Places, Holds(stable, p)
  PROVE  1 .. LSNAt(p) \subseteq LSNs(stable)
<1> SUFFICES ASSUME NEW l \in 1 .. LSNAt(p) PROVE l \in LSNs(stable)
  OBVIOUS
<1>1. Holds(view, p)
  BY InFile
<1>2. PICK q \in Places : Holds(view, q) /\ RecordAt(view, q).lsn = l
  BY <1>1, LSNsOf DEF OInv, NoGap
<1>3. q = p \/ Before(q, p)
  BY <1>1, <1>2, SmallerBefore DEF OInv, LSNAt
<1>4. Holds(stable, q)
  BY <1>2, <1>3 DEF OInv, IsPrefix
<1>5. RecordAt(stable, q).lsn = l
  BY <1>2, <1>4, InFile DEF LSNAt
<1> QED
  BY <1>4, <1>5, LSNsOf

LEMMA FileNoHole ==
  ASSUME IInv, OInv, NEW p \in Places, Holds(stable, p), NEW o \in Offsets, o < p[2]
  PROVE  Covered(stable, p[1], o)
<1>1. Holds(view, p) /\ p[1] \in Blocks /\ p[2] \in Offsets /\ p = <<p[1], p[2]>>
  BY InFile, Bounds
<1>2. PICK start \in Offsets : /\ start <= o /\ view[p[1]][start] # NoRecord
                             /\ start + view[p[1]][start].length > o
  BY <1>1 DEF OInv, NoHole, Covered
<1>3. <<p[1], start>> \in Places /\ Before(<<p[1], start>>, p) /\ Holds(view, <<p[1], start>>)
  BY <1>1, <1>2, Bounds DEF Places, Before, Holds, RecordAt, Offsets
<1>4. Holds(stable, <<p[1], start>>)
  BY <1>3 DEF OInv, IsPrefix
<1>5. stable[p[1]][start] = view[p[1]][start]
  BY <1>3, <1>4 DEF IInv, StoreOK, RecordAt
<1> QED
  BY <1>2, <1>5 DEF Covered

-----------------------------------------------------------------------------
\* Steps that change no page.

LEMMA SamePages ==
  ASSUME InOrder, NoGap, NoHole, IsPrefix, UNCHANGED <<view, stable>>
  PROVE  InOrder' /\ NoGap' /\ NoHole' /\ IsPrefix'
  BY DEF InOrder, NoGap, NoHole, IsPrefix, Holds, LSNAt, RecordAt, LSNs, Covered

\* The index is left alone, and the current block is reached only if it was.
LEMMA SameIndex ==
  ASSUME OInv, pc # "down", UNCHANGED <<view, stable, allocated, currentLSN, currentLogBlock,
                                        blockOffsets, lsnBlockMap>>,
         Reached' => Reached, broken => broken'
  PROVE  OInv'
<1>1. AtEnd'
  BY DEF OInv, AtEnd, NewPlace, Holds, LSNAt, RecordAt, Covered
<1>2. Stuck'
  BY DEF OInv, Stuck
<1>3. IndexFindsRecords'
  BY DEF OInv, IndexFindsRecords, RecordAt
<1> QED
  BY <1>1, <1>2, <1>3, SamePages DEF OInv

-----------------------------------------------------------------------------
\* The start-up: what it parses is what the numbers up to the highest name.

LEMMA ParsedByNumber ==
  ASSUME IInv, OInv, pc = "down", NEW n \in 0 .. MaxBlocks, NEW p \in Parsed(n),
         NEW l \in 1 .. RecordAt(stable, p).lsn
  PROVE  \E q \in Parsed(n) : RecordAt(stable, q).lsn = l
<1>1. view = stable
  BY DEF IInv, StoreOK
<1>2. p \in Places /\ p[1] < n /\ Holds(stable, p)
  BY ParsedFound DEF IInv
<1>3. PICK q \in Places : Holds(view, q) /\ RecordAt(view, q).lsn = l
  BY <1>1, <1>2, LSNsOf DEF OInv, NoGap, LSNAt
<1>4. q = p \/ Before(q, p)
  <2>1. LSNAt(q) <= LSNAt(p)
    BY <1>1, <1>2, <1>3, LSNInteger DEF LSNAt
  <2> QED
    BY <1>1, <1>2, <1>3, <2>1, SmallerBefore DEF OInv
<1>5. /\ q[1] \in 0 .. n - 1 /\ q[2] \in Offsets /\ q = <<q[1], q[2]>>
      /\ stable[q[1]][q[2]] # NoRecord
      /\ \A o \in Offsets : o < q[2] => Covered(stable, q[1], o)
  <2>1. q[1] \in Blocks /\ p[1] \in Blocks /\ q[1] <= p[1] /\ q[2] \in Offsets /\ q = <<q[1], q[2]>>
    BY <1>2, <1>3, <1>4, Bounds DEF Before
  <2>2. q[1] \in 0 .. n - 1
    BY <1>2, <2>1, Bounds
  <2> QED
    BY <1>1, <1>3, <2>1, <2>2 DEF OInv, NoHole, Holds, RecordAt
<1>6. q \in Parsed(n)
  BY <1>5 DEF Parsed
<1> QED
  BY <1>1, <1>3, <1>6

\* If all blocks are read, every record is parsed.
LEMMA AllParsed ==
  ASSUME IInv, OInv, pc = "down", NEW p \in Places, Holds(view, p)
  PROVE  p \in Parsed(allocated)
<1>1. view = stable /\ TypeOK /\ StoreOK
  BY DEF IInv, StoreOK
<1>2. p[1] \in Blocks /\ p[2] \in Offsets /\ p = <<p[1], p[2]>>
  BY Bounds
<1>3. p[1] < allocated
  BY <1>1, <1>2, Bounds DEF StoreOK, TypeOK, Holds, RecordAt, EmptyPage
<1>4. p[1] \in 0 .. allocated - 1
  BY <1>1, <1>2, <1>3, Bounds DEF TypeOK
<1> QED
  BY <1>1, <1>2, <1>4 DEF OInv, NoHole, Parsed, Holds, RecordAt

\* The start-up can reach its current block only if it found no record.
LEMMA StartReaches ==
  ASSUME IInv, OInv, NEW n \in 0 .. MaxBlocks, NEW fails \in BOOLEAN, Start(n, fails), Reached'
  PROVE  \A p \in Places : ~Holds(view, p)
<1>1. pc = "down" /\ seen' = {} /\ n <= allocated /\ allocated \in 0 .. MaxBlocks
  BY DEF Start, IInv, CallOK, TypeOK
<1>2. Parsed(n) = {} /\ n = allocated
  BY <1>1 DEF Start, Reached, IInv, CallOK
<1> QED
  BY <1>1, <1>2, AllParsed

LEMMA StartOInv ==
  ASSUME IInv, OInv, NEW n \in 0 .. MaxBlocks, NEW fails \in BOOLEAN, Start(n, fails)
  PROVE  OInv'
<1>1. TypeOK /\ StoreOK /\ CallOK /\ pc = "down" /\ pc' = "ready"
  BY DEF IInv, Start
<1>2. /\ view = stable /\ seen = {} /\ seen' = {} /\ currentLogBlock = NoBlock
      /\ UNCHANGED <<view, stable>> /\ LoadIndex(Parsed(n))
      /\ allocated \in 0 .. MaxBlocks /\ broken = FALSE
  BY <1>1 DEF StoreOK, CallOK, Start, TypeOK
<1>3. \/ /\ currentLogBlock' = n /\ allocated' = allocated /\ broken' = fails
         /\ (~fails => n = allocated)
      \/ /\ Parsed(n) = {} /\ n = allocated /\ allocated < MaxBlocks
         /\ currentLogBlock' = allocated /\ allocated' = allocated + 1 /\ broken' = FALSE
      \/ broken' = TRUE /\ currentLogBlock' = NoBlock /\ allocated' = allocated
  BY <1>2 DEF Start
<1>4. /\ currentLSN' = Max({0} \union {RecordAt(stable, p).lsn : p \in Parsed(n)})
      /\ blockOffsets' = [b \in 0 .. MaxBlocks |-> Max({0} \union
            {p[2] + RecordAt(stable, p).length : p \in {q \in Parsed(n) : q[1] = b}})]
      /\ lsnBlockMap' = [l \in 1 .. MaxLSN |->
            IF {p \in Parsed(n) : RecordAt(stable, p).lsn = l} # {}
            THEN CHOOSE p \in {q \in Parsed(n) : RecordAt(stable, q).lsn = l} : TRUE ELSE NoPlace]
  BY <1>2 DEF LoadIndex
<1>5. ASSUME NEW b \in 0 .. MaxBlocks, b >= n PROVE blockOffsets'[b] = 0
  <2>1. {p \in Parsed(n) : p[1] = b} = {}
    BY <1>1, <1>5, ParsedFound, Bounds
  <2>2. blockOffsets'[b] = Max({0})
    BY <1>4, <2>1
  <2>3. Max({0}) \in {0}
    BY MaxOfBounded
  <2> QED
    BY <2>2, <2>3
<1>6. Stuck'
  BY <1>2, <1>3, <1>5 DEF Stuck, NoBlock
<1>7. AtEnd'
  <2>1. Reached' => currentLogBlock' = allocated /\ n = allocated /\ allocated < MaxBlocks
    BY <1>2, <1>3 DEF Reached
  <2>2. Reached' => blockOffsets'[currentLogBlock'] = 0
    BY <1>2, <1>5, <2>1
  <2> QED
    BY <1>2, <2>2, StartReaches DEF AtEnd, Holds, RecordAt, Offsets
<1>8. IndexFindsRecords'
  <2> SUFFICES ASSUME NEW l \in 1 .. currentLSN'
               PROVE  LET p == lsnBlockMap'[l]
                      IN  p # NoPlace /\ Holds(view, p) /\ RecordAt(view, p).lsn = l
    BY <1>2 DEF IndexFindsRecords, Holds, RecordAt
  <2> DEFINE S == {RecordAt(stable, p).lsn : p \in Parsed(n)}
  <2>1. {0} \union S \subseteq 0 .. MaxLSN
    <3>1. ASSUME NEW p \in Parsed(n) PROVE RecordAt(stable, p).lsn \in 1 .. MaxLSN
      <4>1. p \in Places /\ Holds(stable, p)
        BY <1>1, ParsedFound
      <4> QED
        BY <1>1, <1>2, <4>1 DEF StoreOK
    <3> QED
      BY <3>1, Bounds
  <2>2. currentLSN' \in {0} \union S /\ currentLSN' \in 0 .. MaxLSN
    BY <1>4, <2>1, MaxOfBounded, Bounds
  <2>3. l \in 1 .. MaxLSN /\ currentLSN' # 0
    BY <2>2, Bounds
  <2>4. PICK p \in Parsed(n) : RecordAt(stable, p).lsn = currentLSN'
    BY <2>2, <2>3
  <2>5. {q \in Parsed(n) : RecordAt(stable, q).lsn = l} # {}
    BY <1>1, <2>4, ParsedByNumber
  <2>6. lsnBlockMap'[l] \in {q \in Parsed(n) : RecordAt(stable, q).lsn = l}
    BY <1>4, <2>3, <2>5
  <2>7. lsnBlockMap'[l] \in Places /\ Holds(stable, lsnBlockMap'[l])
    BY <1>1, <2>6, ParsedFound
  <2>8. lsnBlockMap'[l] # NoPlace
    BY <2>7, Bounds DEF NoPlace, NoBlock
  <2> QED
    BY <1>2, <2>6, <2>7, <2>8
<1> QED
  BY <1>2, <1>6, <1>7, <1>8, SamePages DEF OInv

LEMMA AllocOInv ==
  ASSUME IInv, OInv, AllocLogBlock
  PROVE  OInv'
<1>1. TypeOK /\ StoreOK /\ CallOK /\ pc = "alloc" /\ pc' = "append" /\ ~broken
  BY DEF IInv, AllocLogBlock
<1>2. /\ UNCHANGED <<view, stable, broken, currentLSN, lsnBlockMap>>
      /\ currentLogBlock' = allocated /\ allocated' = allocated + 1
      /\ blockOffsets' = [blockOffsets EXCEPT ![allocated] = 0]
      /\ allocated \in 0 .. MaxBlocks /\ blockOffsets'[allocated] = 0
  BY <1>1 DEF AllocLogBlock, TypeOK
<1>3. Reached
  BY <1>1, Bounds DEF OInv, Stuck, Reached, CallOK, NeedsBlock
<1>4. AtEnd'
  <2>1. ASSUME NEW p \in Places, Holds(view, p) PROVE Before(p, <<allocated, 0>>)
    BY <1>1, <1>2, <2>1, Bounds DEF StoreOK, Before, Holds, RecordAt, EmptyPage
  <2>2. NewPlace' = <<allocated, 0>>
    BY <1>2 DEF NewPlace
  <2>3. \A p \in Places : Holds(view, p) => LSNAt(p) <= currentLSN
    BY <1>1, <1>3 DEF OInv, AtEnd
  <2> QED
    BY <1>2, <2>1, <2>2, <2>3 DEF AtEnd, Holds, RecordAt, LSNAt, Offsets
<1>5. Stuck'
  BY <1>2, Bounds DEF Stuck, NoBlock
<1>6. IndexFindsRecords'
  BY <1>1, <1>2 DEF OInv, IndexFindsRecords, RecordAt
<1> QED
  BY <1>2, <1>4, <1>5, <1>6, SamePages DEF OInv

\* The places and the numbers after an append.
LEMMA AppendPlaces ==
  ASSUME IInv, AppendRecord
  PROVE  /\ NewPlace \in Places /\ ~Holds(view, NewPlace) /\ ~Holds(stable, NewPlace)
         /\ Holds(view', NewPlace) /\ RecordAt(view', NewPlace).lsn = nextLSN
         /\ \A p \in Places : p # NewPlace => RecordAt(view', p) = RecordAt(view, p)
         /\ \A p \in Places : Holds(view', p) <=> p = NewPlace \/ Holds(view, p)
         /\ UNCHANGED <<stable, currentLogBlock, allocated>> /\ currentLSN' = nextLSN
         /\ nextLSN = currentLSN + 1 /\ currentLSN \in 0 .. MaxLSN /\ nextLSN \in 1 .. MaxLSN
         /\ \A l : l \in LSNs(view') <=> l = nextLSN \/ l \in LSNs(view)
<1>1. /\ NewPlace \in Places /\ ~Holds(view, NewPlace) /\ ~Holds(stable, NewPlace)
  BY AppendPlace DEF NewPlace
<1>2. /\ \A p \in Places : RecordAt(view', p) = IF p = NewPlace THEN NewRecord ELSE RecordAt(view, p)
      /\ NewRecord.lsn = nextLSN /\ NewRecord # NoRecord
      /\ nextLSN = currentLSN + 1 /\ nextLSN \in 1 .. MaxLSN
  BY AppendView, Bounds
<1>3. \A p \in Places : Holds(view', p) <=> p = NewPlace \/ Holds(view, p)
  BY <1>1, <1>2 DEF Holds
<1>4. ASSUME NEW l PROVE l \in LSNs(view') <=> l = nextLSN \/ l \in LSNs(view)
  BY <1>1, <1>2, <1>3, LSNsOf
<1>5. /\ UNCHANGED <<stable, currentLogBlock, allocated>> /\ currentLSN' = nextLSN
      /\ currentLSN \in 0 .. MaxLSN
  BY DEF AppendRecord, IInv, TypeOK
<1> QED
  BY <1>1, <1>2, <1>3, <1>4, <1>5

LEMMA AppendOInv ==
  ASSUME IInv, OInv, AppendRecord
  PROVE  OInv'
<1> DEFINE b == currentLogBlock
           o == blockOffsets[b]
<1>1. TypeOK /\ StoreOK /\ CallOK /\ pc = "append"
  BY DEF IInv, AppendRecord
<1>2. /\ Reached /\ b \in Blocks /\ b \in 0 .. MaxBlocks /\ o \in Offsets
      /\ \A p \in Places : Holds(view, p) => LSNAt(p) <= currentLSN /\ Before(p, NewPlace)
      /\ \A q \in Offsets : q < o => Covered(view, b, q)
      /\ call.length \in 1 .. Capacity
  BY <1>1, AppendPlace, Bounds DEF OInv, AtEnd, Blocks
<1>3. /\ NewPlace \in Places /\ ~Holds(view, NewPlace) /\ ~Holds(stable, NewPlace)
      /\ RecordAt(view', NewPlace).lsn = nextLSN
      /\ \A p \in Places : p # NewPlace => RecordAt(view', p) = RecordAt(view, p)
      /\ \A p \in Places : Holds(view', p) <=> p = NewPlace \/ Holds(view, p)
      /\ UNCHANGED <<stable, currentLogBlock, allocated>> /\ currentLSN' = nextLSN
      /\ nextLSN = currentLSN + 1 /\ currentLSN \in 0 .. MaxLSN
      /\ \A l : l \in LSNs(view') <=> l = nextLSN \/ l \in LSNs(view)
  BY AppendPlaces
<1>4. \A p \in Places : Holds(view, p) =>
         /\ ~Before(NewPlace, p) /\ p # NewPlace
         /\ LSNAt(p) \in Int /\ LSNAt(p) <= currentLSN /\ RecordAt(view', p).lsn = LSNAt(p)
  BY <1>2, <1>3, Bounds, LSNInteger DEF Before, NewPlace, Offsets, LSNAt
<1>5. ~Before(NewPlace, NewPlace)
  BY <1>2 DEF Before, NewPlace, Blocks, Offsets
<1>6. nextLSN \in Int /\ currentLSN \in Int /\ 1 .. currentLSN \subseteq LSNs(view)
  <2> SUFFICES ASSUME NEW l \in 1 .. currentLSN PROVE l \in LSNs(view)
    BY <1>3
  <2>1. lsnBlockMap[l] \in Places /\ Holds(view, lsnBlockMap[l]) /\ RecordAt(view, lsnBlockMap[l]).lsn = l
    BY <1>1, <1>3, Bounds DEF OInv, IndexFindsRecords, TypeOK, Holds
  <2> QED
    BY <2>1, LSNsOf
<1>7. InOrder'
  <2> SUFFICES ASSUME NEW p \in Places, NEW q \in Places, Holds(view', p), Holds(view', q), Before(p, q)
               PROVE  RecordAt(view', p).lsn < RecordAt(view', q).lsn
    BY DEF InOrder, LSNAt, Holds, RecordAt
  <2>1. Holds(view, p) /\ p # NewPlace
    BY <1>3, <1>4, <1>5
  <2>2. CASE q = NewPlace
    BY <1>3, <1>4, <1>6, <2>1, <2>2
  <2>3. CASE q # NewPlace
    BY <1>3, <1>4, <2>1, <2>3 DEF OInv, InOrder
  <2> QED
    BY <2>2, <2>3
<1>8. NoGap'
  <2> SUFFICES ASSUME NEW p \in Places, Holds(view', p), NEW l \in 1 .. RecordAt(view', p).lsn
               PROVE  l \in LSNs(view')
    BY DEF NoGap, LSNAt, Holds, RecordAt
  <2>1. CASE p = NewPlace
    BY <1>3, <1>6, <2>1
  <2>2. CASE p # NewPlace
    BY <1>3, <1>4, <2>2 DEF OInv, NoGap
  <2> QED
    BY <2>1, <2>2
<1>9. ASSUME NEW c \in Blocks, NEW q \in Offsets, Covered(view, c, q) PROVE Covered(view', c, q)
  <2>1. PICK start \in Offsets : /\ start <= q /\ view[c][start] # NoRecord
                               /\ start + view[c][start].length > q
    BY <1>9 DEF Covered
  <2>2. <<c, start>> \in Places /\ Holds(view, <<c, start>>)
    BY <2>1 DEF Places, Holds, RecordAt
  <2>3. view'[c][start] = view[c][start]
    BY <1>3, <2>2 DEF RecordAt
  <2> QED
    BY <2>1, <2>3 DEF Covered
<1>15. NoHole'
  <2> SUFFICES ASSUME NEW p \in Places, Holds(view', p), NEW q \in Offsets, q < p[2]
               PROVE  Covered(view', p[1], q)
    BY DEF NoHole, Holds, RecordAt, Covered
  <2>1. p[1] \in Blocks
    BY Bounds
  <2>2. CASE p = NewPlace
    <3>1. p[1] = b /\ p[2] = o
      BY <2>2 DEF NewPlace
    <3> QED
      BY <1>2, <1>9, <3>1
  <2>3. CASE p # NewPlace
    BY <1>3, <1>9, <2>1, <2>3 DEF OInv, NoHole
  <2> QED
    BY <2>2, <2>3
<1>10. IsPrefix'
  <2> SUFFICES ASSUME NEW p \in Places, NEW q \in Places, Holds(view', p), Holds(stable, q), Before(p, q)
               PROVE  Holds(stable, p)
    BY <1>3 DEF IsPrefix, Holds, RecordAt
  <2>1. Holds(view, q)
    BY InFile
  <2>2. Holds(view, p)
    BY <1>3, <1>4, <2>1
  <2> QED
    BY <2>2 DEF OInv, IsPrefix
<1> DEFINE end == o + call.length
<1>11. blockOffsets'[b] = end /\ end \in Int /\ end > o
  BY <1>1, <1>2 DEF AppendRecord, TypeOK, Offsets
<1>12. AtEnd'
  <2>1. NewPlace' = <<b, end>> /\ NewPlace = <<b, o>> /\ o \in Int /\ b \in Int
    BY <1>2, <1>3, <1>11 DEF NewPlace, Offsets, Blocks
  <2> HIDE DEF end
  <2>2. ASSUME NEW p \in Places, Holds(view', p)
        PROVE  RecordAt(view', p).lsn <= nextLSN /\ Before(p, <<b, end>>)
    <3>1. CASE p = NewPlace
      BY <1>3, <1>6, <1>11, <2>1, <3>1 DEF Before
    <3>2. CASE p # NewPlace
      BY <1>2, <1>3, <1>4, <1>11, <2>1, <2>2, <3>2, Bounds DEF Before, Offsets
    <3> QED
      BY <3>1, <3>2
  <2>3. ASSUME NEW q \in Offsets, q < end PROVE Covered(view', b, q)
    <3>1. CASE q < o
      BY <1>2, <1>9, <3>1
    <3>2. CASE ~(q < o)
      <4>1. RecordAt(view', NewPlace) = NewRecord /\ NewRecord.length = call.length
        BY <1>3, AppendView
      <4>2. view'[b][o] = NewRecord /\ NewRecord # NoRecord
        BY <1>3, <2>1, <4>1, AppendPlaces DEF RecordAt, Holds
      <4>3. o <= q /\ o + view'[b][o].length > q
        BY <2>1, <2>3, <3>2, <4>1, <4>2 DEF end, Offsets
      <4> QED
        BY <1>2, <4>2, <4>3 DEF Covered
    <3> QED
      BY <3>1, <3>2
  <2> QED
    BY <1>3, <1>11, <2>1, <2>2, <2>3 DEF AtEnd, Holds, LSNAt, RecordAt, Covered
<1>13. Stuck'
  BY <1>2, <1>3 DEF Stuck, Reached
<1>14. IndexFindsRecords'
  <2> SUFFICES ASSUME NEW l \in 1 .. nextLSN
               PROVE  LET p == lsnBlockMap'[l]
                      IN  p # NoPlace /\ Holds(view', p) /\ RecordAt(view', p).lsn = l
    BY <1>3 DEF IndexFindsRecords, Holds, RecordAt
  <2>1. /\ lsnBlockMap' = [lsnBlockMap EXCEPT ![nextLSN] = NewPlace]
        /\ lsnBlockMap \in [1 .. MaxLSN -> Places \union {NoPlace}] /\ nextLSN \in 1 .. MaxLSN
        /\ NewPlace # NoPlace
    BY <1>1, <1>2, AppendPlaces DEF AppendRecord, NewPlace, TypeOK, NoPlace, NoBlock, Blocks
  <2>2. CASE l = nextLSN
    BY <1>3, <2>1, <2>2
  <2>3. CASE l # nextLSN
    <3>1. l \in 1 .. currentLSN /\ l \in 1 .. MaxLSN
      BY <1>3, <2>3, Bounds
    <3>2. LET p == lsnBlockMap[l]
          IN  p # NoPlace /\ p \in Places /\ Holds(view, p) /\ RecordAt(view, p).lsn = l
      BY <1>1, <2>1, <3>1 DEF OInv, IndexFindsRecords, Holds
    <3> QED
      BY <1>3, <2>1, <2>3, <3>1, <3>2
  <2> QED
    BY <2>2, <2>3
<1> QED
  BY <1>7, <1>8, <1>10, <1>12, <1>13, <1>14, <1>15 DEF OInv

LEMMA WritePageOInv ==
  ASSUME IInv, OInv, NEW b \in Blocks, WritePage(b)
  PROVE  OInv'
<1>1. /\ b = currentLogBlock /\ b \in Dirty
      /\ UNCHANGED <<allocated, view, broken, seen, currentLSN, lastFlushedLSN, currentLogBlock,
                     blockOffsets, txLastLSN, lsnBlockMap, pc>>
  BY DEF WritePage, process, IInv, OnlyCurrentBlockDirty
<1>2. \A p \in Places : RecordAt(stable', p) = IF p[1] = b THEN RecordAt(view, p) ELSE RecordAt(stable, p)
  BY Bounds DEF WritePage, IInv, TypeOK, RecordAt
<1>3. \A c \in Blocks : c # b => stable[c] = view[c]
  BY <1>1 DEF IInv, OnlyCurrentBlockDirty, Dirty
<1>4. \A p \in Places : RecordAt(stable', p) = RecordAt(view, p)
  BY <1>2, <1>3, Bounds DEF RecordAt
<1>5. IsPrefix'
  BY <1>1, <1>4 DEF IsPrefix, Holds, RecordAt
<1>6. InOrder' /\ NoGap' /\ NoHole' /\ AtEnd' /\ Stuck' /\ IndexFindsRecords'
  BY <1>1 DEF OInv, InOrder, NoGap, NoHole, AtEnd, Stuck, IndexFindsRecords, Holds, LSNAt, RecordAt,
       LSNs, Reached, NewPlace, Covered
<1> QED
  BY <1>5, <1>6 DEF OInv

LEMMA CrashOInv ==
  ASSUME IInv, OInv, Crash
  PROVE  OInv'
<1>1. view' = stable /\ stable' = stable /\ pc' = "down"
  BY DEF Crash
<1>2. \A p \in Places : Holds(stable, p) => Holds(view, p) /\ LSNAt(p) = RecordAt(stable, p).lsn
  BY InFile
<1>3. InOrder'
  BY <1>1, <1>2 DEF OInv, InOrder, Holds, LSNAt, RecordAt
<1>4. NoGap'
  <2>1. \A p \in Places : Holds(stable, p) => 1 .. RecordAt(stable, p).lsn \subseteq LSNs(stable)
    BY <1>2, FileNoGap
  <2> QED
    BY <1>1, <2>1 DEF NoGap, Holds, LSNAt, RecordAt, LSNs
<1>5. NoHole'
  BY <1>1, FileNoHole DEF NoHole, Holds, RecordAt, Covered
<1>6. IsPrefix' /\ AtEnd' /\ Stuck' /\ IndexFindsRecords'
  BY <1>1 DEF IsPrefix, AtEnd, Stuck, IndexFindsRecords, Holds, RecordAt
<1> QED
  BY <1>3, <1>4, <1>5, <1>6 DEF OInv

LEMMA NextOInv ==
  ASSUME IInv, OInv, [Next]_vars
  PROVE  OInv'
<1> USE DEF store, process
<1>1. CASE UNCHANGED vars
  BY <1>1 DEF vars, OInv, InOrder, NoGap, NoHole, IsPrefix, AtEnd, Stuck, IndexFindsRecords, Holds,
       LSNAt, RecordAt, LSNs, Reached, NewPlace, Covered
<1>2. ASSUME NEW tx \in Transactions, NEW type \in Types, NEW length \in LengthsOf(type),
             WriteLog(type, tx, length)
      PROVE  OInv'
  BY <1>2, SameIndex DEF WriteLog, Ready, Reached
<1>3. ASSUME NEW tx \in Transactions, TraverseTxLog(tx) PROVE OInv'
  BY <1>3, SameIndex DEF TraverseTxLog, Ready, Reached
<1>4. CASE AllocLogBlockFails \/ FlushFails
  BY <1>4, SameIndex DEF AllocLogBlockFails, FlushFails, Flushing, Reached
<1>5. CASE FlushLog \/ FlushSucceeds \/ TraverseDone \/ Exit
  BY <1>5, SameIndex DEF FlushLog, FlushSucceeds, TraverseDone, Exit, Flushing, Ready, Reached
<1>6. CASE AppendFails
  <2>1. Reached' => Reached
    BY <1>6 DEF AppendFails, GetPageFails, Reached
  <2> QED
    BY <1>6, <2>1, SameIndex DEF AppendFails, GetPageFails
<1>7. CASE ReadLog
  <2>1. Reached' => Reached
    BY <1>7 DEF ReadLog, GetPage, Reached
  <2> QED
    BY <1>7, <2>1, SameIndex DEF ReadLog, GetPage
<1>8. CASE ReadLogFails
  <2>1. Reached' => Reached
    BY <1>8 DEF ReadLogFails, GetPageFails, Reached
  <2> QED
    BY <1>8, <2>1, SameIndex DEF ReadLogFails, GetPageFails
<1>9. CASE Next
  BY <1>2, <1>3, <1>4, <1>5, <1>6, <1>7, <1>8, <1>9, StartOInv, AllocOInv, AppendOInv,
     WritePageOInv, CrashOInv DEF Next, Work
<1> QED
  BY <1>1, <1>9

\* Records are numbered in the order of their places, without gaps, the file has a
\* prefix of them, and the index points at each (log_manager.cpp:58-81, 145-172).
THEOREM LogOrder == Spec => []OInv
<1>1. Init => OInv
  BY DEF Init, OInv, InOrder, NoGap, NoHole, IsPrefix, AtEnd, Stuck, IndexFindsRecords, Holds,
       RecordAt, EmptyPage, Places
<1> QED
  BY <1>1, NextOInv, LogInvariant, PTL DEF Spec

\* readLog finds every record of the log under its number, also after a restart
\* whose start-up could not read all blocks (log_manager.cpp:61, 632-644).
THEOREM RecordsAreFound == Spec => []IndexFindsRecords
<1>1. OInv => IndexFindsRecords
  BY DEF OInv
<1> QED
  BY <1>1, LogOrder, PTL

-----------------------------------------------------------------------------
\* The durable log that LogManager implements.

LEMMA NumbersOfClosed ==
  ASSUME NEW n \in Nat, NEW S \in SUBSET (1 .. n), \A l \in S : 1 .. l \subseteq S
  PROVE  Cardinality(S) \in Nat /\ S = 1 .. Cardinality(S)
<1>1. CASE S = {}
  BY <1>1, FS_EmptySet
<1>2. CASE S # {}
  <2>1. S \in SUBSET (0 .. n)
    OBVIOUS
  <2>2. Max(S) \in S /\ \A x \in S : Max(S) >= x
    BY <1>2, <2>1, MaxOfBounded
  <2>3. Max(S) \in Nat /\ Max(S) >= 1
    <3>1. Max(S) \in 1 .. n
      BY <2>2, Zenon
    <3> QED
      BY <3>1
  <2>4. S = 1 .. Max(S)
    <3>1. ASSUME NEW x \in S PROVE x \in 1 .. Max(S)
      BY <2>2, <2>3
    <3> QED
      BY <2>2, <3>1
  <2>5. Cardinality(1 .. Max(S)) = Max(S)
    BY <2>3, FS_Interval
  <2> QED
    BY <2>3, <2>4, <2>5
<1> QED
  BY <1>1, <1>2

\* The numbers of the records, and of those in the file.
NumbersOK ==
    /\ Count(view) \in Nat /\ LSNs(view) = 1 .. Count(view)
    /\ Count(stable) \in Nat /\ LSNs(stable) = 1 .. Count(stable)
    /\ Count(stable) <= Count(view)

LEMMA Numbers == IInv /\ OInv => NumbersOK
<1> SUFFICES ASSUME IInv, OInv PROVE NumbersOK
  OBVIOUS
<1>1. LSNs(view) \subseteq 1 .. MaxLSN /\ \A l \in LSNs(view) : 1 .. l \subseteq LSNs(view)
  <2> SUFFICES ASSUME NEW l \in LSNs(view) PROVE l \in 1 .. MaxLSN /\ 1 .. l \subseteq LSNs(view)
    OBVIOUS
  <2>1. PICK p \in Places : Holds(view, p) /\ RecordAt(view, p).lsn = l
    BY LSNsOf
  <2> QED
    BY <2>1, LSNInteger DEF OInv, NoGap, LSNAt
<1>2. LSNs(stable) \subseteq LSNs(view) /\ \A l \in LSNs(stable) : 1 .. l \subseteq LSNs(stable)
  <2> SUFFICES ASSUME NEW l \in LSNs(stable) PROVE l \in LSNs(view) /\ 1 .. l \subseteq LSNs(stable)
    OBVIOUS
  <2>1. PICK p \in Places : Holds(stable, p) /\ RecordAt(stable, p).lsn = l
    BY LSNsOf
  <2>2. Holds(view, p) /\ LSNAt(p) = l
    BY <2>1, InFile
  <2>3. l \in LSNs(view)
    BY <2>2, LSNsOf DEF LSNAt
  <2> QED
    BY <2>1, <2>2, <2>3, FileNoGap
<1>3. Count(view) \in Nat /\ LSNs(view) = 1 .. Count(view)
  BY <1>1, NumbersOfClosed, Bounds DEF Count
<1>4. LSNs(stable) \subseteq 1 .. MaxLSN
  BY <1>1, <1>2
<1>5. Count(stable) \in Nat /\ LSNs(stable) = 1 .. Count(stable)
  BY <1>2, <1>4, NumbersOfClosed, Bounds DEF Count
<1>6. Count(stable) <= Count(view)
  <2> SUFFICES ASSUME Count(stable) > Count(view) PROVE FALSE
    BY <1>3, <1>5
  <2>1. Count(stable) \in LSNs(stable)
    BY <1>3, <1>5
  <2> QED
    BY <1>2, <1>3, <1>5, <2>1
<1> QED
  BY <1>3, <1>5, <1>6 DEF NumbersOK

\* The record with a number is the one at the place with that number.
Numbered == \A p \in Places : Holds(view, p) => RecordNumbered(LSNAt(p)) = RecordAt(view, p)

LEMMA NumberedIsAt == IInv /\ OInv => Numbered
<1> SUFFICES ASSUME IInv, OInv, NEW p \in Places, Holds(view, p)
             PROVE  RecordNumbered(LSNAt(p)) = RecordAt(view, p)
  BY DEF Numbered
<1> DEFINE records == {RecordAt(view, q) : q \in Places} \ {NoRecord}
<1>1. LSNAt(p) \in LSNs(view)
  BY LSNsOf DEF LSNAt
<1>2. RecordNumbered(LSNAt(p)) = CHOOSE r \in records : r.lsn = LSNAt(p)
  BY <1>1 DEF RecordNumbered
<1>3. RecordAt(view, p) \in records /\ RecordAt(view, p).lsn = LSNAt(p)
  BY DEF Holds, LSNAt
<1>4. ASSUME NEW r \in records, r.lsn = LSNAt(p) PROVE r = RecordAt(view, p)
  <2>1. PICK q \in Places : r = RecordAt(view, q) /\ Holds(view, q)
    BY DEF Holds
  <2>2. LSNAt(q) = LSNAt(p) /\ LSNAt(p) \in Int
    BY <1>4, <2>1, LSNInteger DEF LSNAt
  <2>3. p = q
    BY <2>1, <2>2, BeforeTotal DEF OInv, InOrder
  <2> QED
    BY <2>1, <2>3
<1> HIDE DEF records
<1>5. (CHOOSE r \in records : r.lsn = LSNAt(p)) = RecordAt(view, p)
  BY <1>3, <1>4
<1> QED
  BY <1>2, <1>5

\* A record that is in the pages before and after a step keeps its number.
LEMMA SameRecord ==
  ASSUME IInv, OInv, IInv', OInv', NEW p \in Places, Holds(view, p), Holds(view', p),
         RecordAt(view', p) = RecordAt(view, p)
  PROVE  RecordNumbered(LSNAt(p))' = RecordNumbered(LSNAt(p))
<1>1. RecordNumbered(LSNAt(p)) = RecordAt(view, p)
  BY NumberedIsAt DEF Numbered
<1>2. Numbered'
  BY NumberedIsAt, PTL
<1>3. RecordNumbered(LSNAt(p))' = RecordAt(view', p)
  BY <1>2 DEF Numbered, Holds, RecordAt
<1> QED
  BY <1>1, <1>3

\* The log and how much of it is durable, as DurableLog sees them.
TheLog == [l \in 1 .. Count(view) |-> RecordNumbered(l)]

LEMMA FunctionIsSequence ==
  ASSUME NEW n \in Nat, NEW f, f = [i \in 1 .. n |-> f[i]]
  PROVE  /\ Len(f) = n
         /\ \A k \in 0 .. n : SubSeq(f, 1, k) = [i \in 1 .. k |-> f[i]]
<1> DEFINE S == {f[i] : i \in 1 .. n}
<1>1. f \in [1 .. n -> S]
  OBVIOUS
<1> HIDE DEF S
<1>2. f \in Seq(S) /\ Len(f) = n
  BY <1>1
<1>3. ASSUME NEW k \in 0 .. n PROVE SubSeq(f, 1, k) = [i \in 1 .. k |-> f[i]]
  BY <1>1, <1>2
<1> QED
  BY <1>2, <1>3

\* TheLog is a sequence, and its prefixes are what they should be.
LogOK ==
    /\ Len(TheLog) = Count(view)
    /\ \A k \in 0 .. Count(view) : SubSeq(TheLog, 1, k) = [l \in 1 .. k |-> RecordNumbered(l)]

LEMMA LogIsSequence == IInv /\ OInv => LogOK
<1> SUFFICES ASSUME IInv, OInv PROVE LogOK
  OBVIOUS
<1>1. Count(view) \in Nat
  BY Numbers DEF NumbersOK
<1>2. /\ TheLog = [l \in 1 .. Count(view) |-> TheLog[l]]
      /\ \A l \in 1 .. Count(view) : TheLog[l] = RecordNumbered(l)
  BY DEF TheLog
<1> QED
  BY <1>1, <1>2, FunctionIsSequence, SMTT(30) DEF LogOK

LEMMA AppendIsWrite ==
  ASSUME IInv, OInv, IInv', OInv', AppendRecord
  PROVE  Log!Write
<1>1. NumbersOK /\ LogOK /\ NumbersOK' /\ LogOK'
  <2>1. NumbersOK /\ LogOK
    BY Numbers, LogIsSequence
  <2>2. NumbersOK' /\ LogOK'
    BY Numbers, LogIsSequence, PTL
  <2> QED
    BY <2>1, <2>2
<1>2. /\ NewPlace \in Places /\ stable' = stable
      /\ RecordAt(view', NewPlace).lsn = nextLSN /\ Holds(view', NewPlace)
      /\ \A p \in Places : p # NewPlace => RecordAt(view', p) = RecordAt(view, p)
      /\ \A p \in Places : Holds(view', p) <=> p = NewPlace \/ Holds(view, p)
      /\ ~Holds(view, NewPlace)
      /\ nextLSN = currentLSN + 1 /\ currentLSN \in 0 .. MaxLSN
      /\ \A l : l \in LSNs(view') <=> l = nextLSN \/ l \in LSNs(view)
  BY AppendPlaces
<1>3. \A l \in LSNs(view) : l <= currentLSN
  <2>1. Reached /\ pc # "down"
    BY AppendPlace DEF AppendRecord
  <2> QED
    BY <2>1, LSNsOf DEF OInv, AtEnd, LSNAt
<1>4. Count(view) = currentLSN /\ Count(view)' = currentLSN + 1
  <2>1. /\ Count(view) \in Nat /\ LSNs(view) = 1 .. Count(view)
        /\ Count(view') \in Nat /\ LSNs(view') = 1 .. Count(view')
    BY <1>1, ZenonT(30) DEF NumbersOK, Count, LSNs, RecordAt
  <2>2. Count(view') >= nextLSN /\ Count(view') <= nextLSN
    BY <1>2, <1>3, <2>1, Bounds
  <2>3. Count(view) <= currentLSN /\ Count(view) >= currentLSN
    BY <1>2, <1>3, <2>1, <2>2, Bounds
  <2>4. Count(view)' = Count(view')
    BY DEF Count, LSNs, RecordAt
  <2> QED
    BY <1>2, <2>1, <2>2, <2>3, <2>4, Bounds
<1>5. ASSUME NEW l \in 1 .. Count(view) PROVE RecordNumbered(l)' = RecordNumbered(l)
  <2>1. PICK p \in Places : Holds(view, p) /\ LSNAt(p) = l
    BY <1>1, LSNsOf DEF NumbersOK, LSNAt
  <2>2. Holds(view', p) /\ RecordAt(view', p) = RecordAt(view, p)
    BY <1>2, <2>1
  <2>3. RecordNumbered(LSNAt(p))' = RecordNumbered(LSNAt(p))
    BY <2>1, <2>2, SameRecord
  <2>4. LSNAt(p)' = l
    BY <2>1, <2>2 DEF LSNAt, RecordAt
  <2> QED
    BY <2>1, <2>3, <2>4 DEF RecordNumbered
<1>6. Len(TheLog) = Count(view) /\ Len(TheLog)' = Count(view) + 1
  BY <1>1, <1>4 DEF LogOK
<1>7. SubSeq(TheLog', 1, Count(view)) = TheLog
  <2>1. Count(view) \in 0 .. Count(view)'
    BY <1>2, <1>4, Bounds
  <2>2. SubSeq(TheLog', 1, Count(view)) = [l \in 1 .. Count(view) |-> RecordNumbered(l)']
    BY <1>1, <2>1 DEF LogOK
  <2> QED
    BY <1>5, <2>2 DEF TheLog
<1>8. TheLog'[Count(view) + 1].lsn = Count(view) + 1
  <2>1. PICK n : n = Count(view) + 1
    OBVIOUS
  <2>2. PICK p \in Places : p = NewPlace
    BY <1>2
  <2>3. n \in 1 .. Count(view)'
    BY <1>2, <1>4, <2>1
  <2>4. TheLog'[n] = RecordNumbered(n)'
    BY <2>3 DEF TheLog
  <2>5. Numbered'
    BY NumberedIsAt, PTL
  <2>6. Holds(view, p)' /\ LSNAt(p)' = n /\ RecordAt(view, p)'.lsn = n
    BY <1>2, <1>4, <2>1, <2>2 DEF Holds, LSNAt, RecordAt
  <2>7. RecordNumbered(n)' = RecordAt(view, p)'
    BY <2>5, <2>6 DEF Numbered
  <2> QED
    BY <2>1, <2>4, <2>6, <2>7
<1> QED
  BY <1>2, <1>6, <1>7, <1>8, ZenonT(30) DEF Log!Write, TheLog, Count, LSNs, RecordAt

LEMMA SamePagesStutter ==
  ASSUME UNCHANGED <<view, stable>>
  PROVE  UNCHANGED Log!vars
  BY DEF Log!vars, Count, RecordNumbered, LSNs, RecordAt

LEMMA WritePageHardens ==
  ASSUME IInv, OInv, IInv', OInv', NEW b \in Blocks, WritePage(b)
  PROVE  Log!Harden \/ UNCHANGED Log!vars
<1>1. view' = view
  BY DEF WritePage
<1>2. NumbersOK /\ LogOK
  BY Numbers, LogIsSequence
<1>3. NumbersOK'
  BY Numbers, PTL
<1>4. LSNs(stable) \subseteq LSNs(stable)'
  <2> SUFFICES ASSUME NEW l \in LSNs(stable) PROVE l \in LSNs(stable')
    BY DEF LSNs, RecordAt
  <2>1. PICK p \in Places : Holds(stable, p) /\ RecordAt(stable, p).lsn = l
    BY LSNsOf
  <2>2. RecordAt(stable', p) = RecordAt(stable, p)
    BY <2>1, FileGrows DEF Next
  <2> QED
    BY <2>1, <2>2, LSNsOf DEF Holds
<1>5. /\ Count(stable) \in Nat /\ Count(stable)' \in Nat /\ Count(view) \in Nat
      /\ 1 .. Count(stable) \subseteq 1 .. Count(stable)'
      /\ Count(stable)' <= Count(view)'
  BY <1>2, <1>3, <1>4 DEF NumbersOK
<1>6. Count(stable) <= Count(stable)'
  <2> SUFFICES ASSUME Count(stable) > Count(stable)' PROVE FALSE
    BY <1>5
  <2>1. Count(stable) \in 1 .. Count(stable)
    BY <1>5
  <2> QED
    BY <1>5, <2>1
<1>7. Count(view)' = Count(view) /\ TheLog' = TheLog
  BY <1>1 DEF TheLog, Count, RecordNumbered, LSNs, RecordAt
<1>8. Len(TheLog) = Count(view)
  BY <1>2 DEF LogOK
<1>9. CASE Count(stable)' = Count(stable)
  BY <1>7, <1>9 DEF Log!vars, TheLog
<1>10. CASE Count(stable)' # Count(stable)
  <2>1. Count(stable)' \in Count(stable) + 1 .. Len(TheLog)
    BY <1>5, <1>6, <1>7, <1>8, <1>10
  <2> QED
    BY <1>7, <2>1 DEF Log!Harden, TheLog
<1> QED
  BY <1>9, <1>10

LEMMA CrashIsCrash ==
  ASSUME IInv, OInv, IInv', OInv', Crash
  PROVE  Log!Crash
<1>1. view' = stable /\ stable' = stable
  BY DEF Crash
<1>2. NumbersOK /\ LogOK
  BY Numbers, LogIsSequence
<1>3. /\ Count(stable) \in Nat /\ LSNs(stable) = 1 .. Count(stable)
      /\ Count(stable) \in 0 .. Count(view)
  BY <1>2 DEF NumbersOK
<1>4. Count(view)' = Count(stable) /\ Count(stable)' = Count(stable)
  BY <1>1 DEF Count, LSNs, RecordAt
<1>5. ASSUME NEW l \in 1 .. Count(stable) PROVE RecordNumbered(l)' = RecordNumbered(l)
  <2>1. PICK p \in Places : Holds(stable, p) /\ RecordAt(stable, p).lsn = l
    BY <1>3, LSNsOf
  <2>2. Holds(view, p) /\ RecordAt(view, p) = RecordAt(stable, p) /\ LSNAt(p) = l
    BY <2>1 DEF IInv, StoreOK, Holds, LSNAt
  <2>3. Holds(view', p) /\ RecordAt(view', p) = RecordAt(view, p)
    BY <1>1, <2>1, <2>2
  <2>4. RecordNumbered(LSNAt(p))' = RecordNumbered(LSNAt(p))
    BY <2>2, <2>3, SameRecord
  <2>5. LSNAt(p)' = l
    BY <2>2, <2>3 DEF LSNAt, RecordAt
  <2> QED
    BY <2>2, <2>4, <2>5 DEF RecordNumbered
<1>6. SubSeq(TheLog, 1, Count(stable)) = [l \in 1 .. Count(stable) |-> RecordNumbered(l)]
  BY <1>2, <1>3 DEF LogOK
<1>7. TheLog' = SubSeq(TheLog, 1, Count(stable))
  BY <1>4, <1>5, <1>6 DEF TheLog
<1> QED
  BY <1>4, <1>7 DEF Log!Crash, TheLog

LEMMA StepImplements ==
  ASSUME IInv, OInv, [Next]_vars, IInv', OInv'
  PROVE  [Log!Next]_Log!vars
  BY NextPages, SamePagesStutter, AppendIsWrite, WritePageHardens, CrashIsCrash DEF Log!Next

LEMMA InitImplements ==
  ASSUME Init
  PROVE  Log!Init
<1>1. IInv /\ \A p \in Places : ~Holds(view, p) /\ ~Holds(stable, p)
  BY InitIInv DEF Init, Holds, RecordAt, EmptyPage, Places
<1>2. LSNs(view) = {} /\ LSNs(stable) = {}
  BY <1>1 DEF LSNs, Holds
<1>3. Count(view) = 0 /\ Count(stable) = 0
  BY <1>2, FS_EmptySet DEF Count
<1>4. TheLog = << >>
  BY <1>3 DEF TheLog
<1> QED
  BY <1>3, <1>4 DEF Log!Init, TheLog

\* The log manager implements a durable log: whatever is flushed when and
\* whatever fails, records are numbered in order and without gaps, and a process
\* that dies leaves a prefix of them (log_manager.cpp:160-172, 590-620, 698).
THEOREM LogRefinement == Spec => ImplementsLog
  BY InitImplements, StepImplements, LogInvariant, LogOrder, PTL DEF Spec, ImplementsLog, Log!Spec

-----------------------------------------------------------------------------
\* The chains of the transactions.

\* The places of the records of transaction tx, and of its BEGIN records.
Of(pages, tx) == {p \in Places : Holds(pages, p) /\ RecordAt(pages, p).txId = tx}
BeginsOf(pages, tx) == {p \in Of(pages, tx) : RecordAt(pages, p).type = "begin"}

LSNIn(pages, p) == RecordAt(pages, p).lsn

\* The map of last records has the last record of each transaction it knows, and
\* knows all of them when records can be written.
LastKnown ==
    pc # "down" => \A tx \in Transactions : txLastLSN[tx] # 0 =>
        /\ \E p \in Of(view, tx) : LSNIn(view, p) = txLastLSN[tx]
        /\ \A p \in Of(view, tx) : LSNIn(view, p) <= txLastLSN[tx]

AllKnown ==
    pc # "down" /\ Reached =>
        \A tx \in Transactions : txLastLSN[tx] = 0 => Of(view, tx) = {}

\* A record other than BEGIN points to the one before it, if there is one.
Chained ==
    \A p \in Places : Holds(view, p) =>
        LET r == RecordAt(view, p)
        IN  /\ r.type = "begin" => r.prevLSN = 0
            /\ r.type # "begin" => \A q \in Of(view, r.txId) : LSNIn(view, q) < r.lsn =>
                    /\ LSNIn(view, q) <= r.prevLSN
                    /\ \E e \in Of(view, r.txId) : LSNIn(view, e) = r.prevLSN /\ r.prevLSN < r.lsn

\* A traversal has the records after the one it reads next, and stops at the
\* last BEGIN.
Traversed ==
    pc = "traverse" =>
        /\ call = [type |-> "traverse", txId |-> call.txId, at |-> call.at, chain |-> call.chain]
        /\ call.txId \in Transactions
        /\ \A f \in BeginsOf(view, call.txId) : (\A g \in BeginsOf(view, call.txId) : LSNIn(view, g) <= LSNIn(view, f)) =>
            \/ /\ call.at = 0
               /\ call.chain = {LSNIn(view, q) : q \in {x \in Of(view, call.txId) : LSNIn(view, x) >= LSNIn(view, f)}}
            \/ /\ call.at \in 1 .. currentLSN /\ call.at >= LSNIn(view, f)
               /\ \E p \in Of(view, call.txId) : LSNIn(view, p) = call.at
               /\ call.chain = {LSNIn(view, q) : q \in {x \in Of(view, call.txId) : LSNIn(view, x) > call.at}}

CInv == LastKnown /\ AllKnown /\ Chained /\ Traversed

\* Steps that leave the records, the last ones and a traversal alone.
LEMMA SameChains ==
  ASSUME CInv, pc # "down", UNCHANGED <<view, txLastLSN>>, Reached' => Reached,
         pc' # "traverse" \/ (pc' = pc /\ call' = call /\ currentLSN' = currentLSN)
  PROVE  CInv'
<1>1. LastKnown'
  BY DEF CInv, LastKnown, Of, Holds, LSNIn, RecordAt
<1>2. AllKnown'
  BY DEF CInv, AllKnown, Of, Holds, LSNIn, RecordAt
<1>3. Chained'
  BY DEF CInv, Chained, Of, Holds, LSNIn, RecordAt
<1>4. Traversed'
  BY DEF CInv, Traversed, BeginsOf, Of, Holds, LSNIn, RecordAt
<1> QED
  BY <1>1, <1>2, <1>3, <1>4 DEF CInv

LEMMA StartCInv ==
  ASSUME IInv, OInv, CInv, NEW n \in 0 .. MaxBlocks, NEW fails \in BOOLEAN, Start(n, fails),
         OInv'
  PROVE  CInv'
<1>1. /\ pc = "down" /\ pc' = "ready" /\ UNCHANGED <<view, txLastLSN>>
      /\ txLastLSN = [tx \in Transactions |-> 0]
  BY DEF Start, IInv, CallOK
<1>2. LastKnown' /\ Traversed'
  BY <1>1 DEF LastKnown, Traversed
<1>3. Chained'
  BY <1>1 DEF CInv, Chained, Of, Holds, LSNIn, RecordAt
<1>4. AllKnown'
  BY <1>1, StartReaches DEF AllKnown, Of, Holds, RecordAt
<1> QED
  BY <1>2, <1>3, <1>4 DEF CInv

LEMMA AppendCInv ==
  ASSUME IInv, OInv, CInv, AppendRecord
  PROVE  CInv'
<1> DEFINE tx == call.txId
<1>1. /\ pc # "down" /\ Reached
      /\ txLastLSN' = [txLastLSN EXCEPT ![tx] = nextLSN]
      /\ txLastLSN \in [Transactions -> 0 .. currentLSN]
      /\ pc' \in {"commit", "ready"}
  BY AppendPlace DEF AppendRecord, IInv, TypeOK, Return
<1>2. /\ tx \in Transactions /\ NewRecord.lsn = nextLSN /\ NewRecord.type = call.type /\ NewRecord.txId = tx
      /\ RecordAt(view', NewPlace) = NewRecord
      /\ NewRecord.prevLSN = PrevLSN(call.type, tx)
  BY AppendView, AppendPlace DEF NewPlace, NewRecord
<1>3. /\ NewPlace \in Places /\ ~Holds(view, NewPlace)
      /\ \A p \in Places : p # NewPlace => RecordAt(view', p) = RecordAt(view, p)
      /\ \A p \in Places : Holds(view', p) <=> p = NewPlace \/ Holds(view, p)
      /\ nextLSN = currentLSN + 1 /\ currentLSN \in 0 .. MaxLSN
  BY AppendPlaces
<1>4. \A u : Of(view', u) = IF u = tx THEN Of(view, u) \union {NewPlace} ELSE Of(view, u)
  BY <1>2, <1>3 DEF Of, Holds, RecordAt
<1>5. \A p \in Places : Holds(view, p) =>
         LSNIn(view, p) \in Int /\ LSNIn(view, p) <= currentLSN /\ LSNIn(view', p) = LSNIn(view, p) /\ p # NewPlace
  BY <1>1, <1>3, LSNInteger DEF OInv, AtEnd, LSNAt, LSNIn
<1>6. \A p \in Places : p = NewPlace => LSNIn(view', p) = nextLSN
  BY <1>2 DEF LSNIn
<1>7. LastKnown'
  <2> SUFFICES ASSUME NEW u \in Transactions, txLastLSN'[u] # 0
               PROVE  /\ \E p \in Of(view', u) : LSNIn(view', p) = txLastLSN'[u]
                      /\ \A p \in Of(view', u) : LSNIn(view', p) <= txLastLSN'[u]
    BY DEF LastKnown
  <2>1. CASE u = tx
    <3>1. txLastLSN'[u] = nextLSN
      BY <1>1, <2>1
    <3> QED
      BY <1>3, <1>4, <1>5, <1>6, <2>1, <3>1 DEF Of
  <2>2. CASE u # tx
    <3>1. txLastLSN'[u] = txLastLSN[u]
      BY <1>1, <2>2
    <3> QED
      BY <1>1, <1>4, <1>5, <2>2, <3>1 DEF CInv, LastKnown, Of
  <2> QED
    BY <2>1, <2>2
<1>8. AllKnown'
  <2>1. \A u \in Transactions : txLastLSN'[u] = 0 => u # tx /\ txLastLSN[u] = 0
    BY <1>1, <1>3
  <2> QED
    BY <1>1, <1>4, <2>1 DEF CInv, AllKnown
<1>9. Chained'
  <2> SUFFICES ASSUME NEW p \in Places, Holds(view', p)
               PROVE  LET r == RecordAt(view', p)
                      IN  /\ r.type = "begin" => r.prevLSN = 0
                          /\ r.type # "begin" => \A q \in Of(view', r.txId) : LSNIn(view', q) < r.lsn =>
                                /\ LSNIn(view', q) <= r.prevLSN
                                /\ \E e \in Of(view', r.txId) : LSNIn(view', e) = r.prevLSN /\ r.prevLSN < r.lsn
    BY DEF Chained, Holds, RecordAt
  <2>1. CASE p = NewPlace
    <3>1. NewRecord.type = "begin" => NewRecord.prevLSN = 0
      BY <1>2 DEF PrevLSN
    <3>2. ASSUME NewRecord.type # "begin", NEW q \in Of(view', tx), LSNIn(view', q) < nextLSN
          PROVE  /\ LSNIn(view', q) <= NewRecord.prevLSN
                 /\ \E e \in Of(view', tx) : LSNIn(view', e) = NewRecord.prevLSN /\ NewRecord.prevLSN < nextLSN
      <4>1. q \in Of(view, tx)
        BY <1>3, <1>4, <1>6, <3>2
      <4>2. txLastLSN[tx] # 0
        BY <1>1, <1>2, <4>1 DEF CInv, AllKnown
      <4>3. NewRecord.prevLSN = txLastLSN[tx]
        BY <1>2, <3>2, <4>2 DEF PrevLSN, getLastLSN
      <4>4. PICK e \in Of(view, tx) : LSNIn(view, e) = txLastLSN[tx]
        BY <1>1, <1>2, <4>2 DEF CInv, LastKnown
      <4>5. LSNIn(view, q) <= txLastLSN[tx]
        BY <1>1, <1>2, <4>1, <4>2 DEF CInv, LastKnown
      <4> QED
        BY <1>1, <1>3, <1>4, <1>5, <4>1, <4>3, <4>4, <4>5 DEF Of
    <3> QED
      BY <1>2, <2>1, <3>1, <3>2
  <2>2. CASE p # NewPlace
    <3>1. Holds(view, p) /\ RecordAt(view', p) = RecordAt(view, p)
      BY <1>3, <2>2
    <3> DEFINE r == RecordAt(view, p)
    <3>2. r.lsn <= currentLSN /\ r.lsn \in Int
      BY <1>5, <3>1 DEF LSNIn
    <3>3. \A q \in Of(view', r.txId) : LSNIn(view', q) < r.lsn => q \in Of(view, r.txId) /\ LSNIn(view', q) = LSNIn(view, q)
      BY <1>3, <1>4, <1>5, <1>6, <3>2 DEF Of
    <3>4. \A e \in Of(view, r.txId) : e \in Of(view', r.txId) /\ LSNIn(view', e) = LSNIn(view, e)
      BY <1>4, <1>5 DEF Of
    <3> QED
      BY <3>1, <3>3, <3>4 DEF CInv, Chained
  <2> QED
    BY <2>1, <2>2
<1>10. Traversed'
  BY <1>1 DEF Traversed
<1> QED
  BY <1>7, <1>8, <1>9, <1>10 DEF CInv

LEMMA CrashCInv ==
  ASSUME IInv, OInv, CInv, Crash
  PROVE  CInv'
<1>1. view' = stable /\ pc' = "down"
  BY DEF Crash
<1>2. \A p \in Places : Holds(stable, p) =>
         Holds(view, p) /\ RecordAt(view, p) = RecordAt(stable, p) /\ LSNIn(view, p) = LSNIn(stable, p)
  BY DEF IInv, StoreOK, Holds, LSNIn
<1>3. Chained'
  <2> SUFFICES ASSUME NEW p \in Places, Holds(stable, p)
               PROVE  LET r == RecordAt(stable, p)
                      IN  /\ r.type = "begin" => r.prevLSN = 0
                          /\ r.type # "begin" => \A q \in Of(stable, r.txId) : LSNIn(stable, q) < r.lsn =>
                                /\ LSNIn(stable, q) <= r.prevLSN
                                /\ \E e \in Of(stable, r.txId) : LSNIn(stable, e) = r.prevLSN /\ r.prevLSN < r.lsn
    BY <1>1 DEF Chained, Holds, RecordAt
  <2> DEFINE r == RecordAt(stable, p)
  <2>1. Holds(view, p) /\ RecordAt(view, p) = r
    BY <1>2
  <2>2. r.type = "begin" => r.prevLSN = 0
    BY <2>1 DEF CInv, Chained
  <2>3. ASSUME r.type # "begin", NEW q \in Of(stable, r.txId), LSNIn(stable, q) < r.lsn
        PROVE  /\ LSNIn(stable, q) <= r.prevLSN
               /\ \E e \in Of(stable, r.txId) : LSNIn(stable, e) = r.prevLSN /\ r.prevLSN < r.lsn
    <3>1. q \in Of(view, r.txId) /\ LSNIn(view, q) = LSNIn(stable, q)
      BY <1>2 DEF Of
    <3>2. LSNIn(view, q) <= r.prevLSN
      BY <2>1, <2>3, <3>1 DEF CInv, Chained
    <3>3. PICK e \in Of(view, r.txId) : LSNIn(view, e) = r.prevLSN /\ r.prevLSN < r.lsn
      BY <2>1, <2>3, <3>1 DEF CInv, Chained
    <3>4. e \in Places /\ Holds(view, e) /\ LSNAt(e) < LSNAt(p)
      BY <2>1, <3>3 DEF Of, LSNAt, LSNIn
    <3>5. e = p \/ Before(e, p)
      BY <2>1, <3>4, SmallerBefore, LSNInteger DEF OInv
    <3>6. Holds(stable, e)
      BY <3>4, <3>5 DEF OInv, IsPrefix
    <3>7. e \in Of(stable, r.txId) /\ LSNIn(stable, e) = r.prevLSN
      BY <1>2, <3>3, <3>6 DEF Of
    <3> QED
      BY <3>1, <3>2, <3>3, <3>7
  <2> QED
    BY <2>2, <2>3
<1> QED
  BY <1>1, <1>3 DEF CInv, LastKnown, AllKnown, Traversed

LEMMA TraverseCInv ==
  ASSUME IInv, OInv, CInv, NEW tx \in Transactions, TraverseTxLog(tx)
  PROVE  CInv'
<1> DEFINE last == txLastLSN[tx]
<1>1. /\ pc = "ready" /\ pc' = "traverse" /\ UNCHANGED <<store, broken, process>>
      /\ getLastLSN(tx) # InvalidLSN
      /\ call' = [type |-> "traverse", txId |-> tx, at |-> getLastLSN(tx), chain |-> {}]
  BY DEF TraverseTxLog, Ready
<1>2. last # 0 /\ getLastLSN(tx) = last
  BY <1>1 DEF getLastLSN
<1>3. last \in 1 .. currentLSN /\ last \in Nat
  BY <1>2, Bounds DEF IInv, TypeOK
<1>4. /\ \E p \in Of(view, tx) : LSNIn(view, p) = last
      /\ \A p \in Of(view, tx) : LSNIn(view, p) <= last /\ LSNIn(view, p) \in Int
  BY <1>1, <1>2, LSNInteger DEF CInv, LastKnown, Of, LSNIn, LSNAt
<1>5. {LSNIn(view, q) : q \in {x \in Of(view, tx) : LSNIn(view, x) > last}} = {}
  BY <1>3, <1>4
<1>6. call' = [type |-> "traverse", txId |-> call'.txId, at |-> call'.at, chain |-> call'.chain]
  BY <1>1
<1>7. call'.txId = tx /\ call'.at = last /\ call'.chain = {}
  BY <1>1, <1>2
<1>8. \A f \in BeginsOf(view, tx) : last >= LSNIn(view, f)
  BY <1>4 DEF BeginsOf
<1>9. view' = view /\ currentLSN' = currentLSN /\ txLastLSN' = txLastLSN
  BY <1>1 DEF store, process
<1>10. Traversed'
  <2>1. BeginsOf(view, call.txId)' = BeginsOf(view, tx) /\ Of(view, call.txId)' = Of(view, tx)
        /\ \A p : LSNIn(view, p)' = LSNIn(view, p)
    BY <1>7, <1>9 DEF BeginsOf, Of, Holds, LSNIn, RecordAt
  <2> QED
    BY <1>3, <1>4, <1>5, <1>6, <1>7, <1>8, <1>9, <2>1 DEF Traversed
<1>11. LastKnown' /\ AllKnown' /\ Chained'
  <2>1. pc # "down" /\ (Reached' => Reached) /\ UNCHANGED <<view, txLastLSN>>
    BY <1>1 DEF Reached, store, process
  <2>2. LastKnown'
    BY <1>1, <2>1 DEF CInv, LastKnown, Of, Holds, LSNIn, RecordAt
  <2>3. AllKnown'
    BY <1>1, <2>1 DEF CInv, AllKnown, Of, Holds, RecordAt
  <2>4. Chained'
    BY <2>1 DEF CInv, Chained, Of, Holds, LSNIn, RecordAt
  <2> QED
    BY <2>2, <2>3, <2>4
<1> QED
  BY <1>10, <1>11 DEF CInv

LEMMA ReadLogCInv ==
  ASSUME IInv, OInv, CInv, ReadLog
  PROVE  CInv'
<1> DEFINE tx == call.txId
           at == call.at
           p  == lsnBlockMap[at]
           r  == RecordAt(view, p)
           After(l) == {LSNIn(view, q) : q \in {x \in Of(view, tx) : LSNIn(view, x) > l}}
<1>1. /\ pc = "traverse" /\ pc' = pc /\ at # 0 /\ HasPlace(at) /\ GetPage(p[1])
      /\ call' = [call EXCEPT !.at = r.prevLSN, !.chain = @ \union {at}]
      /\ UNCHANGED <<view, currentLSN, txLastLSN, allocated, currentLogBlock>>
  BY DEF ReadLog, store
<1>2. /\ call = [type |-> "traverse", txId |-> tx, at |-> at, chain |-> call.chain]
      /\ tx \in Transactions
  BY <1>1 DEF CInv, Traversed
<1>3. /\ call' = [type |-> "traverse", txId |-> tx, at |-> r.prevLSN, chain |-> call.chain \union {at}]
      /\ call'.txId = tx /\ call'.at = r.prevLSN /\ call'.chain = call.chain \union {at}
  <2> DEFINE prev == r.prevLSN
             chain == call.chain
  <2>1. /\ call' = [call EXCEPT !.at = prev, !.chain = chain \union {at}]
        /\ call = [type |-> "traverse", txId |-> tx, at |-> at, chain |-> chain]
    BY <1>1, <1>2
  <2> HIDE DEF tx, at, prev, chain
  <2>2. DOMAIN call' = DOMAIN call
    BY <2>1
  <2>3. call'.at = prev /\ call'.chain = chain \union {at}
    BY <2>1
  <2>4. call'.txId = tx /\ call'.type = "traverse"
    BY <2>1
  <2>5. call' = [type |-> "traverse", txId |-> tx, at |-> prev, chain |-> chain \union {at}]
    BY <2>1, <2>2, <2>3, <2>4
  <2> QED
    BY <2>3, <2>4, <2>5 DEF prev, chain
<1>4. ASSUME NEW f \in BeginsOf(view, tx), \A g \in BeginsOf(view, tx) : LSNIn(view, g) <= LSNIn(view, f)
      PROVE  \/ /\ r.prevLSN = 0
                /\ call'.chain = {LSNIn(view, q) : q \in {x \in Of(view, tx) : LSNIn(view, x) >= LSNIn(view, f)}}
             \/ /\ r.prevLSN \in 1 .. currentLSN /\ r.prevLSN >= LSNIn(view, f)
                /\ \E e \in Of(view, tx) : LSNIn(view, e) = r.prevLSN
                /\ call'.chain = After(r.prevLSN)
  <2>1. /\ at \in 1 .. currentLSN /\ at >= LSNIn(view, f) /\ call.chain = After(at)
        /\ \E e \in Of(view, tx) : LSNIn(view, e) = at
    BY <1>1, <1>4 DEF CInv, Traversed
  <2>2. Holds(view, p) /\ LSNIn(view, p) = at /\ p \in Places
    BY <1>1, <2>1 DEF OInv, IndexFindsRecords, Holds, LSNIn, HasPlace, IInv, TypeOK
  <2>3. \A x \in Of(view, tx) : x \in Places /\ Holds(view, x) /\ LSNIn(view, x) \in 1 .. MaxLSN
    BY LSNInteger DEF Of, LSNIn, LSNAt
  <2>4. p \in Of(view, tx)
    <3>1. PICK e \in Of(view, tx) : LSNIn(view, e) = at
      BY <2>1
    <3>2. e = p
      BY <2>2, <2>3, <3>1, BeforeTotal DEF OInv, InOrder, LSNIn, LSNAt
    <3> QED
      BY <3>1, <3>2
  <2>5. \A x \in Of(view, tx) : LSNIn(view, x) = at => x = p
    BY <2>2, <2>3, BeforeTotal DEF OInv, InOrder, LSNIn, LSNAt
  <2>6. f \in Of(view, tx) /\ RecordAt(view, f).type = "begin"
    BY DEF BeginsOf
  <2>7. call'.chain = {LSNIn(view, q) : q \in {x \in Of(view, tx) : LSNIn(view, x) >= at}}
    <3>1. at \in {LSNIn(view, q) : q \in {x \in Of(view, tx) : LSNIn(view, x) >= at}}
      BY <2>1, <2>2, <2>4
    <3>2. {LSNIn(view, q) : q \in {x \in Of(view, tx) : LSNIn(view, x) >= at}} = After(at) \union {at}
      BY <2>1, <2>3, <3>1
    <3> QED
      BY <1>3, <2>1, <3>2
  <2>8. CASE p = f
    BY <2>2, <2>6, <2>7, <2>8 DEF CInv, Chained
  <2>9. CASE p # f
    <3>1. LSNIn(view, f) < at
      BY <2>1, <2>3, <2>5, <2>6, <2>9
    <3>2. r.type # "begin" /\ r.txId = tx /\ r.lsn = at
      BY <1>4, <2>1, <2>2, <2>3, <2>4, <3>1 DEF BeginsOf, Of, LSNIn
    <3>3. \A q \in Of(view, tx) : LSNIn(view, q) < at =>
            /\ LSNIn(view, q) <= r.prevLSN
            /\ \E e \in Of(view, tx) : LSNIn(view, e) = r.prevLSN /\ r.prevLSN < at
      BY <2>2, <3>2 DEF CInv, Chained
    <3>4. PICK e \in Of(view, tx) : LSNIn(view, e) = r.prevLSN /\ r.prevLSN < at
      BY <2>6, <3>1, <3>3
    <3>5. r.prevLSN \in 1 .. MaxLSN /\ r.prevLSN >= LSNIn(view, f)
      BY <2>3, <2>6, <3>1, <3>3, <3>4
    <3>6. r.prevLSN \in 1 .. currentLSN
      BY <2>1, <3>4, <3>5, Bounds DEF IInv, TypeOK
    <3>7. \A x \in Of(view, tx) : LSNIn(view, x) >= at <=> LSNIn(view, x) > r.prevLSN
      BY <2>1, <2>3, <3>3, <3>4, <3>5
    <3>8. call'.chain = After(r.prevLSN)
      BY <2>7, <3>7
    <3> QED
      BY <3>4, <3>5, <3>6, <3>8
  <2> QED
    BY <2>8, <2>9
<1>5. view' = view /\ currentLSN' = currentLSN /\ txLastLSN' = txLastLSN /\ pc # "down"
  BY <1>1
<1>6. Reached' => Reached
  BY <1>1 DEF GetPage, Reached
<1>7. Traversed'
  <2> HIDE DEF p, r
  <2> QED
    BY <1>2, <1>3, <1>4, <1>5 DEF Traversed
<1>8. LastKnown'
  BY <1>5 DEF CInv, LastKnown
<1>9. AllKnown'
  BY <1>5, <1>6 DEF CInv, AllKnown
<1>10. Chained'
  BY <1>5 DEF CInv, Chained
<1> QED
  BY <1>7, <1>8, <1>9, <1>10 DEF CInv

LEMMA NextCInv ==
  ASSUME IInv, OInv, CInv, [Next]_vars, OInv'
  PROVE  CInv'
<1> USE DEF store, process
<1>1. CASE UNCHANGED vars
  <2>1. CASE pc # "down"
    BY <1>1, <2>1, SameChains DEF vars, Reached
  <2>2. CASE pc = "down"
    <3>1. pc' = "down" /\ view' = view
      BY <1>1, <2>2 DEF vars
    <3>2. Chained'
      BY <3>1 DEF CInv, Chained, Of, Holds, LSNIn, RecordAt
    <3> QED
      BY <3>1, <3>2 DEF CInv, LastKnown, AllKnown, Traversed
  <2> QED
    BY <2>1, <2>2
<1>2. ASSUME NEW tx \in Transactions, NEW type \in Types, NEW length \in LengthsOf(type),
             WriteLog(type, tx, length)
      PROVE  CInv'
  BY <1>2, SameChains DEF WriteLog, Ready, Reached
<1>3. CASE AllocLogBlockFails \/ FlushFails \/ FlushLog \/ FlushSucceeds \/ TraverseDone \/ Exit
  <2>1. pc # "down" /\ pc' # "traverse" /\ UNCHANGED <<view, txLastLSN>>
    BY <1>3 DEF AllocLogBlockFails, FlushFails, FlushLog, FlushSucceeds, TraverseDone, Exit,
         Flushing, Ready, Return
  <2>2. UNCHANGED <<currentLogBlock, allocated, seen>> /\ (broken' = TRUE \/ broken' = broken)
    BY <1>3 DEF AllocLogBlockFails, FlushFails, FlushLog, FlushSucceeds, TraverseDone, Exit
  <2>3. Reached' => Reached
    BY <2>2 DEF Reached
  <2> QED
    BY <2>1, <2>3, SameChains
<1>4. CASE AllocLogBlock
  <2>1. UNCHANGED <<view, txLastLSN>> /\ pc = "alloc" /\ pc' = "append" /\ ~broken
    BY <1>4 DEF AllocLogBlock
  <2>2. Reached
    BY <2>1, Bounds DEF OInv, Stuck, Reached, IInv, CallOK, NeedsBlock, TypeOK
  <2> QED
    BY <2>1, <2>2, SameChains
<1>5. CASE AppendFails
  <2>1. Reached' => Reached
    BY <1>5 DEF AppendFails, GetPageFails, Reached
  <2> QED
    BY <1>5, <2>1, SameChains DEF AppendFails, Return
<1>6. CASE ReadLogFails
  <2>1. Reached' => Reached
    BY <1>6 DEF ReadLogFails, GetPageFails, Reached
  <2> QED
    BY <1>6, <2>1, SameChains DEF ReadLogFails, Return
<1>7. ASSUME NEW b \in Blocks, WritePage(b) PROVE CInv'
  <2>1. pc # "down"
    BY <1>7 DEF WritePage, IInv, StoreOK, Dirty
  <2> QED
    BY <1>7, <2>1, SameChains DEF WritePage, Reached
<1>8. CASE Next
  BY <1>2, <1>3, <1>4, <1>5, <1>6, <1>7, <1>8, StartCInv, AppendCInv, ReadLogCInv, TraverseCInv,
     CrashCInv DEF Next, Work
<1> QED
  BY <1>1, <1>8

LEMMA CInvComplete ==
  ASSUME IInv, CInv
  PROVE  TraversalComplete
<1> DEFINE tx == call.txId
<1> SUFFICES ASSUME pc = "traverse", call.at = 0, Begins(tx) # {}
             PROVE  \E first \in Begins(tx) :
                      /\ \A r \in Begins(tx) : r.lsn <= first.lsn
                      /\ call.chain = {r.lsn : r \in {q \in RecordsOf(tx) : q.lsn >= first.lsn}}
  BY DEF TraversalComplete
<1>1. /\ \A r \in RecordsOf(tx) : \E p \in Of(view, tx) : r = RecordAt(view, p)
      /\ \A p \in Of(view, tx) : RecordAt(view, p) \in RecordsOf(tx) /\ LSNIn(view, p) = RecordAt(view, p).lsn
                                /\ LSNIn(view, p) \in 1 .. MaxLSN
  BY LSNInteger DEF RecordsOf, Of, Holds, LSNIn, LSNAt
<1>2. /\ \A r \in Begins(tx) : \E p \in BeginsOf(view, tx) : r = RecordAt(view, p)
      /\ \A p \in BeginsOf(view, tx) : RecordAt(view, p) \in Begins(tx) /\ p \in Of(view, tx)
  BY <1>1 DEF Begins, BeginsOf
<1> DEFINE S == {LSNIn(view, p) : p \in BeginsOf(view, tx)}
<1>3. S \in SUBSET (0 .. MaxLSN) /\ S # {}
  BY <1>1, <1>2, Bounds
<1>4. Max(S) \in S /\ \A x \in S : Max(S) >= x
  BY <1>3, MaxOfBounded, Bounds
<1>5. PICK f \in BeginsOf(view, tx) : \A g \in BeginsOf(view, tx) : LSNIn(view, g) <= LSNIn(view, f)
  BY <1>4
<1>6. call.chain = {LSNIn(view, q) : q \in {x \in Of(view, tx) : LSNIn(view, x) >= LSNIn(view, f)}}
  BY <1>5 DEF CInv, Traversed
<1>7. RecordAt(view, f) \in Begins(tx) /\ RecordAt(view, f).lsn = LSNIn(view, f)
  BY <1>1, <1>2
<1>8. \A r \in Begins(tx) : r.lsn <= RecordAt(view, f).lsn
  BY <1>1, <1>2, <1>5, <1>7
<1>9. call.chain = {r.lsn : r \in {q \in RecordsOf(tx) : q.lsn >= RecordAt(view, f).lsn}}
  BY <1>1, <1>6, <1>7
<1> QED
  BY <1>7, <1>8, <1>9

\* Following the chain of a transaction that was begun gives exactly its records
\* since its last BEGIN, however its blocks were flushed, evicted and read
\* (log_manager.cpp:655-685).
THEOREM TraversalsAreComplete == Spec => []TraversalComplete
<1>1. Init => CInv
  BY DEF Init, CInv, LastKnown, AllKnown, Chained, Traversed, Holds, RecordAt, EmptyPage, Places
<1>2. IInv /\ CInv => TraversalComplete
  BY CInvComplete
<1> QED
  BY <1>1, <1>2, NextCInv, LogInvariant, LogOrder, PTL DEF Spec

=============================================================================
