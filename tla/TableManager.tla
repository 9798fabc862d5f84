---------------------------- MODULE TableManager ----------------------------
(***************************************************************************)
(* The table manager (src/src/table_manager.cpp): one table's records in   *)
(* slotted pages.  A page is its header and cells: the slot directory      *)
(* grows from cell 0, and making room for a slot moves all data up by one  *)
(* cell.  A cell is as long as a slot (12 bytes), records are a number of  *)
(* cells long; what stands in a cell may be read as a slot or as data,     *)
(* whichever it was written as.  Of data taken for a slot the deleted mark *)
(* is known, its offset and length are not: they may be any numbers, those *)
(* of a place inside the page among them.                                  *)
(*                                                                         *)
(* insertRecord, deleteRecord, updateRecord and vacuum change no more than *)
(* the table between two returns to the caller, so each is one step.  What *)
(* the log and the indexes are told of it is left out, and so are the      *)
(* table's statistics in the dictionary; the dictionary's page numbers are *)
(* `firstPage' and `lastPage'.  Restart is an orderly end and a new start: *)
(* the pages are on disk, the dictionary's page numbers are not.           *)
(*                                                                         *)
(* An access outside the page ends the behaviour: what the program does    *)
(* after it is unknown (`undefined').  When vacuum moves bytes by numbers  *)
(* that are not known and stays inside the page, the page is garbled: of   *)
(* its header and its cells nothing is known from then on, and calls on it *)
(* may end in every way they can.                                          *)
(*                                                                         *)
(* Bounds: MaxPages pages of PageSize cells, a free list of MaxFree.       *)
(***************************************************************************)
EXTENDS Integers, Sequences, SequencesExt

CONSTANTS
    MaxPages,
    PageSize,      \* the cells of a page, its header not counted
    MaxFree,       \* the capacity of the free list, 16 in the code
    Contents,      \* what distinguishes records of one length
    LooksDeleted,  \* contents whose bytes, taken as a slot, have a deleted mark
    Lengths,       \* of the records that callers insert
    Faults         \* the errors that may happen: a subset of FaultKinds

\* "full": getPage refuses the page of an existing block; "alloc": no block is
\* allocated; "new": getPage refuses the page of the new block.
FaultKinds == {"full", "alloc", "new"}

ASSUME TableAssumption ==
    /\ MaxPages \in Nat \ {0}
    /\ PageSize \in Nat \ {0}
    /\ MaxFree \in Nat
    /\ LooksDeleted \subseteq Contents
    /\ Lengths \subseteq Nat \ {0}
    /\ Faults \subseteq FaultKinds

Pages   == 0 .. MaxPages - 1
Cells   == 0 .. PageSize - 1
NoPage  == -1
Records == [content : Contents, length : Lengths]

VARIABLES
    table,      \* the pages and what the dictionary knows of them
    undefined,  \* the program has left a page's buffer
    \* The following only observe what callers were told.
    records,    \* the records inserted and not deleted, but for those on garbled pages
    spoiled,    \* pages whose slots are not what the code takes them for
    refused     \* the last call, if it was an insert that found no room

vars == <<table, undefined, records, spoiled, refused>>

-----------------------------------------------------------------------------
\* What a cell holds: a slot, or the part-th cell of a record, altered if something was
\* stored in it as in a slot.  The zeros of a fresh block are a slot of no length.
Slot(o, l, d) == [kind |-> "slot", offset |-> o, length |-> l, isDeleted |-> d]
Data(r, k)    == [kind |-> "data", content |-> r.content, length |-> r.length, part |-> k,
                  isDeleted |-> r.content \in LooksDeleted, altered |-> FALSE]
Zeros == Slot(0, 0, FALSE)

IsSlot(c) == c.kind = "slot"

\* A cell after `offset' was stored in it, and after `isDeleted' was.
Raised(c)        == IF IsSlot(c) THEN [c EXCEPT !.offset = @ + 1] ELSE [c EXCEPT !.altered = TRUE]
WithOffset(c, o) == IF IsSlot(c) THEN [c EXCEPT !.offset = o] ELSE [c EXCEPT !.altered = TRUE]
Marked(c)        == IF IsSlot(c) THEN [c EXCEPT !.isDeleted = TRUE]
                    ELSE [c EXCEPT !.isDeleted = TRUE, !.altered = TRUE]

\* Whether l cells from o on are inside the page.
Inside(o, l) == l = 0 \/ o + l <= PageSize

EmptyPage == [freeOffset |-> 0, recordCount |-> 0, deletedCount |-> 0,
              freeList |-> <<>>, cell |-> [x \in Cells |-> Zeros]]

\* No cell of a garbled page is known, and the numbers of its header mean nothing.
Garbled       == [EmptyPage EXCEPT !.cell = <<>>]
IsGarbled(pg) == DOMAIN pg.cell = {}

\* Mutant: the last slot is counted twice.
TotalSlots_OffByOne(pg) == pg.recordCount + pg.deletedCount + 1

\* The number of slots, as insertRecord, deleteRecord, readRecord and vacuum
\* count them: recordCount is not reduced when a record is deleted.
TotalSlots(pg) == pg.recordCount + pg.deletedCount

\* Room for n more cells.
HasRoom(pg, n) == pg.freeOffset + n <= PageSize

-----------------------------------------------------------------------------
\* findFreeSlot: the first entry of the free list that is deleted and has been long
\* enough, or a new slot.  Data marked as deleted may be long enough or not.
Reusable(pg, length) ==
    {i \in 1 .. Len(pg.freeList) :
        LET c == pg.cell[pg.freeList[i]]
        IN  c.isDeleted /\ (IsSlot(c) => c.length >= length)}

SurelyReusable(pg, length) ==
    {i \in Reusable(pg, length) : IsSlot(pg.cell[pg.freeList[i]])}

FirstReusable(pg, length) ==
    {i \in Reusable(pg, length) : \A j \in SurelyReusable(pg, length) : i <= j}

\* Mutant: the data moves up, the slots do not follow it.
MoveUp_KeepOffsets(pg) ==
    LET t == TotalSlots(pg)
    IN  [pg EXCEPT
            !.freeOffset = @ + 1,
            !.cell = [x \in Cells |->
                IF x \in t + 1 .. pg.freeOffset THEN pg.cell[x - 1] ELSE pg.cell[x]]]

\* Room for one more slot: the data moves up, and the slots follow it.
MoveUp(pg) ==
    LET t == TotalSlots(pg)
    IN  [pg EXCEPT
            !.freeOffset = @ + 1,
            !.cell = [x \in Cells |->
                IF x < t THEN IF pg.cell[x].isDeleted THEN pg.cell[x] ELSE Raised(pg.cell[x])
                ELSE IF x \in t + 1 .. pg.freeOffset THEN pg.cell[x - 1]
                ELSE pg.cell[x]]]

\* The slot is written, and then the record at the end of the data.
Put(pg, s, r) ==
    LET o == pg.freeOffset
    IN  [pg EXCEPT
            !.freeOffset  = @ + r.length,
            !.recordCount = @ + 1,
            !.cell = [x \in Cells |->
                IF x \in o .. o + r.length - 1 THEN Data(r, x - o)
                ELSE IF x = s THEN Slot(o, r.length, FALSE)
                ELSE pg.cell[x]]]

Done(tb, rc, p, s) == [table |-> tb, rc |-> rc, page |-> p, slot |-> s]
Failed(tb, rc) == Done(tb, rc, NoPage, 0)

\* Mutant: the room a new slot takes is not tested for.
Extend_NoSlotRoom(tb, p, r) ==
    LET pg == tb.pages[p]
        t  == TotalSlots(pg)
    IN  IF ~HasRoom(pg, r.length) THEN Failed(tb, "BUFFER_FULL")
        ELSE IF t >= PageSize THEN Failed(tb, "undefined")
        ELSE Done([tb EXCEPT !.pages[p] = Put(MoveUp(pg), t, r)], "OK", p, t)

\* insertRecord with a new slot.
Extend(tb, p, r) ==
    LET pg == tb.pages[p]
        t  == TotalSlots(pg)
    IN  IF ~HasRoom(pg, 1 + r.length) THEN Failed(tb, "BUFFER_FULL")
        ELSE IF t >= PageSize THEN Failed(tb, "undefined")
        ELSE Done([tb EXCEPT !.pages[p] = Put(MoveUp(pg), t, r)], "OK", p, t)

\* Mutant: the slot stays in the free list.
Reuse_KeepsEntry(tb, p, r, i) ==
    LET pg == tb.pages[p]
    IN  Done([tb EXCEPT !.pages[p] = Put(pg, pg.freeList[i], r)], "OK", p, pg.freeList[i])

\* insertRecord with the slot of an entry of the free list.  (Its second test of the
\* space, for both kinds of slot, cannot fail.)
Reuse(tb, p, r, i) ==
    LET pg == tb.pages[p]
    IN  Done([tb EXCEPT !.pages[p] = Put([pg EXCEPT !.freeList = RemoveAt(@, i)],
                                         pg.freeList[i], r)],
             "OK", p, pg.freeList[i])

\* What insertRecord may come to, once it has its page.
InsertInto(tb, p, r) ==
    LET pg == tb.pages[p]
    IN  IF IsGarbled(pg)
        THEN {Done(tb, "OK", p, s) : s \in Cells}
                \union {Failed(tb, "BUFFER_FULL"), Failed(tb, "undefined")}
        ELSE {Reuse(tb, p, r, i) : i \in FirstReusable(pg, r.length)}
                \union IF SurelyReusable(pg, r.length) = {} THEN {Extend(tb, p, r)} ELSE {}

\* Mutant: the room of a new slot is never counted.
FitsLast_NoSlot(tb, r) ==
    /\ tb.lastPage # NoPage
    /\ HasRoom(tb.pages[tb.lastPage], r.length)

\* findPageForInsert: the last page, if it has room, not counting a slot if any
\* is free, or else a new one.
FitsLast(tb, r) ==
    /\ tb.lastPage # NoPage
    /\ LET pg == tb.pages[tb.lastPage]
       IN  HasRoom(pg, IF pg.freeList # <<>> THEN r.length ELSE 1 + r.length)

\* updateTableInfo.
WithLastPage(tb, p) ==
    [tb EXCEPT !.lastPage = p, !.firstPage = IF @ = NoPage THEN p ELSE @]

\* A new page: a block, whose page is initialised.  If the page cannot be had
\* the block stays allocated.
NewPage(tb) ==
    WithLastPage([tb EXCEPT !.allocated = @ + 1, !.pages[tb.allocated] = EmptyPage],
                 tb.allocated)

InsertAfresh(tb, r, faults) ==
    IF "alloc" \in faults THEN {Failed(tb, "FILE_NOT_FOUND")}
    ELSE IF tb.allocated = MaxPages THEN {}
    ELSE IF "new" \in faults THEN {Failed([tb EXCEPT !.allocated = @ + 1], "BUFFER_FULL")}
    ELSE InsertInto(NewPage(tb), tb.allocated, r)

LastGarbled(tb) == tb.lastPage # NoPage /\ IsGarbled(tb.pages[tb.lastPage])

\* What insertRecord may come to.  A garbled page may seem to have the room or not.
Insert(tb, r, faults) ==
    LET garbled == LastGarbled(tb) /\ "full" \notin faults
        fits    == FitsLast(tb, r) /\ "full" \notin faults
    IN  (IF garbled \/ fits THEN InsertInto(tb, tb.lastPage, r) ELSE {})
            \union (IF garbled \/ ~fits THEN InsertAfresh(tb, r, faults) ELSE {})

-----------------------------------------------------------------------------
\* deleteRecord: the slot is marked, its length kept for the free list.
Deleted(pg, s) ==
    [pg EXCEPT
        !.cell[s]      = Marked(@),
        !.deletedCount = @ + 1,
        !.freeList     = IF Len(@) < MaxFree THEN Append(@, s) ELSE @]

\* Whether the record of cell c, taken as a slot, is read inside the page: it may be,
\* and it surely is.
MayBeInside(c) == IsSlot(c) => Inside(c.offset, c.length)
IsInside(c)    == IsSlot(c) /\ Inside(c.offset, c.length)

\* What deleteRecord may come to.
Delete(tb, p, s, faults) ==
    LET pg == tb.pages[p]
        c  == pg.cell[s]
    IN  IF p >= tb.allocated THEN {Failed(tb, "BLOCK_NOT_FOUND")}
        ELSE IF "full" \in faults THEN {Failed(tb, "BUFFER_FULL")}
        ELSE IF IsGarbled(pg)
        THEN {Done(tb, "OK", p, s), Failed(tb, "SLOT_NOT_FOUND"), Failed(tb, "undefined")}
        ELSE IF s >= TotalSlots(pg) THEN {Failed(tb, "SLOT_NOT_FOUND")}
        ELSE IF s >= PageSize THEN {Failed(tb, "undefined")}
        ELSE IF c.isDeleted THEN {Failed(tb, "INVALID_OP")}
        ELSE (IF MayBeInside(c)
              THEN {Done([tb EXCEPT !.pages[p] = Deleted(pg, s)], "OK", p, s)} ELSE {})
                \union (IF IsInside(c) THEN {} ELSE {Failed(tb, "undefined")})

-----------------------------------------------------------------------------
\* vacuum of a page: the records are moved, in the order of their slots, to
\* where the data begins if recordCount were the number of slots.

\* One turn of its loop.  `valid' counts the records; `fate' is what is known of the
\* turns so far: all of it, that an access was outside the page, or no more than that
\* bytes were moved.  The bytes moved may cover the slot itself, whose length is then
\* another when it is added.
MoveRecord(acc, i) ==
    IF acc.fate # "known" THEN acc
    ELSE IF i >= PageSize THEN [acc EXCEPT !.fate = "outside"]
    ELSE LET s == acc.cell[i]
             o == acc.freeOffset
             moved == [x \in Cells |-> IF x \in o .. o + s.length - 1
                                       THEN acc.cell[s.offset + x - o] ELSE acc.cell[x]]
         IN  IF s.isDeleted THEN acc
             ELSE IF ~IsSlot(s) THEN [acc EXCEPT !.fate = "unknown"]
             ELSE IF ~Inside(s.offset, s.length) \/ ~Inside(o, s.length)
             THEN [acc EXCEPT !.fate = "outside"]
             ELSE IF ~IsSlot(moved[i]) THEN [acc EXCEPT !.fate = "unknown"]
             ELSE [cell |-> [moved EXCEPT ![i] = WithOffset(@, o)],
                   freeOffset |-> o + moved[i].length,
                   valid |-> acc.valid + 1,
                   fate |-> "known"]

Packed(pg) ==
    LET turn[n \in 0 .. TotalSlots(pg)] ==
            IF n = 0
            THEN [cell |-> pg.cell, freeOffset |-> pg.recordCount, valid |-> 0, fate |-> "known"]
            ELSE MoveRecord(turn[n - 1], n - 1)
    IN  turn[TotalSlots(pg)]

Fate(pg) ==
    IF IsGarbled(pg) THEN "unknown" ELSE IF pg.deletedCount = 0 THEN "known" ELSE Packed(pg).fate

VacuumPage(pg) ==
    IF Fate(pg) = "unknown" THEN Garbled
    ELSE IF pg.deletedCount = 0 THEN pg
    ELSE LET v == Packed(pg)
         IN  [freeOffset |-> v.freeOffset, recordCount |-> v.valid, deletedCount |-> 0,
              freeList |-> <<>>, cell |-> v.cell]

\* What vacuum may come to.  It goes from the first page to the first it cannot get:
\* there always is one, so that it never updates the table's statistics.
Vacuum(tb, stop) ==
    LET visited == tb.firstPage .. stop - 1
        fates   == {Fate(tb.pages[p]) : p \in visited}
    IN  (IF "outside" \in fates THEN {}
         ELSE {Failed([tb EXCEPT !.pages = [p \in Pages |->
                          IF p \in visited THEN VacuumPage(tb.pages[p]) ELSE tb.pages[p]]],
                      "BLOCK_NOT_FOUND")})
            \union (IF fates \subseteq {"known"} THEN {} ELSE {Failed(tb, "undefined")})

-----------------------------------------------------------------------------
NoRefusal == [length |-> 0, faults |-> {}, reusable |-> FALSE]

Init ==
    /\ table = [pages |-> [p \in Pages |-> EmptyPage], allocated |-> 0,
                firstPage |-> NoPage, lastPage |-> NoPage]
    /\ undefined = FALSE
    /\ records = {}
    /\ spoiled = {}
    /\ refused = NoRefusal

\* After a deletion the code sees one slot more than there is.  That spoils a
\* page once its directory is extended,
SpoilsInsert(tb, result) ==
    {p \in {result.page} \ {NoPage} : /\ tb.pages[p].deletedCount > 0
                                      /\ result.slot = TotalSlots(tb.pages[p])}

\* or packed,
SpoilsVacuum(tb, tb2) ==
    {p \in Pages : tb.pages[p].deletedCount > 0 /\ tb2.pages[p].deletedCount = 0}

\* or once a slot is deleted that no record has.
SpoilsSlot(p, s, rc) ==
    IF rc = "OK" /\ \A q \in records : q.page # p \/ q.slot # s THEN {p} ELSE {}

Without(p, s) == {q \in records : q.page # p \/ q.slot # s}

\* Those of recs that are not on a garbled page.
Followed(recs, tb) == {q \in recs : ~IsGarbled(tb.pages[q.page])}

\* The insert of r into tb, the table after a deletion of the same call, with the
\* records kept and the pages spoilt by then.
InsertStep(tb, r, faults, kept, spoilt) ==
    \E result \in Insert(tb, r, faults) :
        /\ table' = result.table
        /\ undefined' = (result.rc = "undefined")
        /\ records' = IF result.rc = "OK"
                      THEN Followed(kept \union {[page |-> result.page, slot |-> result.slot,
                                                  record |-> r]}, result.table)
                      ELSE kept
        /\ spoiled' = spoilt \union SpoilsInsert(tb, result)
        /\ refused' = IF result.rc # "BUFFER_FULL" \/ LastGarbled(tb) THEN NoRefusal
                      ELSE [length |-> r.length, faults |-> faults,
                            reusable |-> FitsLast(tb, r)
                                         /\ tb.pages[tb.lastPage].freeList # <<>>]

InsertRecord(r, faults) ==
    /\ ~undefined
    /\ InsertStep(table, r, faults, records, spoiled)

DeleteRecord(p, s, faults) ==
    /\ ~undefined
    /\ \E result \in Delete(table, p, s, faults) :
        /\ table' = result.table
        /\ undefined' = (result.rc = "undefined")
        /\ records' = IF result.rc = "OK" THEN Without(p, s) ELSE records
        /\ spoiled' = spoiled \union SpoilsSlot(p, s, result.rc)
        /\ refused' = NoRefusal

\* updateRecord: the record is deleted, then the new one inserted.
UpdateRecord(p, s, r, faults) ==
    /\ ~undefined
    /\ \E deleted \in Delete(table, p, s, {}) :
        /\ deleted.rc = "OK"
        /\ InsertStep(deleted.table, r, faults, Without(p, s),
                      spoiled \union SpoilsSlot(p, s, "OK"))

\* vacuum, which "full" may stop at any page.
VacuumTable(stop) ==
    /\ ~undefined
    /\ table.firstPage # NoPage
    /\ stop < table.allocated => "full" \in Faults
    /\ \E result \in Vacuum(table, stop) :
        /\ table' = result.table
        /\ undefined' = (result.rc = "undefined")
        /\ records' = Followed(records, result.table)
        /\ spoiled' = spoiled \union SpoilsVacuum(table, result.table)
        /\ refused' = NoRefusal

Restart ==
    /\ ~undefined
    /\ table' = [table EXCEPT !.firstPage = NoPage, !.lastPage = NoPage]
    /\ refused' = NoRefusal
    /\ UNCHANGED <<undefined, records, spoiled>>

Next ==
    \/ \E r \in Records, faults \in SUBSET Faults : InsertRecord(r, faults)
    \/ \E p \in Pages, s \in Cells, faults \in SUBSET (Faults \intersect {"full"}) :
        DeleteRecord(p, s, faults)
    \/ \E p \in Pages, s \in Cells, r \in Records, faults \in SUBSET Faults :
        UpdateRecord(p, s, r, faults)
    \/ \E stop \in table.firstPage .. table.allocated : VacuumTable(stop)
    \/ Restart

Spec == Init /\ [][Next]_vars

-----------------------------------------------------------------------------
\* readRecord finds, by its page and slot, the record that was stored.
Reads(q) ==
    LET pg == table.pages[q.page]
        c  == pg.cell[q.slot]
    IN  /\ q.slot < TotalSlots(pg)
        /\ IsSlot(c)
        /\ ~c.isDeleted
        /\ c.length = q.record.length
        /\ Inside(c.offset, c.length)
        /\ \A k \in 0 .. c.length - 1 : pg.cell[c.offset + k] = Data(q.record, k)

\* (On a spoilt page a slot may point anywhere.)
Cell ==
    [kind : {"slot"}, offset : Nat, length : 0 .. PageSize, isDeleted : BOOLEAN]
    \union [kind : {"data"}, content : Contents, length : Lengths, part : Cells,
            isDeleted : BOOLEAN, altered : BOOLEAN]

\* Type invariant.  What the header of a page counts and points at stays within the
\* page on every page whose slots are what the code takes them for; on a spoilt page
\* its numbers are natural, and freeOffset may be anywhere behind the page; only a
\* spoilt page is garbled.
TypeOK ==
    /\ table.allocated \in 0 .. MaxPages
    /\ table.firstPage \in -1 .. table.allocated - 1
    /\ table.lastPage \in table.firstPage .. table.allocated - 1
    /\ \A p \in Pages : LET pg == table.pages[p] IN
        /\ pg.freeOffset \in Nat
        /\ pg.recordCount \in Nat /\ pg.deletedCount \in Nat
        /\ pg.freeList \in SeqOf(Cells, MaxFree)
        /\ IsGarbled(pg) \/ pg.cell \in [Cells -> Cell]
        /\ p \notin spoiled =>
            /\ pg.freeOffset <= PageSize
            /\ pg.recordCount <= pg.freeOffset
            /\ ~IsGarbled(pg)
    /\ undefined \in BOOLEAN
    /\ \A q \in records : q.page \in Pages /\ q.slot \in Cells /\ q.record \in Records
    /\ spoiled \subseteq Pages

\* A record that was inserted and not deleted is read back as it was, wherever
\* inserts, deletions and reuse of slots moved it, on every page whose directory
\* has not been extended or packed after a deletion (table_manager.cpp:76-137,
\* 277-284).
RecordsKept == \A q \in records : q.page \notin spoiled => Reads(q)

\* On such a page an entry of the free list is a slot of a deleted record, and
\* no slot is in it twice: else two records would share a slot
\* (table_manager.cpp:187-189, 414-432).
FreeSlotsDeleted ==
    \A p \in Pages \ spoiled :
        LET pg == table.pages[p]
        IN  /\ \A i \in DOMAIN pg.freeList :
                LET c == pg.cell[pg.freeList[i]] IN IsSlot(c) /\ c.isDeleted
            /\ \A i, j \in DOMAIN pg.freeList : pg.freeList[i] = pg.freeList[j] => i = j
            /\ \A q \in records : q.page = p => q.slot \notin ToSet(pg.freeList)

\* The table leaves a page's buffer only after a deletion from some page.
InsideWithoutDeletion ==
    undefined => spoiled # {} \/ \E p \in Pages : table.pages[p].deletedCount > 0

\* Without errors a record is refused only if no page could hold it, or because
\* a free slot that is too short kept the room for a new one from being counted
\* (table_manager.cpp:93-96, 374-378).
RefusalExplained ==
    refused # NoRefusal /\ refused.faults = {} =>
        refused.length + 1 > PageSize \/ refused.reusable

-----------------------------------------------------------------------------
\* Every record that was inserted and not deleted is read back as it was: the
\* data "is moved as a whole to make room for the new slot" (comment at
\* table_manager.cpp:99) and vacuum "moves the valid records" (comment at
\* table_manager.cpp:311).
AllRecordsKept == ~undefined => \A q \in records : Reads(q)
=============================================================================
