------------------------------ MODULE DataDict ------------------------------
(***************************************************************************)
(* The data dictionary (src/src/data_dict.cpp): the tables and indexes a   *)
(* process knows, and the entries for them in two files of the page store  *)
(* (see PageStore): the tables', to which a table is appended when it is   *)
(* created, and the indexes', to which an index is appended whenever it    *)
(* changes.  No entry is ever changed or removed; a place that holds none  *)
(* reads as zeros (NoEntry).                                               *)
(*                                                                         *)
(* The process has one thread and what an operation changes in memory dies *)
(* with it, so each operation is one step: dying in the middle leaves what *)
(* one of its failures leaves.  The pool writes pages back at any time.  A *)
(* failed write or read of a file breaks its stream for the rest of the    *)
(* process, as in LogManager.                                              *)
(*                                                                         *)
(* Columns, statistics and what the log is told are left out; what         *)
(* distinguishes the versions of an index is its root.                     *)
(*                                                                         *)
(* Bounds: MaxBlocks blocks per file, MaxTables table and MaxIndexes index *)
(* numbers.                                                                *)
(***************************************************************************)
EXTENDS Integers, Sequences, SequencesExt, FiniteSetsExt

CONSTANTS
    TableNames,
    IndexNames,
    RootPages,
    Capacity,    \* [Files -> Nat]: 5 tables and 31 indexes in the code
    MaxBlocks,
    MaxTables,
    MaxIndexes,
    NoEntry,
    Faults       \* the errors that may happen: a subset of FaultKinds

\* "create": a table's or index's own file cannot be created; "full": getPage
\* refuses; "write", "append", "read": the I/O of the pool's writes, of an
\* allocation, of the start-up.
FaultKinds == {"create", "full", "write", "append", "read"}

Files   == {"tables", "indexes"}
Blocks  == 0 .. MaxBlocks - 1
NoBlock == -1
NoPage  == -1

\* Tables are numbered from 1.  Indexes are from 10000 in the code, and apart from
\* the tables here: nobody creates 9999 tables.
TableIds == 1 .. MaxTables
IndexIds == 1 .. MaxIndexes

TableEntry == [tableId : TableIds, tableName : TableNames]
IndexInfo  == [indexId : IndexIds, indexName : IndexNames, tableId : TableIds,
               rootPage : RootPages \union {NoPage}]

Entries(f) == IF f = "tables" THEN TableEntry ELSE IndexInfo
Offsets(f) == 0 .. Capacity[f] - 1
Page(f)    == [Offsets(f) -> Entries(f) \union {NoEntry}]

ASSUME DictAssumption ==
    /\ Capacity \in [Files -> Nat \ {0}]
    /\ MaxBlocks \in Nat \ {0} /\ MaxTables \in Nat \ {0} /\ MaxIndexes \in Nat \ {0}
    /\ RootPages \subseteq Nat
    /\ NoEntry \notin TableEntry \union IndexInfo
    /\ Faults \subseteq FaultKinds

VARIABLES
    file,         \* the two files, as the process and as the disk have them
    tables,       \* tables_
    indexes,      \* indexes_, whose order nothing depends on
    nextTableId,
    nextIndexId,
    running,
    \* The following only observe what callers were told.
    created,      \* the tables whose creation was reported, and not undone by a crash
    dropped,      \* the tables whose deletion was reported, and not undone by a crash
    unsaved       \* indexes whose last version could not be appended, unreported

vars == <<file, tables, indexes, nextTableId, nextIndexId, running,
          created, dropped, unsaved>>

EmptyPage(f) == [o \in Offsets(f) |-> NoEntry]

Init ==
    /\ file = [f \in Files |->
                [allocated |-> 0, broken |-> FALSE, seen |-> {},
                 view   |-> [b \in Blocks |-> EmptyPage(f)],
                 stable |-> [b \in Blocks |-> EmptyPage(f)],
                 current |-> NoBlock, offset |-> 0]]
    /\ tables = <<>>
    /\ indexes = {}
    /\ nextTableId = 1
    /\ nextIndexId = 1
    /\ running = FALSE
    /\ created = {}
    /\ dropped = {}
    /\ unsaved = {}

-----------------------------------------------------------------------------
\* The places of a file, block by block, as init visits them.
Places(f)    == Blocks \X Offsets(f)
Before(p, q) == p[1] < q[1] \/ (p[1] = q[1] /\ p[2] < q[2])

EntryAt(pages, p) == pages[p[1]][p[2]]
Taken(f, pages)   == {p \in Places(f) : EntryAt(pages, p) # NoEntry}
Found(f, pages)   == {EntryAt(pages, p) : p \in Taken(f, pages)}

\* The i-th of some places.
Nth(places, i) == CHOOSE p \in places : Cardinality({q \in places : Before(q, p)}) = i - 1

\* The entries of pages in the order of their places, which is that of tables_.
EntriesOf(f, pages) ==
    LET taken == Taken(f, pages)
    IN  [i \in 1 .. Cardinality(taken) |-> EntryAt(pages, Nth(taken, i))]

Dirty(f) == {b \in Blocks : file[f].view[b] # file[f].stable[b]}

\* The next block of a file becomes the current one.
NewBlock(fr) ==
    [fr EXCEPT !.allocated = @ + 1, !.current = fr.allocated, !.offset = 0]

\* Mutant: the test forgets the length of the entry.
NeedsBlock_Late(f) == file[f].offset > Capacity[f]

NeedsBlock(f) == file[f].offset + 1 > Capacity[f]

\* The file with room for an entry, if it can be had.
Prepared(f) ==
    IF ~NeedsBlock(f) THEN {file[f]}
    ELSE IF file[f].broken THEN {}
    ELSE {NewBlock(file[f])}

\* writeToDictCache and appendIndexMeta, when they succeed: the entry is put in
\* its place of the current block's page.  A page that was never in the pool needs
\* the file.
Appended(f, e) ==
    {[fr EXCEPT !.view[fr.current][fr.offset] = e,
                !.seen   = @ \union {fr.current},
                !.offset = @ + 1] :
        fr \in {g \in Prepared(f) : g.broken => g.current \in g.seen}}

\* And when they fail, because there is no block or no page.
NotAppended(f) ==
    (IF NeedsBlock(f) /\ (file[f].broken \/ "append" \in Faults)
     THEN {[file[f] EXCEPT !.broken = TRUE]} ELSE {})
    \union {fr \in Prepared(f) : fr.broken \/ {"full", "write"} \intersect Faults # {}}

-----------------------------------------------------------------------------
\* Mutant: the end of a full block is its beginning, as it would be if entries filled
\* it to its last byte.
LastOffset_Wrapped(f) == 0

\* Where init thinks a block it has read ends: after its last place, whether or not
\* an entry is in it (and 5 * 696 and 31 * 132 are below BLOCK_SIZE).
LastOffset(f) == Capacity[f]

\* The file after init has read it: a block is allocated if there was none, or the
\* last is full.
Loaded(f) ==
    LET fr == file[f]
    IN  IF fr.allocated = 0 \/ LastOffset(f) + 1 > Capacity[f]
        THEN NewBlock(fr)
        ELSE [fr EXCEPT !.current = fr.allocated - 1, !.offset = LastOffset(f)]

\* Mutant: the numbers go on after the number of entries.
NextId_Counted(first, ids) == first + Cardinality(ids)

\* The number after the highest of ids.
NextId(first, ids) == Max({first - 1} \union ids) + 1

\* Mutant: the first version of an index stays.
LastByName_First(pages) ==
    LET taken == Taken("indexes", pages)
    IN  {EntryAt(pages, p) : p \in {q \in taken : \A r \in taken :
            EntryAt(pages, r).indexName = EntryAt(pages, q).indexName => ~Before(r, q)}}

\* Of several versions of an index the last one counts.
LastByName(pages) ==
    LET taken == Taken("indexes", pages)
    IN  {EntryAt(pages, p) : p \in {q \in taken : \A r \in taken :
            EntryAt(pages, r).indexName = EntryAt(pages, q).indexName => ~Before(q, r)}}

\* What the process knows of a table whose entry it has.
InfoOf(e) == [tableId |-> e.tableId, tableName |-> e.tableName,
              firstPage |-> NoPage, lastPage |-> NoPage]

\* init.
Start ==
    LET tablePages == file["tables"].stable
        indexPages == file["indexes"].stable
        entries    == EntriesOf("tables", tablePages)
    IN  /\ ~running
        /\ \A f \in Files : file[f].allocated < MaxBlocks
        /\ tables' = [i \in DOMAIN entries |-> InfoOf(entries[i])]
        /\ nextTableId' = NextId(1, {e.tableId : e \in Found("tables", tablePages)})
        /\ indexes' = LastByName(indexPages)
        /\ nextIndexId' = NextId(1, {e.indexId : e \in Found("indexes", indexPages)})
        /\ file' = [f \in Files |-> Loaded(f)]
        /\ running' = TRUE
        /\ UNCHANGED <<created, dropped, unsaved>>

\* init fails and main ends: a block that cannot be read breaks the stream, so that
\* no block can be allocated either.  The tables' file is prepared first.
StartFails ==
    /\ ~running
    /\ {"read", "append"} \intersect Faults # {}
    /\ file["tables"].allocated < MaxBlocks
    /\ file' = [file EXCEPT !["tables"].allocated = @ + 1]
    /\ UNCHANGED <<tables, indexes, nextTableId, nextIndexId, running,
                   created, dropped, unsaved>>

-----------------------------------------------------------------------------
HasTable(n) == \E i \in DOMAIN tables : tables[i].tableName = n

\* findTable: the first table of that name.
FindTable(n) ==
    CHOOSE i \in DOMAIN tables :
        /\ tables[i].tableName = n
        /\ \A j \in DOMAIN tables : tables[j].tableName = n => i <= j

\* Mutant: the entry is written before the table's file is created.
CreateTable_EntryFirst(n) ==
    LET entry == [tableId |-> nextTableId, tableName |-> n]
    IN  /\ running
        /\ ~HasTable(n)
        /\ nextTableId <= MaxTables
        /\ NeedsBlock("tables") => file["tables"].allocated < MaxBlocks
        /\ \/ \E fr \in Appended("tables", entry) :
                /\ file' = [file EXCEPT !["tables"] = fr]
                /\ \/ /\ tables' = Append(tables, InfoOf(entry))
                      /\ created' = created \union {entry}
                      /\ dropped' = dropped \ {entry}
                   \/ /\ "create" \in Faults
                      /\ UNCHANGED <<tables, created, dropped>>
                /\ nextTableId' = nextTableId + 1
           \/ \E fr \in NotAppended("tables") :
                /\ file' = [file EXCEPT !["tables"] = fr]
                /\ UNCHANGED <<tables, nextTableId, created, dropped>>
        /\ UNCHANGED <<indexes, nextIndexId, running, unsaved>>

\* createTable.  Its number is taken back if the entry cannot be written, but not
\* if its file cannot be created.
CreateTable(n) ==
    LET entry == [tableId |-> nextTableId, tableName |-> n]
    IN  /\ running
        /\ ~HasTable(n)
        /\ nextTableId <= MaxTables
        /\ NeedsBlock("tables") => file["tables"].allocated < MaxBlocks
        /\ \/ /\ "create" \in Faults
              /\ nextTableId' = nextTableId + 1
              /\ UNCHANGED <<file, tables, created, dropped>>
           \/ \E fr \in NotAppended("tables") :
                /\ file' = [file EXCEPT !["tables"] = fr]
                /\ UNCHANGED <<tables, nextTableId, created, dropped>>
           \/ \E fr \in Appended("tables", entry) :
                /\ file' = [file EXCEPT !["tables"] = fr]
                /\ tables' = Append(tables, InfoOf(entry))
                /\ nextTableId' = nextTableId + 1
                /\ created' = created \union {entry}
                /\ dropped' = dropped \ {entry}
        /\ UNCHANGED <<indexes, nextIndexId, running, unsaved>>

\* dropTable: the table is removed from tables_, and nothing else.
DropTable(n) ==
    /\ running
    /\ HasTable(n)
    /\ tables' = RemoveAt(tables, FindTable(n))
    /\ dropped' = dropped \union {[tableId |-> tables[FindTable(n)].tableId, tableName |-> n]}
    /\ UNCHANGED <<file, indexes, nextTableId, nextIndexId, running, created, unsaved>>

\* updateTableInfo, which writes no entry either.
UpdateTableInfo(i, p) ==
    /\ running
    /\ i \in DOMAIN tables
    /\ tables' = [tables EXCEPT ![i].firstPage = IF @ = NoPage THEN p ELSE @,
                                ![i].lastPage = p]
    /\ UNCHANGED <<file, indexes, nextTableId, nextIndexId, running,
                   created, dropped, unsaved>>

\* The new version of an index is in memory; whether it was appended is not looked at.
Save(info) ==
    \/ \E fr \in Appended("indexes", info) :
        /\ file' = [file EXCEPT !["indexes"] = fr]
        /\ unsaved' = unsaved \ {info.indexId}
    \/ \E fr \in NotAppended("indexes") :
        /\ file' = [file EXCEPT !["indexes"] = fr]
        /\ unsaved' = unsaved \union {info.indexId}

\* createIndexMetadata.
CreateIndexMetadata(n, t) ==
    LET info == [indexId |-> nextIndexId, indexName |-> n,
                 tableId |-> tables[FindTable(t)].tableId, rootPage |-> NoPage]
    IN  /\ running
        /\ \A idx \in indexes : idx.indexName # n
        /\ HasTable(t)
        /\ nextIndexId <= MaxIndexes
        /\ NeedsBlock("indexes") => file["indexes"].allocated < MaxBlocks
        /\ nextIndexId' = nextIndexId + 1
        /\ \/ "create" \in Faults /\ UNCHANGED <<file, indexes, unsaved>>
           \/ indexes' = indexes \union {info} /\ Save(info)
        /\ UNCHANGED <<tables, nextTableId, running, created, dropped>>

\* updateIndexInfo, of an index that callers found here.
UpdateIndexInfo(idx, root) ==
    LET info == [idx EXCEPT !.rootPage = root]
    IN  /\ running
        /\ NeedsBlock("indexes") => file["indexes"].allocated < MaxBlocks
        /\ indexes' = (indexes \ {idx}) \union {info}
        /\ Save(info)
        /\ UNCHANGED <<tables, nextTableId, nextIndexId, running, created, dropped>>

-----------------------------------------------------------------------------
\* The pool writes a page back.
WritePage(f, b) ==
    /\ running
    /\ b \in Dirty(f)
    /\ ~file[f].broken
    /\ file' = [file EXCEPT ![f].stable[b] = file[f].view[b]]
    /\ UNCHANGED <<tables, indexes, nextTableId, nextIndexId, running,
                   created, dropped, unsaved>>

\* It fails to.
WritePageFails(f) ==
    /\ running
    /\ Dirty(f) # {}
    /\ "write" \in Faults
    /\ file' = [file EXCEPT ![f].broken = TRUE]
    /\ UNCHANGED <<tables, indexes, nextTableId, nextIndexId, running,
                   created, dropped, unsaved>>

\* The process is gone: what it knew is lost, and pages are as the disk has them.
Gone ==
    /\ tables' = <<>>
    /\ indexes' = {}
    /\ nextTableId' = 1
    /\ nextIndexId' = 1
    /\ running' = FALSE
    /\ unsaved' = {}

\* The end of main, flushAllPages having written every page.  (If that fails it is
\* some steps of WritePage, and a crash.)
Exit ==
    /\ running
    /\ \A f \in Files : Dirty(f) # {} => ~file[f].broken
    /\ file' = [f \in Files |->
                [file[f] EXCEPT !.stable = file[f].view, !.broken = FALSE, !.seen = {},
                                !.current = NoBlock, !.offset = 0]]
    /\ Gone
    /\ UNCHANGED <<created, dropped>>

\* The last block of a file, if nobody has had it in the pool, may be forgotten.
MayForget(f) ==
    /\ file[f].allocated > 0
    /\ file[f].allocated - 1 \notin file[f].seen
    /\ file[f].view[file[f].allocated - 1] = EmptyPage(f)

\* The process dies, and with it the tables that were reported and whose pages no
\* write has reached.
Crash(forgotten) ==
    /\ running
    /\ \A f \in forgotten : MayForget(f)
    /\ file' = [f \in Files |->
                [file[f] EXCEPT !.allocated = IF f \in forgotten THEN @ - 1 ELSE @,
                                !.view = file[f].stable, !.broken = FALSE, !.seen = {},
                                !.current = NoBlock, !.offset = 0]]
    /\ Gone
    /\ created' = created \intersect Found("tables", file["tables"].stable)
    /\ dropped' = {}

Next ==
    \/ Start
    \/ StartFails
    \/ \E n \in TableNames : CreateTable(n) \/ DropTable(n)
    \/ \E i \in 1 .. MaxTables, p \in RootPages : UpdateTableInfo(i, p)
    \/ \E n \in IndexNames, t \in TableNames : CreateIndexMetadata(n, t)
    \/ \E idx \in indexes, root \in RootPages : UpdateIndexInfo(idx, root)
    \/ \E f \in Files :
        \/ \E b \in Blocks : WritePage(f, b)
        \/ WritePageFails(f)
    \/ Exit
    \/ \E forgotten \in SUBSET Files : Crash(forgotten)

Spec == Init /\ [][Next]_vars

-----------------------------------------------------------------------------
TableInfo == [tableId : TableIds, tableName : TableNames,
              firstPage : RootPages \union {NoPage}, lastPage : RootPages \union {NoPage}]

\* Type invariant: the shape of the files and of what the process knows.
TypeOK ==
    /\ DOMAIN file = Files
    /\ \A f \in Files :
        /\ file[f].allocated \in 0 .. MaxBlocks
        /\ file[f].view \in [Blocks -> Page(f)] /\ file[f].stable \in [Blocks -> Page(f)]
        /\ file[f].broken \in BOOLEAN
        /\ file[f].seen \subseteq Blocks
        /\ file[f].current \in -1 .. file[f].allocated - 1
        /\ file[f].offset \in 0 .. Capacity[f]
        /\ running => file[f].current # NoBlock
    /\ ToSet(tables) \subseteq TableInfo
    /\ indexes \subseteq IndexInfo
    /\ nextTableId \in 1 .. MaxTables + 1 /\ nextIndexId \in 1 .. MaxIndexes + 1
    /\ running \in BOOLEAN
    /\ created \subseteq TableEntry /\ dropped \subseteq created
    /\ unsaved \subseteq IndexIds

OnPages(f) == Found(f, file[f].view)

NamedId(table) == [tableId |-> table.tableId, tableName |-> table.tableName]

\* Two entries of tables never have one number, and so one file: neither in two places
\* of the pages, nor in tables_, nor among the tables that were reported and that no
\* crash has undone, of this and earlier processes.  The numbers given next are those
\* of no entry or index that there is, although they are taken back when an entry
\* cannot be written and counted anew at each start (data_dict.cpp:42, 138, 157, 302).
\* It is no more than that: when a crash undoes a reported table, the next table gets
\* its number and the file it left behind.
NumbersAreNew ==
    /\ LET view == file["tables"].view
       IN  \A p, q \in Taken("tables", view) :
               EntryAt(view, p).tableId = EntryAt(view, q).tableId => p = q
    /\ \A i, j \in DOMAIN tables : tables[i].tableId = tables[j].tableId => i = j
    /\ \A d, e \in created : d.tableId = e.tableId => d = e
    /\ running => \A e \in created \union OnPages("tables") : e.tableId < nextTableId
    /\ \A i, j \in indexes : i.indexId = j.indexId => i = j
    /\ running => \A v \in indexes \union OnPages("indexes") : v.indexId < nextIndexId

\* Every table the process knows has its entry on a page, so that an orderly end
\* leaves it to the next process (data_dict.cpp:196-201, and 58-70 after a start).
TablesOnPages == \A i \in DOMAIN tables : NamedId(tables[i]) \in OnPages("tables")

\* Every entry, on a page or on the disk, is of a table whose creation was reported:
\* no failed creation shows after a restart (data_dict.cpp:149-162).
NoPhantoms ==
    OnPages("tables") \union Found("tables", file["tables"].stable) \subseteq created

\* The version of an index that the next process will load is the one this process
\* works with, unless that could not be appended (data_dict.cpp:85, 348, 372).
NewestIndexLoads ==
    running => \A idx \in indexes : idx.indexId \notin unsaved =>
        LET view == file["indexes"].view
        IN  \E p \in Taken("indexes", view) :
                /\ EntryAt(view, p) = idx
                /\ \A q \in Taken("indexes", view) :
                    Before(p, q) => EntryAt(view, q).indexName # idx.indexName

\* An entry that is on the disk stays there as it is, in every step, crashes and
\* failed starts among them: a start takes no block for empty that is not, and a page
\* written back never holds less than the disk (data_dict.cpp:51, 62, 101, 195).
EntriesStay ==
    [][\A f \in Files : \A p \in Taken(f, file[f].stable) :
        EntryAt(file'[f].stable, p) = EntryAt(file[f].stable, p)]_vars

-----------------------------------------------------------------------------
\* A table that was dropped, "deleted from the data dictionary" (comment at
\* table_manager.cpp:46), by a process that ended in order is not known to the next.
DroppedStaysDropped ==
    \A i \in DOMAIN tables : NamedId(tables[i]) \notin dropped
=============================================================================
