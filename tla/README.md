# npcbase in TLA+

Models, TLC runs and TLAPS proofs of the storage engine of
npcbase, a small single-user relational database in C++ (`src/src`,
`src/include`).  Paths below are relative to the repository.

## The system

One process, one thread.  `main` builds the components bottom-up, initialises
them, hands control to the command line, calls `flushAllPages` and lets the
destructors close the files.  Nothing runs concurrently, so what is hard here is
what happens *between* calls: the process may die at any point, any file operation
may fail, the pool may have to evict, and several components keep in memory a copy
of something that is on disk.

| component | state | operations |
|---|---|---|
| `DiskManager` | per table a file (header `{totalBlocks, usedBlocks}`, blocks of 4096 bytes) and an `fstream` | create, open, close, alloc, free, read, write |
| `MemManager` | `frames_` in four fixed partitions, `clockHand_` | getPage, releasePage, markDirty, flushPage, flushSpace, flushAllPages, getFreeFrame |
| `LogManager` | `currentLSN_`, `lastFlushedLSN_`, `currentLogBlock_`, offsets, last LSN of each transaction, index of the records | write a record of each type, flush, read, follow a chain, init |
| `DataDict` | `tables_`, `indexes_` and where their copies are on disk | init, create/drop/find/update table, create/update index |
| `TableManager` | none of its own: slotted pages in the pool | insert, delete, update, read, vacuum |
| `IndexManager` | none of its own: B+ tree pages in the pool, the root in the dictionary | create with backfill, insert and delete a record, show |
| `CLI`, SQL parser, plan, physical operators, `Test` | whether to go on | parse, dispatch, print |

The managers above the pool change a page through a pointer they get from
`getPage` and hold until `releasePage`.  They also call the disk manager directly:
to create files, to allocate blocks, and to read blocks when they start
(`log_manager.cpp:46`, `data_dict.cpp:30`, `data_dict.cpp:78`) or print an index.

### What is hard, and what makes each component correct

- **Disk manager.**  A stream that failed keeps its failbit, and nothing clears
  it; a new header stays in the stream's buffer until the stream's next seek, so
  a crash may forget an allocation.  Correct: a write that was reported stays,
  headers stay within their file, a block is not handed out twice, and
  unallocated blocks read as zeros.
- **Pool.**  Write-back and read of a miss can fail separately; the hit looks at
  all frames and the victim search at one partition; one turn of the clock clears
  the reference bits and gives up; flushing stops at the first error of each partition.  Correct: one
  frame per page, held pages stay, clean frames equal their blocks, every dirty
  frame can be written, what a flush leaves dirty is due to a failed file, and the
  whole is a store of pages.
- **Log.**  It continues after a restart, numbers records, flushes at commit and
  chains the records of a transaction.  Correct: what is on disk is a prefix of
  what was written, what counts as flushed is on disk, chains stay within their
  transaction and end.
- **Dictionary.**  A memory copy and a disk copy that are not always updated
  together.  Correct: what a restart loads is what was there.
- **Tables.**  A slotted page under insert, delete and vacuum.  Correct: records do
  not overlap and keep their slots.
- **Indexes.**  A split, borrow or merge rewrites up to two nodes, their parent, the
  parent pointers of what moved and the chain of leaves, and goes up; the root is kept in
  the dictionary, of which callers have copies; blocks are allocated on the way.  Correct:
  the tree is sorted and balanced, searches end where the entries are, links agree,
  no pins are left behind, and the leaves together are an index of the table's records.

`PROJECT.json` lists the hazards with the line where each bites and the properties
that watch it.

## The modules

| module | models | state ↔ code |
|---|---|---|
| `DiskManager` | `disk_manager.cpp`, as operators from a file to a result | `state`, `stream`, `header`/`saved` (in the stream's buffer / in the file), `size`, `block` |
| `DiskFiles` | the disk manager as a state machine: any caller, shutdown, crash | `disk` = `tableFiles_` and the files |
| `PageStore` | *abstract:* pages with a current and a stable content | – |
| `BufferPool` | `mem_manager.cpp` over `DiskManager`, with callers that hold, change and mark pages | `frames`, `clockHand`; `flush` is where `flushSpace` is |
| `LogManager` | `log_manager.cpp` over the page store | the fields of `LogManager`; `pc`, `call` is the call in progress |
| `DurableLog` | *abstract:* a log of which a crash leaves a prefix | – |
| `DataDict` | `data_dict.cpp` over the page store | `tables_`, `indexes_`, the next numbers; `file` is the two dictionary files and the place of the next entry in each |
| `TableManager` | the record operations of `table_manager.cpp` on one table | `table.pages[p]` is a page's `VarPageHeader` and its bytes in cells; `firstPage`, `lastPage` as in `TableInfo` |
| `RecordIndex` | *abstract:* a set of entries that follows the table's records | – |
| `IndexManager` | `index_manager.cpp`: one B+ tree | `index.node[p]` is a page's `IndexPageHeader` and its entries, `index.info` the root and height in the dictionary, `index.pins` the pool's pin counts |
| `MC*` | views, constraints and constants for TLC | – |
| `*Proofs` | the theorems (below) | – |

An action is a call, or the part of it between two operations on a file, where the
process may die.  How a call on a file may end is an argument (`outcome`,
`fails`, `faults`) limited by the constant `Faults`; the code's reaction, sticky
failbit included, is the model's.  Variables after the words "only observe" in a
`VARIABLES` list do not exist in the code: they remember what callers were told.

The layers: `BufferPool` uses the operators of `DiskManager` itself, so the pool is
checked with all the ways files fail.  `LogManager` and `DataDict` stand on the page
store that the pool is shown to implement: `view` is what `getPage` gives, `stable`
what the file holds, the pool may make a page stable at any time, an allocation
that nobody has used may be forgotten in a crash.  The page store needs reads of
blocks not to fail (below), so the models above the pool have read errors only
where the code reads a file directly (`init`).  `TableManager` is about what is in a
page; its errors are the ones by which `getPage` and `allocBlock` change its course.

Data is abstracted to what the properties tell apart: a block of the pool holds one of
a few contents; a block of the log is cells of the size of a record without data, and
a record as many of them as it is long, so that a short one may fit where a long one does not;
dictionary entries have one size per file; a table page is cells of 12 bytes, the size of a
slot.

The code takes data for slots, which the model follows: `Raised`, `WithOffset` and
`Marked` say what storing in such a "slot" does to the data, and of what is read from it only the
deleted mark is known.  Its offset and length may be any numbers, so an operation that
uses them has several outcomes (`InsertInto`, `Delete`, `Vacuum` are sets of results): an access
outside the page, after which nothing is known of the program (`undefined`), or one
inside it.  When `vacuum` moves bytes by such numbers, or over the slot whose length it adds
next, and no access leaves the page, the page is *garbled*: its `freeOffset` may be
anything, and later calls on it may end in every way they can.  Records on it are not followed
any more.

`IndexManager` is the largest module because the code is: every function from
`findLeaf` to `rebalanceInternalAfterDelete` is an operator from an index to an index
with the function's name, its branches in the code's order.  Two pairs of functions call each
other, each time one level up: `insertIntoParent` and `splitInternalAndInsert`,
`removeParentEntryAt` and `rebalanceInternalAfterDelete`.  What they do at one level is an
operator (`AtParent`, `RemoveEntry`) from an index to an index and what is to be
done above it, and a function of the number of levels applies it until nothing is.
`createIndex`, `onRecordInserted` and `onRecordDeleted` are the actions.  The argument `call` is what the
code passes down by value and so does not see change: the caller's copy of root and
height.  A page is pinned in the model only on the path where the code releases a page by
a number it reads from a header (`index_manager.cpp:699, 732, 862, 893`); on all others
it releases the number it pinned.  Refusals of `getPage` inside a call, after which the
functions return or follow a null pointer, are left out.

## The runs

| run | bounds | what it shows |
|---|---|---|
| `disk_files` | 2 files, 3 blocks, all errors | Reported writes stay, headers are within their files, blocks to be allocated are zeros, and only a crash or an error takes back an allocation: the last one. |
| `pool_clock` | 3 tables of 1 page over 2 frames and the log over 1, failing writes | Replacement in a full partition: one frame per page, held pages stay, a spurious refusal is not followed by another, and `flushAllPages` leaves dirty only what is at or behind a failed file in its partition. |
| `pool_store` | 2 tables of 2 pages, 1 frame, failing writes and headers | Every eviction is a miss of a page that differs from what the frame holds: the pool over its files implements `PageStore`. |
| `log` | 2 transactions, 3 blocks of 2 cells, 4 records of 1 or 2 cells, all errors | What counts as flushed is in the file, at most one block is not, the index finds every record, chains are complete, commits reported without a failed file are in it, calls end, and the whole is a `DurableLog`. |
| `log_commit` | 1 transaction, 2 blocks of 2 cells, 3 records, failing allocations only | *Violation:* a commit is reported that is not in the file. |
| `log_restart` | as `log`, no errors | *Violation:* after a restart the current log block does not exist. |
| `table` | 2 pages of 5 cells, records of 1, 2 and 5 cells, a free list of 2 | What was inserted is read back and free slots are free, on every page that no step has spoilt, and its header stays within the page; on spoilt pages numbers are natural, or the page is garbled. |
| `table_kept` | 1 page of 6 cells | *Violation:* a record that was not deleted is altered. |
| `dict` | 2 table names, 2 numbers of tables and 2 of indexes, 3 blocks per file, of 2 tables and of 1 index, all errors | No two entries or known tables have one number, what is known is on a page, no failed creation is loaded, the newest version of an index is, what is on the disk stays. |
| `dict_drop` | 2 blocks of 2 entries, no errors | *Violation:* a dropped table is back after a restart. |
| `index` | a unique index, 6 keys, one of them in two records, nodes of 2 entries, 1 failed allocation | Sorted, searchable, linked, balanced and half full over trees of three levels; pins come back; the tree implements `RecordIndex`. |
| `index_backfill` | 4 records, nodes of 2 entries | *Violation:* an index created on a full table finds the first leaf only. |

Why these bounds are enough: each has the smallest instance in which the interesting
thing happens twice.  A frame is a partition's only one, so every miss evicts; two
frames and three pages let the clock go round with and without pins, and since each page is of a
file of its own, a flush meets a failed file before and behind a healthy one; two
tables share a partition, so that one's page replaces the other's; three blocks of
two cells make the log cross a block boundary with another one to come, after a block that is
full and after one that only a shorter record would fit; four
records give the constant `InvalidLSN` (21 in the code, 3 in `log`) a record
before and after it; three blocks of the dictionary can each be on disk or
not when the process dies, and allow two restarts; blocks of two entries have an end that
is not the end of the file, those of one entry let every version of an index be lost.  `MaxBlocks`, `MaxLSN`,
`MaxFailures`, `MaxPages`, `MaxTables`, `MaxIndexes` and `MaxPins` are guards of the actions that
would exceed them.  Deadlock is not checked: the program may stop, and calls stop at
the bounds.

Nodes of two entries split, lend and merge as often as nodes can, and six keys
make a third level, so that a merge of two leaves goes on to borrow or merge above it and
shrinks the root.  Every allocation takes a new page, so the states of `index` would never
repeat: the view `TreeView` takes states for one that differ only in the
numbers of their pages or in pages that are not in the tree, which nothing reads.  No history
in the run needs `MaxPages` = 40 pages, so the run covers inserts and deletes of any length.
The two records with one key make the index refuse one of them, in every tree.

Two constraints leave states out.  `LogUnused` (`pool_store`): the log's file is not
created; it is there because empty frames carry its number.  `SpoiltAlone` (`table`): from a
state in which a page was spoilt (by an insert that extends the directory, or a vacuum,
after a deletion) steps are taken only while it is the only page; what happens to its
records is the finding of `table_kept`.  `dict` uses the symmetry of table names and `pool_clock` that of
the data tables; they have action properties (`EntriesStay`, `HeldPagesStay`), which name none of
them, and no liveness property, for which symmetry would not be sound.

### Fairness

Only `log` has a liveness property, `CallsReturn`, under
`WF_vars(Work)`: a call that has begun takes its next step unless the process
dies.  The program has one thread and waits for nothing inside a call, so this is
what running is.  Nothing is assumed of callers, restarts or the pool's own writes.

## What is proved

All for every value of the constants that satisfies the modules' assumptions.

- **Files** (`DiskFilesProofs`, over lemmas of `DiskManagerProofs` on each
  operation).  The properties are not inductive alone: that a write stays needs the
  *saved* header to cover the block, since a crash returns to it, and that needs the
  header in the stream to be at most one allocation ahead, whose block is
  still zero.  `IInv` says this of every file (`FileOK`) together with the properties;
  the lemma `QuietPreserves` covers all calls but writes, `WritePreserves` the writes.
- **Pool** (`BufferPoolProofs`).  `PoolInv` adds to types and one frame per page that
  each frame's page is in its own partition and is counted by its file's *saved*
  header.  The first is what makes "find in all frames, replace in one
  partition" safe; the second is why a write-back is never refused by a file after
  it forgot an allocation.  `Coherence` (clean frames equal their blocks) also
  needs `"read" \notin Faults`.  `HeldPages` follows for every step, since only unpinned
  frames change their page.
- **Flushing and refusals** (`BufferPoolProofs`).  `FlushComplete`, whatever the faults:
  while a flush is under way, what is dirty lies ahead of it or in a partition it has left,
  where it is at or behind a frame whose file failed (`LeftByFailure`); no step
  of a flush heals a file or makes another frame dirty.  `RefusalsEnd`, whatever the faults too: the clock that refused has gone once round its
  partition, so that no frame of it that could be evicted is left with a reference bit.
- **Refinement** (`BufferPoolProofs`): if reads of blocks do not fail, every step of pool and
  files is one of `PageStore` or a stutter.  A page's view is its frame, or else its
  block; its stable content is its block; it is held while its frame is pinned.
- **Log** (`LogManagerProofs`).  `IInv` adds to the types what a call in progress knows
  (`CallOK`), that the file holds no record the pool has not (`StoreOK`) and that the
  current block is empty from its offset on (`Room`), from which `OnlyCurrentBlockDirty` is
  inductive: a block is left only after it was flushed.  `FlushedStays` follows.
  `CommitsStay` needs no hypothesis: a record is in a page before its commit is reported, a
  flush that ends with the stream still whole has written every page, and what is in the
  file stays (`CommitInv`).
- **Order of the log** (`LogManagerProofs`).  `OInv`: the records' numbers rise without gap
  or hole over blocks and offsets, what is in the file is a prefix, the current place is
  the end of them, a current block that is missing stays the current one, and the index
  points at the records.  From it `RecordsAreFound`; `LogRefinement`, the log as `DurableLog`;
  and, with `CInv` on the links between the records of a transaction,
  `TraversalsAreComplete`.
- **Tables** (`TableProofs`).  `TInv`: on a page that is not spoilt, `GoodPage`: each
  record's slot is a slot, is not deleted, and points at the record's cells before
  `freeOffset`; a free entry is a deleted slot, of no record and of no other entry;
  and before the first deletion the directory is exactly what the header counts.  A
  slot is never where data is, since a cell is one or the other: this is why writing a
  slot or marking it disturbs no record, and why what moves up is all the data.
  `KeptRecordsRead`, `FreeSlotsAreDeleted`, `InsideUntilDeletion` and
  `RefusalsExplained` follow, whatever happened on other pages.
  `TableTypes` adds that the header of such a page counts and points within it.  Spoilt pages
  are in it only as far as the model goes on with them: slots or data in their cells
  (`TypedPage`), or garbled; `freeOffset` has no bound there, in the code either.  `vacuum` takes
  whatever is there for slots and moves what they point at: `TypedLoop` says what each turn of
  its loop leaves, for every number of turns since there is no least one that breaks it
  (`TurnsTyped`).
- **Dictionary** (`DataDictProofs`).  `IInv`: what is on the disk is on the pages in the
  same place, every entry lies before the end of its file, where the next one goes
  (`FilesInv`); numbers on the pages are below the next number, and what the process knows
  is on a page (`TablesInv`, `IndexesInv`); all versions of an index have its name, so that the
  last one with the name is the last one with the number, by which `init` and `find` take
  the same one.  `DictNumbersAreNew` is about tables and indexes that there are: a crash before
  the entry of a reported table was written back undoes it, and the next table gets its number and
  the file it left, which `createTable` accepts (`data_dict.cpp:150`); `created` forgets the
  table then.  `EntriesStay` follows: an append goes beyond every entry, so a crash can
  only lose what was not written back yet.
- **Indexes** (`IndexManagerProofs`).  `IndexInv` says that there is a function `rk` from
  the pages to ranks, of which `Tree(index, n, rk)` holds: a leaf has rank 0, an
  internal node's children one less than it, its parent, if it calls one, one more, and entries
  are records or keys with children.
  Balance itself is not enough, because it is about `Depth`, a function that follows
  left-most children and means nothing where they go in a circle; the rank is there before it
  and for pages outside the tree, too, which stay in the file and are still pointed at.
  No page ever changes its rank, and a new one gets the one of the page it was split
  from, or one more than the root's.  So a delete keeps `rk` (`RemoveEntry`,
  `RebalanceInternal` and the borrows and merges, each by what it changes in at most
  four pages), and an insert extends it, at each level it goes up.
  The operators use functions that refer to themselves, for which the definition
  alone promises nothing: `DescentExists` shows that one exists which follows
  pointers down the ranks, and `LoopExists` one that counts.  With them, a search ends at a
  leaf (`FoundLeaf`) and `Depth[p] = rk[p]` (`DepthIsRank`), of which `IndexBalanced` follows.
  `IndexTypes`, which includes that no node has more entries than its page has room
  for, has `MaxKeys % 2 = 0` as hypothesis: the code computes `maxKeys` from the length of the
  key and does not make it even, and with an odd one the theorem is false (below).
  `IndexBalanced` does not need it: the guard `Sound(index)` ends the
  behaviours of the model once a node has overflowed its page.
- **The tree below the root** (`IndexTreeProofs`, with the second half of
  `IndexManagerProofs`).  `TreeInv` says that there is no index yet, or an empty file, or that
  its pages are a tree (`Good`).  Beside the ranks, `Good` names
  the pages `T` of the tree, all others being ones that were merged away; every child
  knows its parent (`Shape`); every node but the root is half full, or with room
  for an odd number has an entry (`Filled`); for a unique
  index, each page `p` has a set `R[p]` of keys that belong to it, which is all keys for the root and
  which a page's own keys divide among its children (`KeyedAs`), and the chain goes from a leaf to
  the one whose keys follow next (`Chained`); and the records in the leaves are `s`.
  `Ordered`, `LinksAgree`, `LeafChain` and `HalfFull` are about `LeafLevel`, which
  is computed from the root down; `Good` is about each page and its neighbours, so that an
  operator that changes four pages is compared at those four.
  An insertion has, at each level, a right half that waits for a place in
  its parent (`Waiting`), a deletion a node that may lack an entry (`thin`).  Each split,
  borrow and merge has a lemma that says what it makes of such a tree, and `LoopKeeps` goes
  from one level to all.  Of it follow `IndexLinksAgree`, `IndexHalfFull`, `IndexOrdered`,
  `IndexLeafChain`, `IndexPinsReturned`; and, since each lemma says what becomes of `s`,
  `IndexKeepsPromise`: the index is a `RecordIndex`, with `s` its entries.

  They have hypotheses, each because of what the code does:
  - `[]ThreeLevels`, the tree has never had four levels: in four a node may not know its
    parent (below).  In trees that are half full a root of three levels with keys of
    4 bytes is full only with more than nine million entries; keys of 255 bytes need about a
    thousand.
  - `FewAtFirst`, an index is created for no more records than a leaf takes:
    otherwise `createIndex` forgets the root (the run `index_backfill`).
  - `Unique`, for those about keys: in an index that is not, `deleteKey` looks in one leaf for an
    entry that may be in the next.
  - `MaxKeys >= 2`, for `Ordered` and the refinement: with 1 a split leaves an internal node without
    entries.  `MaxKeys % 2 = 0`, for `HalfFull`, as above; the others need it as little as
    `IndexBalanced`, since with an odd room the model's behaviours end when a node overflows.

`"read" \notin Faults` is a real limit of the code: `getPage` reads a block into
the buffer of its victim (`mem_manager.cpp:83-91`) and on an error returns
before it changes the frame's page number, so that the frame answers for the old page
with what the failed read left.  The rest of `PoolInv` does not need it.

Not proved, only model-checked:

- `CallsReturn`: liveness is out of the prover's reach.
- What remains of the index properties without those hypotheses: there `IndexBalanced` and
  `IndexTypes` are all that is proved, and most of it is false (below).

## Where code and comments disagree

With a run: `log_restart`, `log_commit`, `table_kept`, `dict_drop`, `index_backfill` (`PROJECT.json`
quotes the comments).  Also met while modelling, without a run of their own:

- `getPage` refuses with every frame of the partition free, although a comment says
  "no frame to replace" (`mem_manager.cpp:241`): one turn of the clock clears the
  reference bits and gives up.  `FullOnlyIfAllHeld` fails in `pool_clock`;
  `RefusedOnlyOnce` says what is left of it.
- A failed read leaves garbage in a frame (above).
- `flushSpace` returns at the first failed write and `flushAllPages` goes on with the next
  partition and returns `RC_OK`: "flush all dirty pages" (`mem_manager.h:71`) is not what it
  does.  A page of a healthy file behind one of a failed file is not written, and is lost at the end
  of the program; `FlushedUntilFailure` says what is left.
- `getLastLSN` answers 21 (`RC_INVALID_LSN`) for a transaction without records, which
  becomes the `prevLSN` of its first record: a transaction without BEGIN may have a chain
  that is a cycle, which `traverseTxLog` never leaves.  `TraversalComplete` and
  `CallsReturn` are therefore about transactions that were begun; the cycle is in the model and
  in no property.
- `init` of the dictionary always allocates a new block where the comment says "use the
  last block" (`data_dict.cpp:58`): an offset is moved to the end of every block it reads.
- A crash that undoes a reported table leaves its file: the next table gets the number and
  the file with whatever it holds (`data_dict.cpp:150`, `RC_FILE_EXISTS` is accepted).  So
  does a creation whose entry could not be written (`data_dict.cpp:157`).  `NoPhantoms`
  is about entries and sees neither.
- A table dropped and created again is found in its old version after a restart,
  and `firstPage`/`lastPage` are not stored at all: rows are there but not found.
- `vacuum` ends with an error on every table that has a page: it goes on until `getPage`
  fails, and never reaches its last update.  Where it takes data for a slot, its `memmove` may
  overwrite the slot itself, whose length it adds next: `freeOffset` may then lie far behind the
  page without any access outside it (`table_manager.cpp:326-336`).
- The right half of an internal node that splits keeps -1 as its parent if it stays in
  the left half when the parent splits too (`index_manager.cpp:426`; `insertIntoParent` sets
  it only where there is room).  A later split below it then makes a new root above a
  subtree.  It takes four levels: `LinksAgree`, and then `RecordsFound`, fails with 11 keys
  inserted in falling order.  With keys of 255 bytes that is about a thousand records.
- A merge that shrinks the root, or one of internal nodes, leaves a page pinned for good
  and releases another one (`index_manager.cpp:699, 732, 862, 893`): `NoPinsLeft` fails with
  4 keys.  `PinsReturned` is about all other calls.
- An index that is not unique keeps the entry of a deleted record if equal keys are in
  several leaves, since `deleteKey` looks in one: `EntriesAreRecords` fails.
- With an odd `maxKeys` the right half of an internal node begins one below
  `minKeys`: `HalfFull` fails with `MaxKeys = 3`.  And two internal nodes that merge, one
  with `minKeys - 1` entries and one with `minKeys`, have with the key between them one
  entry more than a page has room for (`index_manager.cpp:855, 886`): `TypeOK` fails with
  `MaxKeys = 3` and 14 keys.  Keys of 255 bytes have `maxKeys` = 15; those of 4 bytes
  have 338 and are not affected.
- A failed allocation after the first one of an insert loses entries that are not the
  inserted one: the lower nodes are cut already (`RecordIndex!InsertFails`).
- The old right neighbour of a leaf that splits keeps the old leaf as its `prevPage`;
  `LeafChain` says what is left.  Nothing follows `prevPage`.
- `IndexPageHeader` is 36 bytes, not the 32 of its comment (`index_manager.h:15`).
- Table numbers would reach the first index number, 10000, and share its file
  (`data_dict.cpp:138`); the model keeps the two kinds of numbers apart.
- `MAX_RECORD_LEN` exceeds what an empty page can hold: such an insert
  allocates a page and is refused, each time (`RefusalExplained` says when).

## Not modelled

- **CLI**: reads a line, calls one operation and prints; its only state is whether to go
  on.  **Parser, plans, physical operators**: functions from text to trees and text
  that no storage operation is called from; the parser proper (`src/generated`, 22000
  lines) is generated by ANTLR from a published grammar.  **Test**: interactive
  demonstrations.
- **Restarts of an index**: its pages are the pool's and its root the dictionary's, and both
  have their own models; `getPage` refusals inside an index operation (above).
- **Log records and index maintenance of table operations**, transactions
  over several operations: they need the composition of the plan.  There is no rollback and
  no recovery in the code; `init` only rebuilds the index of the log.
- Formatting, columns, key types, statistics.

## Plan

Done, in this order: files, pool and page store with their proofs; log; tables;
dictionary; indexes; the proofs about flushing, the log, tables, the dictionary and indexes,
the order and contents of the tree included.  What is left:

1. `Database`: tables, log and indexes over one pool.  It would show the pins of a
   table operation and of the log and index calls inside it competing for frames.  That
   nothing orders log records before the pages of their changes can be read from the code
   (`table_manager.cpp:140-149`), but no state shows it: nothing reads the log to
   redo or undo.
2. The branch of `IndexManager` in which `getPage` refuses in the middle of a split or
   merge, which follows a null pointer or leaves the tree half changed.
