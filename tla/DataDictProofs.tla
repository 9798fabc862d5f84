--------------------------- MODULE DataDictProofs ---------------------------
(***************************************************************************)
(* What the dictionary promises of its tables and of its indexes, for any  *)
(* names, capacities, bounds and errors: numbers are new, what the process *)
(* knows is on pages, what is on pages was reported, and the next process  *)
(* loads the versions this one works with.                                 *)
(***************************************************************************)
EXTENDS DataDict, FiniteSetTheorems, SequenceTheorems, WellFoundedInduction, TLAPS

-----------------------------------------------------------------------------
\* One file, fr being its record, and the process up or not.

FileFields == {"allocated", "broken", "seen", "view", "stable", "current", "offset"}

FileType(f, fr) ==
    /\ DOMAIN fr = FileFields
    /\ fr.allocated \in 0 .. MaxBlocks
    /\ fr.view \in [Blocks -> Page(f)] /\ fr.stable \in [Blocks -> Page(f)]
    /\ fr.broken \in BOOLEAN
    /\ fr.seen \subseteq Blocks
    /\ fr.current \in -1 .. fr.allocated - 1
    /\ fr.offset \in 0 .. Capacity[f]

\* What is on the disk is on the page too, in the same place.
StableOnPages(f, fr) ==
    \A p \in Taken(f, fr.stable) : EntryAt(fr.view, p) = EntryAt(fr.stable, p)

\* Entries lie in allocated blocks and, once the process has read them, before the
\* place of the next one.
BeforeEnd(f, fr, up) ==
    /\ \A p \in Taken(f, fr.view) : p[1] < fr.allocated
    /\ up => \A p \in Taken(f, fr.view) : Before(p, <<fr.current, fr.offset>>)

FileInv(f, fr, up) ==
    /\ FileType(f, fr)
    /\ up => fr.current # NoBlock
    /\ StableOnPages(f, fr)
    /\ BeforeEnd(f, fr, up)
    /\ ~up => fr.view = fr.stable

-----------------------------------------------------------------------------
\* The inductive invariant.

FilesInv ==
    /\ DOMAIN file = Files
    /\ running \in BOOLEAN
    /\ \A f \in Files : FileInv(f, file[f], running)

OneNumberEach(list) ==
    \A i, j \in DOMAIN list : list[i].tableId = list[j].tableId => i = j

TablesInv ==
    /\ tables \in Seq(TableInfo)
    /\ nextTableId \in 1 .. MaxTables + 1
    /\ created \subseteq TableEntry /\ dropped \subseteq created
    /\ \A p, q \in Taken("tables", file["tables"].view) :
        EntryAt(file["tables"].view, p).tableId = EntryAt(file["tables"].view, q).tableId => p = q
    /\ running => \A e \in OnPages("tables") : e.tableId < nextTableId
    /\ TablesOnPages
    /\ created = OnPages("tables")
    /\ OneNumberEach(tables)

\* Versions with one number are versions of one index; the numbers given are below
\* the next one; names are unique in memory.
IndexesInv ==
    /\ indexes \subseteq IndexInfo
    /\ nextIndexId \in 1 .. MaxIndexes + 1
    /\ unsaved \subseteq IndexIds
    /\ \A v, w \in OnPages("indexes") \union indexes :
        v.indexId = w.indexId => v.indexName = w.indexName
    /\ running => \A v \in OnPages("indexes") \union indexes : v.indexId < nextIndexId
    /\ \A i, j \in indexes : i.indexName = j.indexName => i = j
    /\ NewestIndexLoads

IInv == FilesInv /\ TablesInv /\ IndexesInv

-----------------------------------------------------------------------------
\* Places.

LEMMA Bounds ==
  /\ MaxBlocks \in Nat \ {0}
  /\ \A f \in Files : Capacity[f] \in Nat \ {0}
  /\ \A f \in Files : Places(f) \in SUBSET (Int \X Int)
BY DictAssumption DEF Places, Blocks, Offsets

LEMMA PlacesFinite ==
  ASSUME NEW f \in Files
  PROVE  IsFiniteSet(Places(f))
<1>1. IsFiniteSet(Blocks) /\ IsFiniteSet(Offsets(f))
  BY Bounds, FS_Interval DEF Blocks, Offsets
<1> QED
  BY <1>1, FS_Product DEF Places

LEMMA BeforeIsOrder ==
  ASSUME NEW p \in Int \X Int, NEW q \in Int \X Int, NEW r \in Int \X Int
  PROVE  /\ ~Before(p, p)
         /\ Before(p, q) /\ Before(q, r) => Before(p, r)
         /\ p # q => Before(p, q) \/ Before(q, p)
BY DEF Before

\* Every number up to the size of a set of places is the rank of one of them.
LEMMA NthInSet ==
  ASSUME NEW f \in Files, NEW S \in SUBSET Places(f), NEW i \in 1 .. Cardinality(S)
  PROVE  Nth(S, i) \in S /\ Cardinality({q \in S : Before(q, Nth(S, i))}) = i - 1
<1> DEFINE ahead(p) == {q \in S : Before(q, p)}
           rank == [p \in S |-> Cardinality(ahead(p)) + 1]
           n == Cardinality(S)
<1>1. IsFiniteSet(S) /\ n \in Nat
  BY PlacesFinite, FS_Subset, FS_CardinalityType
<1>2. \A p \in S : p \in Int \X Int
  BY Bounds
<1>3. ASSUME NEW p \in S
      PROVE  /\ IsFiniteSet(ahead(p)) /\ Cardinality(ahead(p)) \in Nat
             /\ Cardinality(ahead(p)) <= n - 1
  <2>1. IsFiniteSet(S \ {p}) /\ Cardinality(S \ {p}) = n - 1
    BY <1>1, FS_RemoveElement
  <2>2. ahead(p) \in SUBSET (S \ {p})
    BY <1>2, BeforeIsOrder
  <2> HIDE DEF ahead
  <2> QED
    BY <2>1, <2>2, FS_Subset, FS_CardinalityType
<1>4. ASSUME NEW p \in S, NEW q \in S, Before(p, q)
      PROVE  Cardinality(ahead(p)) < Cardinality(ahead(q))
  <2>1. ahead(p) \in SUBSET ahead(q)
    BY <1>2, <1>4, BeforeIsOrder
  <2>2. p \in ahead(q) /\ p \notin ahead(p)
    BY <1>2, <1>4, BeforeIsOrder
  <2> HIDE DEF ahead
  <2>3. ahead(p) # ahead(q)
    BY <2>2
  <2>4. /\ Cardinality(ahead(p)) <= Cardinality(ahead(q))
        /\ Cardinality(ahead(q)) = Cardinality(ahead(p)) => ahead(q) = ahead(p)
    BY <1>3, <2>1, FS_Subset
  <2> QED
    BY <1>3, <2>3, <2>4
<1> HIDE DEF ahead, n
<1>5. rank \in [S -> 1 .. n]
  BY <1>1, <1>3
<1>6. ASSUME NEW p \in S, NEW q \in S, rank[p] = rank[q]
      PROVE  p = q
  <2>1. Cardinality(ahead(p)) = Cardinality(ahead(q))
    BY <1>3, <1>6
  <2>2. ~Before(p, q) /\ ~Before(q, p)
    BY <1>3, <1>4, <2>1
  <2> QED
    BY <1>2, <2>2, BeforeIsOrder
<1>7. rank \in Injection(S, 1 .. n)
  BY <1>5, <1>6 DEF Injection, IsInjective
<1>8. IsFiniteSet(1 .. n) /\ Cardinality(1 .. n) = n
  BY <1>1, FS_Interval
<1>9. rank \in Surjection(S, 1 .. n)
  BY <1>7, <1>8, FS_Injection DEF n
<1>10. PICK p \in S : rank[p] = i
  BY <1>9 DEF Surjection, n
<1>11. Cardinality(ahead(p)) = i - 1
  BY <1>3, <1>10
<1>12. \E q \in S : Cardinality({r \in S : Before(r, q)}) = i - 1
  BY <1>11 DEF ahead
<1> QED
  BY <1>12 DEF Nth

\* What init makes of the tables' pages is entries of theirs.
LEMMA EntriesAreFound ==
  ASSUME NEW f \in Files, NEW pages
  PROVE  /\ EntriesOf(f, pages) \in Seq(Found(f, pages))
         /\ \A i \in DOMAIN EntriesOf(f, pages) : EntriesOf(f, pages)[i] \in Found(f, pages)
         /\ \A i, j \in DOMAIN EntriesOf(f, pages) :
               \E p, q \in Taken(f, pages) :
                   /\ EntriesOf(f, pages)[i] = EntryAt(pages, p)
                   /\ EntriesOf(f, pages)[j] = EntryAt(pages, q)
                   /\ p = q => i = j
<1> DEFINE S == Taken(f, pages)
<1>1. S \in SUBSET Places(f)
  BY DEF Taken
<1>2. Cardinality(S) \in Nat
  BY <1>1, PlacesFinite, FS_Subset, FS_CardinalityType
<1>3. \A i \in 1 .. Cardinality(S) : Nth(S, i) \in S
  BY <1>1, NthInSet
<1>4. \A i \in 1 .. Cardinality(S) : EntryAt(pages, Nth(S, i)) \in Found(f, pages)
  BY <1>3 DEF Found
<1>5. EntriesOf(f, pages) = [i \in 1 .. Cardinality(S) |-> EntryAt(pages, Nth(S, i))]
  BY DEF EntriesOf
<1>6. ASSUME NEW i \in 1 .. Cardinality(S), NEW j \in 1 .. Cardinality(S),
             Nth(S, i) = Nth(S, j)
      PROVE  i = j
  <2>1. /\ Cardinality({q \in S : Before(q, Nth(S, i))}) = i - 1
        /\ Cardinality({q \in S : Before(q, Nth(S, j))}) = j - 1
    BY <1>1, NthInSet
  <2> HIDE DEF S
  <2> QED
    BY <1>2, <1>6, <2>1
<1> HIDE DEF S
<1>7. ASSUME NEW i \in DOMAIN EntriesOf(f, pages), NEW j \in DOMAIN EntriesOf(f, pages)
      PROVE  \E p, q \in S :
                 /\ EntriesOf(f, pages)[i] = EntryAt(pages, p)
                 /\ EntriesOf(f, pages)[j] = EntryAt(pages, q)
                 /\ p = q => i = j
  BY <1>3, <1>5, <1>6
<1> QED
  BY <1>2, <1>4, <1>5, <1>7 DEF S

LEMMA FoundAreEntries ==
  ASSUME NEW f \in Files, NEW pages \in [Blocks -> Page(f)]
  PROVE  Found(f, pages) \subseteq Entries(f)
BY DEF Found, Taken, Places, EntryAt, Page

\* The greatest of a set of numbers.
LEMMA MaxOfBounded ==
  ASSUME NEW n \in Nat, NEW S \in SUBSET (0 .. n), S # {}
  PROVE  Max(S) \in S /\ \A x \in S : Max(S) >= x
<1> DEFINE R == OpToRel(<, Nat)
           T == {n - x : x \in S}
<1>1. T \subseteq Nat
  OBVIOUS
<1>2. T # {}
  OBVIOUS
<1>3. \A j, k \in Nat : j < k => <<j, k>> \in R
  BY DEF OpToRel
<1>4. IsWellFoundedOn(R, Nat)
  BY NatLessThanWellFounded
<1> HIDE DEF R
<1>5. PICK m \in T : \A k \in T : ~ (<<k, m>> \in R)
  <2> HIDE DEF T
  <2> QED
    BY <1>1, <1>2, <1>4, WFMin
<1>6. PICK x \in S : m = n - x
  OBVIOUS
<1>7. ASSUME NEW y \in S, y > x PROVE FALSE
  <2>1. n - y \in T /\ n - y \in Nat /\ m \in Nat
    BY <1>1
  <2>2. n - y < m
    BY <1>6, <1>7
  <2> QED
    BY <1>3, <1>5, <2>1, <2>2
<1>8. \A y \in S : x >= y
  <2> SUFFICES ASSUME NEW y \in S PROVE x >= y
    OBVIOUS
  <2>1. x \in Int /\ y \in Int /\ ~(y > x)
    BY <1>7
  <2> QED
    BY <2>1
<1> HIDE DEF T
<1> QED
  BY <1>8 DEF Max

\* The next number is above every number found, and no further than one above the
\* greatest that there may be.
LEMMA NextIdIsNew ==
  ASSUME NEW n \in Nat, NEW ids \in SUBSET (1 .. n)
  PROVE  NextId(1, ids) \in 1 .. n + 1 /\ \A i \in ids : i < NextId(1, ids)
<1> DEFINE S == {1 - 1} \union ids
<1>1. S \in SUBSET (0 .. n) /\ S # {}
  OBVIOUS
<1>2. Max(S) \in S /\ \A x \in S : Max(S) >= x
  BY <1>1, MaxOfBounded
<1>3. NextId(1, ids) = Max(S) + 1
  BY DEF NextId
<1>4. ids \subseteq S /\ Max(S) \in 0 .. n
  BY <1>1, <1>2
<1> HIDE DEF S
<1> QED
  BY <1>2, <1>3, <1>4

\* Every version that LastByName takes is on a page, in a place that no later
\* version of that name follows; it takes one of a name.
LEMMA LastByNameIsLast ==
  ASSUME NEW pages
  PROVE  /\ LastByName(pages) \subseteq Found("indexes", pages)
         /\ \A v \in LastByName(pages) :
               \E p \in Taken("indexes", pages) :
                   /\ EntryAt(pages, p) = v
                   /\ \A q \in Taken("indexes", pages) :
                       Before(p, q) => EntryAt(pages, q).indexName # v.indexName
         /\ \A v, w \in LastByName(pages) : v.indexName = w.indexName => v = w
<1> DEFINE T == Taken("indexes", pages)
<1>1. T \subseteq Int \X Int
  BY Bounds DEF Taken, Files
<1>2. \A v \in LastByName(pages) : \E p \in T :
        /\ EntryAt(pages, p) = v
        /\ \A r \in T : EntryAt(pages, r).indexName = EntryAt(pages, p).indexName => ~Before(p, r)
  BY DEF LastByName
<1> HIDE DEF T
<1>3. LastByName(pages) \subseteq Found("indexes", pages)
  BY <1>2 DEF Found, T
<1>4. ASSUME NEW v \in LastByName(pages), NEW w \in LastByName(pages),
             v.indexName = w.indexName
      PROVE  v = w
  <2>1. PICK p \in T :
           /\ EntryAt(pages, p) = v
           /\ \A r \in T : EntryAt(pages, r).indexName = EntryAt(pages, p).indexName => ~Before(p, r)
    BY <1>2
  <2>2. PICK q \in T :
           /\ EntryAt(pages, q) = w
           /\ \A r \in T : EntryAt(pages, r).indexName = EntryAt(pages, q).indexName => ~Before(q, r)
    BY <1>2
  <2>3. ~Before(p, q) /\ ~Before(q, p)
    BY <1>4, <2>1, <2>2
  <2>4. p = q
    BY <1>1, <2>3, BeforeIsOrder
  <2> QED
    BY <2>1, <2>2, <2>4
<1> QED
  BY <1>2, <1>3, <1>4 DEF T

-----------------------------------------------------------------------------
\* What the operations do to a file.

\* Nothing but its header and its stream.
SamePages(fr, gr) == gr.view = fr.view /\ gr.stable = fr.stable

\* It gets entry e behind every other.
OneMore(f, fr, gr, e) ==
    /\ gr.stable = fr.stable
    /\ \E c \in Places(f) :
        /\ Taken(f, gr.view) = Taken(f, fr.view) \union {c}
        /\ EntryAt(gr.view, c) = e
        /\ \A q \in Taken(f, fr.view) :
            EntryAt(gr.view, q) = EntryAt(fr.view, q) /\ Before(q, c)

LEMMA NewBlockKeeps ==
  ASSUME NEW f \in Files, NEW fr, NEW up \in BOOLEAN, FileInv(f, fr, up),
         fr.allocated < MaxBlocks
  PROVE  FileInv(f, NewBlock(fr), TRUE) /\ SamePages(fr, NewBlock(fr)) /\ NewBlock(fr).offset = 0
<1> DEFINE gr == NewBlock(fr)
<1>1. /\ DOMAIN gr = DOMAIN fr
      /\ gr.allocated = fr.allocated + 1 /\ gr.current = fr.allocated /\ gr.offset = 0
      /\ gr.broken = fr.broken /\ gr.seen = fr.seen
      /\ gr.view = fr.view /\ gr.stable = fr.stable
  BY DEF NewBlock, FileInv, FileType, FileFields
<1> HIDE DEF gr
<1>2. FileType(f, gr)
  BY <1>1, Bounds DEF FileInv, FileType
<1>3. gr.current # NoBlock
  BY <1>1 DEF FileInv, FileType, NoBlock
<1>4. BeforeEnd(f, gr, TRUE)
  <2>1. \A p \in Taken(f, fr.view) : p[1] < fr.allocated /\ p \in Int \X Int
    BY Bounds DEF FileInv, BeforeEnd, Taken
  <2> QED
    BY <1>1, <2>1 DEF BeforeEnd, Before, FileInv, FileType
<1> QED
  BY <1>1, <1>2, <1>3, <1>4 DEF FileInv, StableOnPages, SamePages, gr

LEMMA BreakKeeps ==
  ASSUME NEW f \in Files, NEW fr, NEW up \in BOOLEAN, FileInv(f, fr, up)
  PROVE  LET gr == [fr EXCEPT !.broken = TRUE]
         IN  FileInv(f, gr, up) /\ SamePages(fr, gr)
<1> DEFINE gr == [fr EXCEPT !.broken = TRUE]
<1>1. /\ DOMAIN gr = DOMAIN fr
      /\ gr.allocated = fr.allocated /\ gr.current = fr.current /\ gr.offset = fr.offset
      /\ gr.broken = TRUE /\ gr.seen = fr.seen
      /\ gr.view = fr.view /\ gr.stable = fr.stable
  BY DEF FileInv, FileType, FileFields
<1> HIDE DEF gr
<1> QED
  BY <1>1 DEF FileInv, FileType, StableOnPages, BeforeEnd, SamePages, gr

\* Preparing gives room for an entry.
LEMMA PreparedKeeps ==
  ASSUME NEW f \in Files, FileInv(f, file[f], TRUE),
         NeedsBlock(f) => file[f].allocated < MaxBlocks,
         NEW fr \in Prepared(f)
  PROVE  FileInv(f, fr, TRUE) /\ SamePages(file[f], fr) /\ fr.offset < Capacity[f]
<1>1. CASE NeedsBlock(f)
  <2>1. fr = NewBlock(file[f])
    BY <1>1 DEF Prepared
  <2>2. FileInv(f, fr, TRUE) /\ SamePages(file[f], fr) /\ fr.offset = 0
    BY <1>1, <2>1, NewBlockKeeps
  <2>3. fr.offset < Capacity[f]
    <3>1. Capacity[f] \in Nat \ {0}
      BY Bounds
    <3> QED
      BY <2>2, <3>1
  <2> QED
    BY <2>2, <2>3
<1>2. CASE ~NeedsBlock(f)
  <2>1. fr = file[f]
    BY <1>2 DEF Prepared
  <2>2. fr.offset \in 0 .. Capacity[f] /\ Capacity[f] \in Nat
    BY <2>1, Bounds DEF FileInv, FileType
  <2>3. fr.offset < Capacity[f]
    BY <1>2, <2>1, <2>2 DEF NeedsBlock
  <2> QED
    BY <2>1, <2>3 DEF SamePages
<1> QED
  BY <1>1, <1>2

LEMMA AppendedKeeps ==
  ASSUME NEW f \in Files, FileInv(f, file[f], TRUE),
         NeedsBlock(f) => file[f].allocated < MaxBlocks,
         NEW e \in Entries(f), NEW gr \in Appended(f, e)
  PROVE  FileInv(f, gr, TRUE) /\ OneMore(f, file[f], gr, e)
<1>1. PICK fr \in Prepared(f) :
        gr = [fr EXCEPT !.view[fr.current][fr.offset] = e,
                        !.seen   = @ \union {fr.current},
                        !.offset = @ + 1]
  BY DEF Appended
<1>2. FileInv(f, fr, TRUE) /\ SamePages(file[f], fr) /\ fr.offset < Capacity[f]
  BY PreparedKeeps
<1>3. FileType(f, fr) /\ fr.current # NoBlock
  BY <1>2 DEF FileInv
<1>4. fr.current \in Blocks /\ fr.offset \in Offsets(f)
  BY <1>2, <1>3, Bounds DEF FileType, NoBlock, Blocks, Offsets
<1> DEFINE view == [fr.view EXCEPT ![fr.current][fr.offset] = e]
           c == <<fr.current, fr.offset>>
<1>5. /\ DOMAIN gr = DOMAIN fr
      /\ gr.allocated = fr.allocated /\ gr.current = fr.current
      /\ gr.offset = fr.offset + 1
      /\ gr.broken = fr.broken /\ gr.seen = fr.seen \union {fr.current}
      /\ gr.view = view /\ gr.stable = fr.stable
  BY <1>1, <1>3 DEF FileType, FileFields
<1>6. view \in [Blocks -> Page(f)]
  BY <1>3, <1>4 DEF FileType, Page
<1>7. c \in Places(f) /\ EntryAt(view, c) = e
  BY <1>3, <1>4 DEF Places, EntryAt, FileType, Page
<1>8. \A p \in Places(f) : p # c => EntryAt(view, p) = EntryAt(fr.view, p)
  BY <1>3, <1>4 DEF Places, EntryAt, FileType, Page
<1>9. e # NoEntry
  BY DictAssumption DEF Entries
<1>10. Taken(f, view) = Taken(f, fr.view) \union {c}
  BY <1>7, <1>8, <1>9 DEF Taken
<1>11. \A q \in Taken(f, fr.view) : Before(q, c) /\ q[1] < fr.allocated
  BY <1>2 DEF FileInv, BeforeEnd
<1>12. \A q \in Taken(f, fr.view) : q # c /\ q \in Places(f) /\ q \in Int \X Int
  BY <1>11, BeforeIsOrder, Bounds DEF Taken
<1> HIDE DEF view, c
<1>13. OneMore(f, file[f], gr, e)
  BY <1>2, <1>5, <1>7, <1>8, <1>10, <1>11, <1>12 DEF OneMore, SamePages
<1>14. FileType(f, gr)
  BY <1>2, <1>3, <1>4, <1>5, <1>6, Bounds DEF FileType, Offsets
<1>15. BeforeEnd(f, gr, TRUE)
  <2>1. \A q \in Taken(f, fr.view) : Before(q, <<gr.current, gr.offset>>)
    BY <1>3, <1>5, <1>11, <1>12 DEF c, Before, FileType
  <2>2. Before(c, <<gr.current, gr.offset>>)
    BY <1>3, <1>5, Bounds DEF c, Before, FileType
  <2>3. c[1] < gr.allocated
    BY <1>3, <1>5 DEF c, FileType
  <2> QED
    BY <1>5, <1>10, <1>11, <2>1, <2>2, <2>3 DEF BeforeEnd
<1>16. StableOnPages(f, gr)
  <2>1. \A p \in Taken(f, fr.stable) : p \in Taken(f, fr.view)
    BY <1>2 DEF FileInv, StableOnPages, Taken
  <2> QED
    BY <1>2, <1>5, <1>8, <1>12, <2>1 DEF FileInv, StableOnPages
<1> QED
  BY <1>3, <1>5, <1>13, <1>14, <1>15, <1>16 DEF FileInv

LEMMA NotAppendedKeeps ==
  ASSUME NEW f \in Files, FileInv(f, file[f], TRUE),
         NeedsBlock(f) => file[f].allocated < MaxBlocks,
         NEW gr \in NotAppended(f)
  PROVE  FileInv(f, gr, TRUE) /\ SamePages(file[f], gr)
<1>1. gr = [file[f] EXCEPT !.broken = TRUE] \/ gr \in Prepared(f)
  BY DEF NotAppended
<1> QED
  BY <1>1, BreakKeeps, PreparedKeeps

LEMMA StableFound ==
  ASSUME NEW f \in Files, NEW fr, NEW up \in BOOLEAN, FileInv(f, fr, up)
  PROVE  /\ Taken(f, fr.stable) \subseteq Taken(f, fr.view)
         /\ Found(f, fr.stable) \subseteq Found(f, fr.view)
<1>1. \A p \in Taken(f, fr.stable) :
        p \in Taken(f, fr.view) /\ EntryAt(fr.view, p) = EntryAt(fr.stable, p)
  BY DEF FileInv, StableOnPages, Taken
<1> QED
  BY <1>1 DEF Found

-----------------------------------------------------------------------------
\* The parts of the invariant imply the properties.

LEMMA InvImplies ==
  ASSUME IInv
  PROVE  TypeOK /\ NumbersAreNew /\ TablesOnPages /\ NoPhantoms /\ NewestIndexLoads
<1>1. TypeOK
  <2>1. \A f \in Files : FileType(f, file[f]) /\ (running => file[f].current # NoBlock)
    BY DEF IInv, FilesInv, FileInv
  <2>2. ToSet(tables) \subseteq TableInfo
    BY DEF IInv, TablesInv, ToSet
  <2> QED
    BY <2>1, <2>2 DEF IInv, FilesInv, TablesInv, IndexesInv, TypeOK, FileType
<1>2. NumbersAreNew
  <2>1. \A d, e \in created : d.tableId = e.tableId => d = e
    BY DEF IInv, TablesInv, OnPages, Found
  <2> QED
    BY <2>1 DEF IInv, TablesInv, OneNumberEach, IndexesInv, NumbersAreNew
<1>3. NoPhantoms
  BY StableFound DEF IInv, FilesInv, TablesInv, NoPhantoms, OnPages, Files
<1> QED
  BY <1>1, <1>2, <1>3 DEF IInv, TablesInv, IndexesInv

LEMMA FilesNext ==
  ASSUME DOMAIN file' = Files, running' \in BOOLEAN,
         \A f \in Files : FileInv(f, file'[f], running')
  PROVE  FilesInv'
BY DEF FilesInv, FileInv, FileType, StableOnPages, BeforeEnd

\* A step that leaves the tables' pages and what the process knows of tables alone.
LEMMA TablesQuiet ==
  ASSUME IInv, UNCHANGED <<tables, nextTableId, created, dropped, running>>,
         file'["tables"].view = file["tables"].view
  PROVE  TablesInv'
BY DEF IInv, TablesInv, TablesOnPages, OnPages, OneNumberEach

LEMMA IndexesQuiet ==
  ASSUME IInv, UNCHANGED <<indexes, nextIndexId, unsaved, running>>,
         file'["indexes"].view = file["indexes"].view
  PROVE  IndexesInv'
BY DEF IInv, IndexesInv, NewestIndexLoads, OnPages

\* The step of one file.
LEMMA FileStep ==
  ASSUME IInv, NEW f \in Files, NEW fr, FileInv(f, fr, running),
         file' = [file EXCEPT ![f] = fr], running' = running
  PROVE  /\ FilesInv'
         /\ file'[f] = fr
         /\ \A g \in Files \ {f} : file'[g] = file[g]
<1>1. DOMAIN file = Files /\ running \in BOOLEAN /\ \A g \in Files : FileInv(g, file[g], running)
  BY DEF IInv, FilesInv
<1>2. DOMAIN file' = Files /\ file'[f] = fr /\ \A g \in Files \ {f} : file'[g] = file[g]
  BY <1>1
<1>3. \A g \in Files : FileInv(g, file'[g], running')
  BY <1>1, <1>2
<1> QED
  BY <1>1, <1>2, <1>3, FilesNext

LEMMA QuietFileStep ==
  ASSUME IInv, NEW f \in Files, NEW fr, FileInv(f, fr, running), fr.view = file[f].view,
         file' = [file EXCEPT ![f] = fr], UNCHANGED running
  PROVE  /\ FilesInv'
         /\ file'["tables"].view = file["tables"].view
         /\ file'["indexes"].view = file["indexes"].view
BY FileStep DEF Files

-----------------------------------------------------------------------------
\* Tables.

LEMMA Removed ==
  ASSUME NEW S, NEW f \in Seq(S), NEW i \in 1 .. Len(f)
  PROVE  /\ RemoveAt(f, i) \in Seq(S)
         /\ Len(RemoveAt(f, i)) = Len(f) - 1
         /\ \A j \in 1 .. Len(f) - 1 :
                RemoveAt(f, i)[j] = IF j < i THEN f[j] ELSE f[j + 1]
<1> DEFINE a == SubSeq(f, 1, i - 1)
           b == SubSeq(f, i + 1, Len(f))
<1>1. a \in Seq(S) /\ Len(a) = i - 1 /\ \A j \in 1 .. i - 1 : a[j] = f[j]
  OBVIOUS
<1>2. b \in Seq(S) /\ Len(b) = Len(f) - i /\ \A j \in 1 .. Len(f) - i : b[j] = f[i + j]
  OBVIOUS
<1>3. RemoveAt(f, i) = a \o b
  BY DEF RemoveAt
<1>4. Len(f) \in Nat
  OBVIOUS
<1> HIDE DEF a, b
<1>5. a \o b \in Seq(S) /\ Len(a \o b) = Len(a) + Len(b)
  BY <1>1, <1>2, ConcatProperties
<1>6. \A j \in 1 .. Len(a) + Len(b) :
        (a \o b)[j] = IF j <= Len(a) THEN a[j] ELSE b[j - Len(a)]
  BY <1>1, <1>2, ConcatProperties
<1>7. ASSUME NEW j \in 1 .. Len(f) - 1
      PROVE  (a \o b)[j] = IF j < i THEN f[j] ELSE f[j + 1]
  <2>1. CASE j < i
    <3>1. j \in 1 .. Len(a) + Len(b) /\ j <= Len(a) /\ j \in 1 .. i - 1
      BY <1>1, <1>2, <1>4, <2>1
    <3> QED
      BY <1>1, <1>6, <2>1, <3>1
  <2>2. CASE j >= i
    <3>1. j \in 1 .. Len(a) + Len(b) /\ ~(j <= Len(a)) /\ ~(j < i)
      BY <1>1, <1>2, <1>4, <2>2
    <3>2. j - Len(a) \in 1 .. Len(f) - i /\ i + (j - Len(a)) = j + 1
      BY <1>1, <1>4, <2>2
    <3>3. (a \o b)[j] = IF j <= Len(a) THEN a[j] ELSE b[j - Len(a)]
      BY <1>6, <3>1
    <3>4. b[j - Len(a)] = f[i + (j - Len(a))]
      BY <1>2, <3>2
    <3>5. f[i + (j - Len(a))] = f[j + 1]
      BY <3>2
    <3>6. (a \o b)[j] = f[j + 1]
      BY <3>1, <3>3, <3>4, <3>5
    <3> QED
      BY <3>1, <3>6
  <2>3. j < i \/ j >= i
    BY <1>4
  <2> QED
    BY <2>1, <2>2, <2>3
<1> QED
  BY <1>1, <1>2, <1>3, <1>4, <1>5, <1>7

\* The least of a set of numbers.
LEMMA Least ==
  ASSUME NEW n \in Nat, NEW S \in SUBSET (1 .. n), S # {}
  PROVE  \E x \in S : \A y \in S : x <= y
<1> DEFINE R == OpToRel(<, Nat)
<1>1. \A j, k \in Nat : j < k => <<j, k>> \in R
  BY DEF OpToRel
<1>2. IsWellFoundedOn(R, Nat)
  BY NatLessThanWellFounded
<1> HIDE DEF R
<1>3. S \subseteq Nat
  OBVIOUS
<1>4. PICK x \in S : \A y \in S : ~ (<<y, x>> \in R)
  BY <1>2, <1>3, WFMin
<1>5. \A y \in S : ~ (y < x)
  BY <1>1, <1>3, <1>4
<1> QED
  BY <1>3, <1>5

LEMMA FindTableFinds ==
  ASSUME tables \in Seq(TableInfo), NEW n, HasTable(n)
  PROVE  FindTable(n) \in DOMAIN tables /\ tables[FindTable(n)].tableName = n
<1> DEFINE S == {i \in DOMAIN tables : tables[i].tableName = n}
<1>1. Len(tables) \in Nat /\ S \in SUBSET (1 .. Len(tables)) /\ S # {}
  BY DEF HasTable
<1>2. \E i \in S : \A j \in S : i <= j
  BY <1>1, Least
<1>3. \E i \in DOMAIN tables :
        /\ tables[i].tableName = n
        /\ \A j \in DOMAIN tables : tables[j].tableName = n => i <= j
  BY <1>2
<1> HIDE DEF S
<1> QED
  BY <1>3 DEF FindTable

\* The entry of the new table is behind the others, its number above theirs.
LEMMA TableAdded ==
  ASSUME IInv, running, NEW n \in TableNames, nextTableId <= MaxTables,
         OneMore("tables", file["tables"], file'["tables"],
                 [tableId |-> nextTableId, tableName |-> n]),
         tables' = Append(tables, InfoOf([tableId |-> nextTableId, tableName |-> n])),
         nextTableId' = nextTableId + 1,
         created' = created \union {[tableId |-> nextTableId, tableName |-> n]},
         dropped' = dropped \ {[tableId |-> nextTableId, tableName |-> n]},
         running' = running
  PROVE  TablesInv'
<1> DEFINE e == [tableId |-> nextTableId, tableName |-> n]
           old == file["tables"].view
           new == file'["tables"].view
<1>1. nextTableId \in TableIds /\ nextTableId + 1 \in 1 .. MaxTables + 1
  BY Bounds, DictAssumption DEF IInv, TablesInv, TableIds
<1>2. e \in TableEntry /\ e.tableId = nextTableId
  BY <1>1 DEF TableEntry
<1>3. InfoOf(e) \in TableInfo /\ NamedId(InfoOf(e)) = e
  BY <1>1 DEF InfoOf, NamedId, TableInfo
<1>4. PICK c \in Places("tables") :
        /\ Taken("tables", new) = Taken("tables", old) \union {c}
        /\ EntryAt(new, c) = e
        /\ \A q \in Taken("tables", old) : EntryAt(new, q) = EntryAt(old, q) /\ Before(q, c)
  BY DEF OneMore
<1>5. Found("tables", new) = Found("tables", old) \union {e}
  BY <1>4 DEF Found
<1> HIDE DEF e, old, new
<1>6. \A q \in Taken("tables", old) : EntryAt(old, q).tableId < nextTableId
  BY DEF IInv, TablesInv, OnPages, Found, old
<1>7. \A q \in Taken("tables", old) : EntryAt(old, q) \in TableEntry
  BY FoundAreEntries DEF IInv, FilesInv, FileInv, FileType, Found, Files, Entries, old
<1>8. ASSUME NEW p \in Taken("tables", new), NEW q \in Taken("tables", new),
             EntryAt(new, p).tableId = EntryAt(new, q).tableId
      PROVE  p = q
  <2>1. CASE p = c \/ q = c
    <3>1. \A r \in Taken("tables", old) : EntryAt(new, r).tableId # nextTableId
      BY <1>1, <1>4, <1>6, <1>7 DEF TableEntry, TableIds
    <3> QED
      BY <1>2, <1>4, <1>8, <2>1, <3>1
  <2>2. CASE p # c /\ q # c
    BY <1>4, <1>8, <2>2 DEF IInv, TablesInv, old
  <2> QED
    BY <2>1, <2>2
<1>9. \A x \in Found("tables", new) : x.tableId < nextTableId + 1
  <2>1. \A x \in Found("tables", old) : x.tableId \in Int /\ x.tableId < nextTableId
    BY <1>6, <1>7 DEF Found, TableEntry, TableIds
  <2> QED
    BY <1>1, <1>2, <1>5, <2>1 DEF TableIds
<1>10. tables' \in Seq(TableInfo)
  BY <1>3 DEF IInv, TablesInv, e
<1>11. \A i \in DOMAIN tables' : NamedId(tables'[i]) \in Found("tables", new)
  <2>1. \A i \in DOMAIN tables : NamedId(tables[i]) \in Found("tables", old)
    BY DEF IInv, TablesInv, TablesOnPages, OnPages, old
  <2>2. tables' = Append(tables, InfoOf(e)) /\ tables \in Seq(TableInfo)
    BY DEF e, IInv, TablesInv
  <2>3. \A i \in DOMAIN tables' :
          (i \in DOMAIN tables /\ tables'[i] = tables[i]) \/ tables'[i] = InfoOf(e)
    BY <1>3, <2>2
  <2> QED
    BY <1>3, <1>5, <2>1, <2>3
<1>12. created' = created \union {e} /\ dropped' = dropped \ {e}
  BY DEF e
<1>13. created' \subseteq TableEntry /\ dropped' \subseteq created'
  BY <1>2, <1>12 DEF IInv, TablesInv
<1>14. created' = Found("tables", new)
  BY <1>5, <1>12 DEF IInv, TablesInv, OnPages, old
<1>15. OneNumberEach(tables)'
  <2>1. tables' = Append(tables, InfoOf(e)) /\ tables \in Seq(TableInfo)
    BY DEF e, IInv, TablesInv
  <2>2. \A i \in DOMAIN tables' :
          \/ i \in DOMAIN tables /\ tables'[i] = tables[i]
          \/ i = Len(tables) + 1 /\ tables'[i] = InfoOf(e)
    BY <1>3, <2>1
  <2>3. \A i \in DOMAIN tables : tables[i].tableId # nextTableId
    <3>1. \A i \in DOMAIN tables : NamedId(tables[i]) \in Found("tables", old)
      BY DEF IInv, TablesInv, TablesOnPages, OnPages, old
    <3>2. \A x \in Found("tables", old) : x.tableId \in Int /\ x.tableId < nextTableId
      BY <1>6, <1>7 DEF Found, TableEntry, TableIds
    <3>3. \A i \in DOMAIN tables : NamedId(tables[i]).tableId = tables[i].tableId
      BY DEF NamedId
    <3> QED
      BY <1>1, <3>1, <3>2, <3>3 DEF TableIds
  <2>4. InfoOf(e).tableId = nextTableId
    BY <1>2 DEF InfoOf
  <2>5. \A i, j \in DOMAIN tables : tables[i].tableId = tables[j].tableId => i = j
    BY DEF IInv, TablesInv, OneNumberEach
  <2> QED
    BY <2>2, <2>3, <2>4, <2>5 DEF OneNumberEach
<1> QED
  BY <1>1, <1>8, <1>9, <1>10, <1>11, <1>13, <1>14, <1>15
  DEF TablesInv, TablesOnPages, OnPages, new

LEMMA CreateTableKeeps ==
  ASSUME IInv, NEW n \in TableNames, CreateTable(n)
  PROVE  IInv'
<1> DEFINE entry == [tableId |-> nextTableId, tableName |-> n]
<1> USE DEF CreateTable
<1>1. /\ running /\ nextTableId <= MaxTables
      /\ NeedsBlock("tables") => file["tables"].allocated < MaxBlocks
      /\ UNCHANGED <<indexes, nextIndexId, running, unsaved>>
  OBVIOUS
<1>2. FileInv("tables", file["tables"], TRUE) /\ "tables" \in Files
  BY <1>1 DEF IInv, FilesInv, Files
<1>3. entry \in Entries("tables")
  BY <1>1, DictAssumption DEF Entries, TableEntry, TableIds, IInv, TablesInv
<1>4. nextTableId + 1 \in 1 .. MaxTables + 1
  BY <1>1, DictAssumption DEF IInv, TablesInv
<1>5. CASE /\ nextTableId' = nextTableId + 1
           /\ UNCHANGED <<file, tables, created, dropped>>
  <2>1. FilesInv'
    BY <1>1, <1>5 DEF IInv, FilesInv
  <2>2. IndexesInv'
    BY <1>1, <1>5, IndexesQuiet
  <2>3. \A e \in OnPages("tables") : e.tableId \in Int /\ e.tableId < nextTableId
    BY <1>1, FoundAreEntries
    DEF IInv, TablesInv, FilesInv, FileInv, FileType, Files, OnPages, Entries, TableEntry, TableIds
  <2>4. nextTableId \in Int
    BY DEF IInv, TablesInv
  <2>5. \A e \in OnPages("tables") : e.tableId < nextTableId + 1
    BY <2>3, <2>4
  <2>6. TablesInv'
    BY <1>1, <1>4, <1>5, <2>5 DEF IInv, TablesInv, TablesOnPages, OnPages, OneNumberEach
  <2> QED
    BY <2>1, <2>2, <2>6 DEF IInv
<1>6. CASE \E fr \in NotAppended("tables") :
              /\ file' = [file EXCEPT !["tables"] = fr]
              /\ UNCHANGED <<tables, nextTableId, created, dropped>>
  <2>1. PICK fr \in NotAppended("tables") :
              /\ file' = [file EXCEPT !["tables"] = fr]
              /\ UNCHANGED <<tables, nextTableId, created, dropped>>
    BY <1>6
  <2>2. FileInv("tables", fr, running) /\ fr.view = file["tables"].view
    BY <1>1, <1>2, NotAppendedKeeps DEF SamePages
  <2>3. FilesInv' /\ file'["tables"].view = file["tables"].view
                 /\ file'["indexes"].view = file["indexes"].view
    BY <1>1, <1>2, <2>1, <2>2, QuietFileStep
  <2> QED
    BY <1>1, <2>1, <2>3, TablesQuiet, IndexesQuiet DEF IInv
<1>7. CASE \E fr \in Appended("tables", entry) :
              /\ file' = [file EXCEPT !["tables"] = fr]
              /\ tables' = Append(tables, InfoOf(entry))
              /\ nextTableId' = nextTableId + 1
              /\ created' = created \union {entry}
              /\ dropped' = dropped \ {entry}
  <2>1. PICK fr \in Appended("tables", entry) : file' = [file EXCEPT !["tables"] = fr]
    BY <1>7
  <2>2. FileInv("tables", fr, TRUE) /\ OneMore("tables", file["tables"], fr, entry)
    BY <1>1, <1>2, <1>3, AppendedKeeps
  <2>3. FilesInv' /\ file'["tables"] = fr /\ file'["indexes"] = file["indexes"]
    BY <1>1, <1>2, <2>1, <2>2, FileStep DEF Files
  <2>4. OneMore("tables", file["tables"], file'["tables"], entry)
    BY <2>2, <2>3
  <2>5. TablesInv'
    BY <1>1, <1>7, <2>4, TableAdded
  <2> QED
    BY <1>1, <2>3, <2>5, IndexesQuiet DEF IInv
<1> QED
  BY <1>5, <1>6, <1>7

LEMMA DropTableKeeps ==
  ASSUME IInv, NEW n, DropTable(n)
  PROVE  IInv'
<1> DEFINE k == FindTable(n)
           e == [tableId |-> tables[k].tableId, tableName |-> n]
<1>1. /\ running /\ HasTable(n)
      /\ tables' = RemoveAt(tables, k)
      /\ dropped' = dropped \union {e}
      /\ UNCHANGED <<file, indexes, nextTableId, nextIndexId, running, created, unsaved>>
  BY DEF DropTable
<1>2. k \in DOMAIN tables /\ tables[k].tableName = n /\ tables \in Seq(TableInfo)
  BY <1>1, FindTableFinds DEF IInv, TablesInv
<1>3. e = NamedId(tables[k])
  BY <1>2 DEF NamedId
<1> HIDE DEF k, e
<1>4. e \in created
  BY <1>2, <1>3 DEF IInv, TablesInv, TablesOnPages
<1>5. /\ tables' \in Seq(TableInfo)
      /\ DOMAIN tables' = 1 .. Len(tables) - 1
      /\ \A j \in 1 .. Len(tables) - 1 :
            tables'[j] = IF j < k THEN tables[j] ELSE tables[j + 1]
  <2>1. k \in 1 .. Len(tables)
    BY <1>2
  <2>2. /\ RemoveAt(tables, k) \in Seq(TableInfo)
        /\ Len(RemoveAt(tables, k)) = Len(tables) - 1
        /\ \A j \in 1 .. Len(tables) - 1 :
              RemoveAt(tables, k)[j] = IF j < k THEN tables[j] ELSE tables[j + 1]
    BY <1>2, <2>1, Removed
  <2> QED
    BY <1>1, <2>2
<1>6. \A j \in DOMAIN tables' : \E i \in DOMAIN tables : tables'[j] = tables[i]
  <2>1. Len(tables) \in Nat /\ DOMAIN tables = 1 .. Len(tables) /\ k \in Int
    BY <1>2
  <2> QED
    BY <1>5, <2>1
<1>7. FilesInv' /\ IndexesInv'
  BY <1>1, IndexesQuiet DEF IInv, FilesInv
<1>8. OneNumberEach(tables)'
  <2>1. Len(tables) \in Nat /\ DOMAIN tables = 1 .. Len(tables) /\ k \in Int
    BY <1>2
  <2>2. \A i, j \in DOMAIN tables : tables[i].tableId = tables[j].tableId => i = j
    BY DEF IInv, TablesInv, OneNumberEach
  <2>3. ASSUME NEW i \in 1 .. Len(tables) - 1, NEW j \in 1 .. Len(tables) - 1,
               tables'[i].tableId = tables'[j].tableId
        PROVE  i = j
    <3> DEFINE was(h) == IF h < k THEN h ELSE h + 1
    <3>1. tables'[i] = tables[was(i)] /\ tables'[j] = tables[was(j)]
      BY <1>5
    <3>2. was(i) \in DOMAIN tables /\ was(j) \in DOMAIN tables
      BY <2>1
    <3>3. was(i) = was(j)
      BY <2>2, <2>3, <3>1, <3>2
    <3> QED
      BY <2>1, <3>3
  <2> QED
    BY <1>5, <2>3 DEF OneNumberEach
<1>9. TablesInv'
  BY <1>1, <1>4, <1>5, <1>6, <1>8 DEF IInv, TablesInv, TablesOnPages, OnPages
<1> QED
  BY <1>7, <1>9 DEF IInv

LEMMA Replaced ==
  ASSUME NEW S, NEW s \in Seq(S), NEW i \in DOMAIN s, NEW e \in S
  PROVE  /\ [s EXCEPT ![i] = e] \in Seq(S)
         /\ DOMAIN [s EXCEPT ![i] = e] = DOMAIN s
         /\ [s EXCEPT ![i] = e][i] = e
         /\ \A j \in DOMAIN s : j # i => [s EXCEPT ![i] = e][j] = s[j]
OBVIOUS

LEMMA UpdateTableInfoKeeps ==
  ASSUME IInv, NEW i, NEW p \in RootPages, UpdateTableInfo(i, p)
  PROVE  IInv'
<1>1. /\ i \in DOMAIN tables
      /\ tables' = [tables EXCEPT ![i].firstPage = IF @ = NoPage THEN p ELSE @,
                                  ![i].lastPage = p]
      /\ UNCHANGED <<file, indexes, nextTableId, nextIndexId, running, created, dropped, unsaved>>
  BY DEF UpdateTableInfo
<1>2. tables \in Seq(TableInfo) /\ tables[i] \in TableInfo
  BY <1>1 DEF IInv, TablesInv
<1>3. /\ tables' \in Seq(TableInfo) /\ DOMAIN tables' = DOMAIN tables
      /\ \A j \in DOMAIN tables : NamedId(tables'[j]) = NamedId(tables[j])
  <2> DEFINE t == tables[i]
             first == IF t.firstPage = NoPage THEN p ELSE t.firstPage
             u == [t EXCEPT !.firstPage = first]
             v == [u EXCEPT !.lastPage = p]
             between == [tables EXCEPT ![i] = u]
  <2>1. u \in TableInfo /\ NamedId(u) = NamedId(t)
    BY <1>2 DEF TableInfo, NamedId
  <2>2. v \in TableInfo /\ NamedId(v) = NamedId(u)
    <3> HIDE DEF u
    <3> QED
      BY <2>1 DEF TableInfo, NamedId
  <2>3. tables' = [between EXCEPT ![i] = [between[i] EXCEPT !.lastPage = p]]
    BY <1>1
  <2> HIDE DEF u
  <2>4. between \in Seq(TableInfo) /\ DOMAIN between = DOMAIN tables /\ between[i] = u
    BY <1>1, <1>2, <2>1
  <2>5. \A j \in DOMAIN tables : j # i => between[j] = tables[j]
    BY <1>2
  <2> HIDE DEF between
  <2>6. tables' = [between EXCEPT ![i] = v]
    BY <2>3, <2>4
  <2> HIDE DEF v
  <2>7. /\ tables' \in Seq(TableInfo) /\ DOMAIN tables' = DOMAIN tables
        /\ tables'[i] = v /\ \A j \in DOMAIN tables : j # i => tables'[j] = between[j]
    <3>1. i \in DOMAIN between
      BY <1>1, <2>4
    <3>2. /\ [between EXCEPT ![i] = v] \in Seq(TableInfo)
          /\ DOMAIN [between EXCEPT ![i] = v] = DOMAIN between
          /\ [between EXCEPT ![i] = v][i] = v
          /\ \A j \in DOMAIN between : j # i => [between EXCEPT ![i] = v][j] = between[j]
      BY <2>2, <2>4, <3>1, Replaced
    <3> QED
      BY <2>4, <2>6, <3>2
  <2> QED
    BY <2>1, <2>2, <2>5, <2>7
<1>4. FilesInv' /\ IndexesInv'
  BY <1>1, IndexesQuiet DEF IInv, FilesInv
<1>5. OneNumberEach(tables)'
  <2>1. \A j \in DOMAIN tables : tables'[j].tableId = tables[j].tableId
    BY <1>3 DEF NamedId
  <2> QED
    BY <1>3, <2>1 DEF IInv, TablesInv, OneNumberEach
<1>6. TablesInv'
  BY <1>1, <1>3, <1>5 DEF IInv, TablesInv, TablesOnPages, OnPages
<1> QED
  BY <1>4, <1>6 DEF IInv

-----------------------------------------------------------------------------
\* Indexes.

\* info may be saved as the new version of an index: no other index has its number or
\* its name.
NewVersion(info) ==
    /\ info \in IndexInfo
    /\ \A v \in OnPages("indexes") \union indexes :
        v.indexId = info.indexId => v.indexName = info.indexName
    /\ \A j \in indexes' :
        \/ j = info
        \/ j \in indexes /\ j.indexName # info.indexName /\ j.indexId # info.indexId
    /\ nextIndexId' \in 1 .. MaxIndexes + 1
    /\ nextIndexId <= nextIndexId' /\ info.indexId < nextIndexId'
    /\ running /\ running'

LEMMA VersionsOnPages ==
  ASSUME IInv
  PROVE  /\ OnPages("indexes") \subseteq IndexInfo
         /\ OnPages("indexes") = {EntryAt(file["indexes"].view, p) :
                                     p \in Taken("indexes", file["indexes"].view)}
         /\ \A v \in OnPages("indexes") \union indexes : v.indexId \in Int
         /\ nextIndexId \in Int
<1>1. OnPages("indexes") \subseteq IndexInfo
  BY FoundAreEntries DEF IInv, FilesInv, FileInv, FileType, Files, OnPages, Entries
<1>2. indexes \subseteq IndexInfo /\ nextIndexId \in Int
  BY DEF IInv, IndexesInv
<1> QED
  BY <1>1, <1>2 DEF OnPages, Found, IndexInfo, IndexIds

LEMMA VersionsAgree ==
  ASSUME IInv, NEW info, NewVersion(info),
         unsaved' \subseteq unsaved \union {info.indexId},
         Found("indexes", file'["indexes"].view) \subseteq OnPages("indexes") \union {info},
         NewestIndexLoads'
  PROVE  IndexesInv'
<1> DEFINE old == OnPages("indexes") \union indexes
           new == Found("indexes", file'["indexes"].view) \union indexes'
<1>1. info \in IndexInfo /\ info.indexId \in IndexIds
  BY DEF NewVersion, IndexInfo
<1>2. new \subseteq old \union {info}
  BY DEF NewVersion
<1>3. indexes' \subseteq IndexInfo
  BY <1>1 DEF NewVersion, IInv, IndexesInv
<1>4. unsaved' \subseteq IndexIds
  BY <1>1 DEF IInv, IndexesInv
<1>5. \A v, w \in old : v.indexId = w.indexId => v.indexName = w.indexName
  BY DEF IInv, IndexesInv
<1>6. \A v \in old : v.indexId = info.indexId => v.indexName = info.indexName
  BY DEF NewVersion
<1>7. \A v \in old : v.indexId \in Int /\ v.indexId < nextIndexId
  BY VersionsOnPages DEF IInv, IndexesInv, NewVersion
<1>8. nextIndexId \in Int /\ nextIndexId' \in Int /\ nextIndexId <= nextIndexId'
      /\ info.indexId < nextIndexId'
  BY VersionsOnPages DEF NewVersion
<1>9. \A i, j \in indexes' : i.indexName = j.indexName => i = j
  BY DEF NewVersion, IInv, IndexesInv
<1> HIDE DEF old, new
<1>10. \A v, w \in new : v.indexId = w.indexId => v.indexName = w.indexName
  BY <1>2, <1>5, <1>6
<1>11. \A v \in new : v.indexId < nextIndexId'
  <2> SUFFICES ASSUME NEW v \in new PROVE v.indexId < nextIndexId'
    OBVIOUS
  <2>1. CASE v = info
    BY <1>8, <2>1
  <2>2. CASE v \in old
    BY <1>7, <1>8, <2>2
  <2> QED
    BY <1>2, <2>1, <2>2
<1> QED
  BY <1>3, <1>4, <1>9, <1>10, <1>11 DEF IndexesInv, OnPages, new, NewVersion

LEMMA VersionSaved ==
  ASSUME IInv, NEW info, NewVersion(info),
         OneMore("indexes", file["indexes"], file'["indexes"], info),
         unsaved' = unsaved \ {info.indexId}
  PROVE  IndexesInv'
<1> DEFINE old == file["indexes"].view
           new == file'["indexes"].view
<1>1. PICK c \in Places("indexes") :
        /\ Taken("indexes", new) = Taken("indexes", old) \union {c}
        /\ EntryAt(new, c) = info
        /\ \A q \in Taken("indexes", old) : EntryAt(new, q) = EntryAt(old, q) /\ Before(q, c)
  BY DEF OneMore
<1>2. c \in Int \X Int /\ \A q \in Taken("indexes", old) : q \in Int \X Int
  BY Bounds DEF Files, Taken
<1> HIDE DEF old, new
<1>3. \A q \in Taken("indexes", new) : ~Before(c, q)
  BY <1>1, <1>2, BeforeIsOrder
<1>4. Found("indexes", new) \subseteq OnPages("indexes") \union {info}
  BY <1>1 DEF Found, OnPages, old
<1>5. ASSUME NEW idx \in indexes', idx.indexId \notin unsaved'
      PROVE  \E p \in Taken("indexes", new) :
                /\ EntryAt(new, p) = idx
                /\ \A q \in Taken("indexes", new) :
                    Before(p, q) => EntryAt(new, q).indexName # idx.indexName
  <2>1. CASE idx = info
    BY <1>1, <1>3, <2>1
  <2>2. CASE idx # info
    <3>1. idx \in indexes /\ idx.indexName # info.indexName /\ idx.indexId # info.indexId
      BY <2>2 DEF NewVersion
    <3>2. idx.indexId \notin unsaved
      BY <1>5, <3>1
    <3>3. PICK p \in Taken("indexes", old) :
            /\ EntryAt(old, p) = idx
            /\ \A q \in Taken("indexes", old) :
                Before(p, q) => EntryAt(old, q).indexName # idx.indexName
      BY <3>1, <3>2 DEF IInv, IndexesInv, NewestIndexLoads, NewVersion, old
    <3> QED
      BY <1>1, <3>1, <3>3
  <2> QED
    BY <2>1, <2>2
<1>6. NewestIndexLoads'
  BY <1>5 DEF NewestIndexLoads, new
<1> QED
  BY <1>4, <1>6, VersionsAgree DEF new

LEMMA VersionNotSaved ==
  ASSUME IInv, NEW info, NewVersion(info),
         file'["indexes"].view = file["indexes"].view,
         unsaved' = unsaved \union {info.indexId}
  PROVE  IndexesInv'
<1>1. Found("indexes", file'["indexes"].view) \subseteq OnPages("indexes") \union {info}
  BY DEF OnPages
<1>2. \A idx \in indexes' : idx.indexId \notin unsaved' => idx \in indexes /\ idx.indexId \notin unsaved
  BY DEF NewVersion
<1>3. NewestIndexLoads'
  BY <1>2 DEF IInv, IndexesInv, NewestIndexLoads, NewVersion
<1> QED
  BY <1>1, <1>3, VersionsAgree

LEMMA SaveKeeps ==
  ASSUME IInv, NEW info, NewVersion(info), Save(info),
         NeedsBlock("indexes") => file["indexes"].allocated < MaxBlocks,
         UNCHANGED <<tables, nextTableId, running, created, dropped>>
  PROVE  IInv'
<1>1. /\ FileInv("indexes", file["indexes"], TRUE) /\ "indexes" \in Files
      /\ info \in Entries("indexes") /\ running
  BY DEF IInv, FilesInv, Files, Entries, NewVersion
<1>2. CASE \E fr \in Appended("indexes", info) :
              /\ file' = [file EXCEPT !["indexes"] = fr]
              /\ unsaved' = unsaved \ {info.indexId}
  <2>1. PICK fr \in Appended("indexes", info) : file' = [file EXCEPT !["indexes"] = fr]
    BY <1>2
  <2>2. FileInv("indexes", fr, TRUE) /\ OneMore("indexes", file["indexes"], fr, info)
    BY <1>1, AppendedKeeps
  <2>3. FilesInv' /\ file'["indexes"] = fr /\ file'["tables"] = file["tables"]
    BY <1>1, <2>1, <2>2, FileStep DEF Files
  <2>4. OneMore("indexes", file["indexes"], file'["indexes"], info)
    BY <2>2, <2>3
  <2> QED
    BY <1>2, <2>3, <2>4, TablesQuiet, VersionSaved DEF IInv
<1>3. CASE \E fr \in NotAppended("indexes") :
              /\ file' = [file EXCEPT !["indexes"] = fr]
              /\ unsaved' = unsaved \union {info.indexId}
  <2>1. PICK fr \in NotAppended("indexes") : file' = [file EXCEPT !["indexes"] = fr]
    BY <1>3
  <2>2. FileInv("indexes", fr, running) /\ fr.view = file["indexes"].view
    BY <1>1, NotAppendedKeeps DEF SamePages
  <2>3. FilesInv' /\ file'["tables"].view = file["tables"].view
                 /\ file'["indexes"].view = file["indexes"].view
    BY <1>1, <2>1, <2>2, QuietFileStep
  <2> QED
    BY <1>3, <2>3, TablesQuiet, VersionNotSaved DEF IInv
<1> QED
  BY <1>2, <1>3 DEF Save

LEMMA CreateIndexMetadataKeeps ==
  ASSUME IInv, NEW n \in IndexNames, NEW t \in TableNames, CreateIndexMetadata(n, t)
  PROVE  IInv'
<1> DEFINE info == [indexId |-> nextIndexId, indexName |-> n,
                    tableId |-> tables[FindTable(t)].tableId, rootPage |-> NoPage]
<1>1. /\ running
      /\ \A idx \in indexes : idx.indexName # n
      /\ HasTable(t)
      /\ nextIndexId <= MaxIndexes
      /\ NeedsBlock("indexes") => file["indexes"].allocated < MaxBlocks
      /\ nextIndexId' = nextIndexId + 1
      /\ \/ UNCHANGED <<file, indexes, unsaved>>
         \/ indexes' = indexes \union {info} /\ Save(info)
      /\ UNCHANGED <<tables, nextTableId, running, created, dropped>>
  BY DEF CreateIndexMetadata
<1>2. nextIndexId \in IndexIds /\ nextIndexId + 1 \in 1 .. MaxIndexes + 1 /\ nextIndexId \in Int
  BY <1>1, DictAssumption DEF IndexIds, IInv, IndexesInv
<1>3. \A v \in OnPages("indexes") \union indexes : v.indexId \in Int /\ v.indexId < nextIndexId
  BY <1>1, VersionsOnPages DEF IInv, IndexesInv
<1>4. CASE UNCHANGED <<file, indexes, unsaved>>
  <2>1. FilesInv' /\ TablesInv'
    BY <1>1, <1>4, TablesQuiet DEF IInv, FilesInv
  <2>2. \A v \in OnPages("indexes") \union indexes : v.indexId < nextIndexId + 1
    BY <1>2, <1>3
  <2>3. IndexesInv'
    BY <1>1, <1>2, <1>4, <2>2 DEF IInv, IndexesInv, NewestIndexLoads, OnPages
  <2> QED
    BY <2>1, <2>3 DEF IInv
<1>5. CASE indexes' = indexes \union {info} /\ Save(info)
  <2>1. tables[FindTable(t)] \in TableInfo
    BY <1>1, FindTableFinds DEF IInv, TablesInv
  <2>2. info \in IndexInfo
    BY <1>2, <2>1 DEF IndexInfo, TableInfo
  <2>3. info.indexId = nextIndexId /\ info.indexName = n
    OBVIOUS
  <2> HIDE DEF info
  <2>4. NewVersion(info)
    BY <1>1, <1>2, <1>3, <1>5, <2>2, <2>3 DEF NewVersion
  <2> QED
    BY <1>1, <1>5, <2>4, SaveKeeps
<1> QED
  BY <1>1, <1>4, <1>5

LEMMA UpdateIndexInfoKeeps ==
  ASSUME IInv, NEW idx \in indexes, NEW root \in RootPages, UpdateIndexInfo(idx, root)
  PROVE  IInv'
<1> DEFINE info == [idx EXCEPT !.rootPage = root]
<1>1. /\ running
      /\ NeedsBlock("indexes") => file["indexes"].allocated < MaxBlocks
      /\ indexes' = (indexes \ {idx}) \union {info}
      /\ Save(info)
      /\ UNCHANGED <<tables, nextTableId, nextIndexId, running, created, dropped>>
  BY DEF UpdateIndexInfo
<1>2. idx \in IndexInfo
  BY DEF IInv, IndexesInv
<1>3. info \in IndexInfo /\ info.indexId = idx.indexId /\ info.indexName = idx.indexName
  BY <1>2 DEF IndexInfo
<1> HIDE DEF info
<1>4. \A v \in OnPages("indexes") \union indexes :
        v.indexId = info.indexId => v.indexName = info.indexName
  BY <1>3 DEF IInv, IndexesInv
<1>5. \A j \in indexes :
        j # idx => j.indexName # info.indexName /\ j.indexId # info.indexId
  BY <1>3, <1>4 DEF IInv, IndexesInv
<1>6. nextIndexId \in Int /\ info.indexId < nextIndexId
  BY <1>1, <1>3, VersionsOnPages DEF IInv, IndexesInv
<1>7. nextIndexId' = nextIndexId /\ nextIndexId \in 1 .. MaxIndexes + 1
  BY <1>1 DEF IInv, IndexesInv
<1>8. NewVersion(info)
  BY <1>1, <1>3, <1>4, <1>5, <1>6, <1>7 DEF NewVersion
<1> QED
  BY <1>1, <1>8, SaveKeeps

-----------------------------------------------------------------------------
\* Pages written back, and the end of the process.

LEMMA WritePageKeeps ==
  ASSUME IInv, NEW f \in Files, NEW b \in Blocks, WritePage(f, b)
  PROVE  IInv'
<1> DEFINE fr == file[f]
           gr == [fr EXCEPT !.stable[b] = fr.view[b]]
           stable == [fr.stable EXCEPT ![b] = fr.view[b]]
<1>1. /\ file' = [file EXCEPT ![f].stable[b] = file[f].view[b]]
      /\ UNCHANGED <<tables, indexes, nextTableId, nextIndexId, running, created, dropped, unsaved>>
      /\ running
  BY DEF WritePage
<1>2. FileInv(f, fr, running) /\ FileType(f, fr) /\ f \in DOMAIN file
  BY DEF IInv, FilesInv, FileInv
<1>3. file' = [file EXCEPT ![f] = gr]
  BY <1>1, <1>2
<1>4. /\ DOMAIN gr = DOMAIN fr
      /\ gr.allocated = fr.allocated /\ gr.current = fr.current /\ gr.offset = fr.offset
      /\ gr.broken = fr.broken /\ gr.seen = fr.seen
      /\ gr.view = fr.view /\ gr.stable = stable
  BY <1>2 DEF FileType, FileFields
<1>5. stable \in [Blocks -> Page(f)]
  BY <1>2 DEF FileType
<1>6. \A p \in Taken(f, stable) : EntryAt(fr.view, p) = EntryAt(stable, p)
  <2> SUFFICES ASSUME NEW p \in Taken(f, stable)
               PROVE  EntryAt(fr.view, p) = EntryAt(stable, p)
    OBVIOUS
  <2>1. p[1] \in Blocks /\ p \in Places(f)
    BY DEF Taken, Places
  <2>2. CASE p[1] = b
    BY <1>2, <2>1, <2>2 DEF EntryAt, FileType
  <2>3. CASE p[1] # b
    <3>1. stable[p[1]] = fr.stable[p[1]]
      BY <1>2, <2>1, <2>3 DEF FileType
    <3>2. p \in Taken(f, fr.stable)
      BY <3>1 DEF Taken, EntryAt
    <3> QED
      BY <1>2, <3>1, <3>2 DEF FileInv, StableOnPages, EntryAt
  <2> QED
    BY <2>2, <2>3
<1> HIDE DEF gr, stable
<1>7. FileInv(f, gr, running)
  BY <1>1, <1>2, <1>4, <1>5, <1>6 DEF FileInv, FileType, StableOnPages, BeforeEnd
<1>8. FilesInv' /\ file'["tables"].view = file["tables"].view
               /\ file'["indexes"].view = file["indexes"].view
  BY <1>1, <1>3, <1>4, <1>7, QuietFileStep
<1> QED
  BY <1>1, <1>8, TablesQuiet, IndexesQuiet DEF IInv

LEMMA WritePageFailsKeeps ==
  ASSUME IInv, NEW f \in Files, WritePageFails(f)
  PROVE  IInv'
<1> DEFINE gr == [file[f] EXCEPT !.broken = TRUE]
<1>1. /\ file' = [file EXCEPT ![f].broken = TRUE]
      /\ UNCHANGED <<tables, indexes, nextTableId, nextIndexId, running, created, dropped, unsaved>>
  BY DEF WritePageFails
<1>2. FileInv(f, file[f], running) /\ running \in BOOLEAN
  BY DEF IInv, FilesInv
<1>3. file' = [file EXCEPT ![f] = gr]
  BY <1>1
<1>4. FileInv(f, gr, running) /\ gr.view = file[f].view
  BY <1>2, BreakKeeps DEF SamePages
<1> HIDE DEF gr
<1>5. FilesInv' /\ file'["tables"].view = file["tables"].view
               /\ file'["indexes"].view = file["indexes"].view
  BY <1>1, <1>3, <1>4, QuietFileStep
<1> QED
  BY <1>1, <1>5, TablesQuiet, IndexesQuiet DEF IInv

\* What is left of the invariant when the process is gone: of each file, fewer entries
\* on the pages, each in its place.
LEMMA GoneKeeps ==
  ASSUME IInv, Gone, created' = Found("tables", file'["tables"].view),
         dropped' \subseteq created',
         DOMAIN file' = Files, \A f \in Files : FileInv(f, file'[f], FALSE),
         \A f \in Files : \A p \in Taken(f, file'[f].view) :
             /\ p \in Taken(f, file[f].view)
             /\ EntryAt(file'[f].view, p) = EntryAt(file[f].view, p)
  PROVE  IInv'
<1>1. /\ tables' = <<>> /\ indexes' = {} /\ nextTableId' = 1 /\ nextIndexId' = 1
      /\ running' = FALSE /\ unsaved' = {}
  BY DEF Gone
<1>2. FilesInv'
  BY <1>1, FilesNext
<1>3. \A f \in Files : Found(f, file'[f].view) \subseteq Found(f, file[f].view)
  BY DEF Found
<1>4. TablesInv'
  <2>1. tables' \in Seq(TableInfo) /\ DOMAIN tables' = {}
    BY <1>1
  <2>2. nextTableId' \in 1 .. MaxTables + 1
    BY <1>1, DictAssumption
  <2>3. created' \subseteq TableEntry
    BY <1>3 DEF IInv, TablesInv, OnPages, Files
  <2>4. OneNumberEach(tables)'
    BY <2>1 DEF OneNumberEach
  <2>5. \A p, q \in Taken("tables", file'["tables"].view) :
          EntryAt(file'["tables"].view, p).tableId = EntryAt(file'["tables"].view, q).tableId
            => p = q
    BY DEF IInv, TablesInv, Files
  <2> QED
    BY <1>1, <2>1, <2>2, <2>3, <2>4, <2>5 DEF TablesInv, TablesOnPages, OnPages
<1>5. IndexesInv'
  <2>1. \A v, w \in Found("indexes", file'["indexes"].view) :
          v.indexId = w.indexId => v.indexName = w.indexName
    BY <1>3 DEF IInv, IndexesInv, OnPages, Files
  <2>2. nextIndexId' \in 1 .. MaxIndexes + 1
    BY <1>1, DictAssumption
  <2> QED
    BY <1>1, <2>1, <2>2 DEF IndexesInv, NewestIndexLoads, OnPages
<1> QED
  BY <1>2, <1>4, <1>5 DEF IInv

LEMMA ExitKeeps ==
  ASSUME IInv, Exit
  PROVE  IInv'
<1> DEFINE end(f) == [file[f] EXCEPT !.stable = file[f].view, !.broken = FALSE, !.seen = {},
                                     !.current = NoBlock, !.offset = 0]
<1>1. file' = [f \in Files |-> end(f)] /\ Gone /\ UNCHANGED <<created, dropped>>
  BY DEF Exit
<1>2. ASSUME NEW f \in Files
      PROVE  FileInv(f, file'[f], FALSE) /\ file'[f].view = file[f].view
  <2> DEFINE fr == file[f]
             gr == end(f)
  <2>1. FileInv(f, fr, running) /\ FileType(f, fr)
    BY DEF IInv, FilesInv, FileInv
  <2>2. /\ DOMAIN gr = DOMAIN fr
        /\ gr.allocated = fr.allocated /\ gr.current = NoBlock /\ gr.offset = 0
        /\ gr.broken = FALSE /\ gr.seen = {}
        /\ gr.view = fr.view /\ gr.stable = fr.view
    BY <2>1 DEF FileType, FileFields
  <2>3. file'[f] = gr
    BY <1>1
  <2> HIDE DEF fr, gr
  <2>4. FileType(f, gr)
    <3>1. gr.allocated \in 0 .. MaxBlocks
      BY <2>1, <2>2 DEF FileType
    <3>2. gr.current \in -1 .. gr.allocated - 1 /\ gr.offset \in 0 .. Capacity[f]
      BY <2>2, <3>1, Bounds DEF NoBlock
    <3> QED
      BY <2>1, <2>2, <3>1, <3>2 DEF FileType
  <2>5. FileInv(f, gr, FALSE)
    BY <2>1, <2>2, <2>4 DEF FileInv, StableOnPages, BeforeEnd
  <2> QED
    BY <2>2, <2>3, <2>5 DEF fr
<1>3. DOMAIN file' = Files
  BY <1>1
<1>4. created' = Found("tables", file'["tables"].view) /\ dropped' \subseteq created'
  BY <1>1, <1>2 DEF IInv, TablesInv, OnPages, Files
<1> QED
  BY <1>1, <1>2, <1>3, <1>4, GoneKeeps

LEMMA CrashKeeps ==
  ASSUME IInv, NEW forgotten \in SUBSET Files, Crash(forgotten)
  PROVE  IInv'
<1> DEFINE left(f) == [file[f] EXCEPT
                         !.allocated = IF f \in forgotten THEN @ - 1 ELSE @,
                         !.view = file[f].stable, !.broken = FALSE, !.seen = {},
                         !.current = NoBlock, !.offset = 0]
<1>1. /\ file' = [f \in Files |-> left(f)] /\ Gone /\ dropped' = {}
      /\ created' = created \intersect Found("tables", file["tables"].stable)
      /\ \A f \in forgotten : MayForget(f)
  BY DEF Crash
<1>2. ASSUME NEW f \in Files
      PROVE  /\ FileInv(f, file'[f], FALSE)
             /\ file'[f].view = file[f].stable
             /\ \A p \in Taken(f, file'[f].view) :
                  /\ p \in Taken(f, file[f].view)
                  /\ EntryAt(file'[f].view, p) = EntryAt(file[f].view, p)
  <2> DEFINE fr == file[f]
             gr == left(f)
  <2>1. FileInv(f, fr, running) /\ FileType(f, fr)
    BY DEF IInv, FilesInv, FileInv
  <2>2. /\ DOMAIN gr = DOMAIN fr
        /\ gr.allocated = IF f \in forgotten THEN fr.allocated - 1 ELSE fr.allocated
        /\ gr.current = NoBlock /\ gr.offset = 0
        /\ gr.broken = FALSE /\ gr.seen = {}
        /\ gr.view = fr.stable /\ gr.stable = fr.stable
    BY <2>1 DEF FileType, FileFields
  <2>3. file'[f] = gr
    BY <1>1
  <2>4. f \in forgotten =>
          fr.allocated > 0 /\ fr.view[fr.allocated - 1] = EmptyPage(f)
    BY <1>1 DEF MayForget
  <2> HIDE DEF fr, gr
  <2>5. \A p \in Taken(f, fr.stable) :
          p \in Taken(f, fr.view) /\ EntryAt(fr.view, p) = EntryAt(fr.stable, p)
    BY <2>1 DEF FileInv, StableOnPages, Taken
  <2>6. \A p \in Taken(f, fr.view) : p[1] < gr.allocated
    <3> SUFFICES ASSUME NEW p \in Taken(f, fr.view) PROVE p[1] < gr.allocated
      OBVIOUS
    <3>1. p[1] < fr.allocated /\ p[1] \in Int /\ fr.allocated \in Int
      BY <2>1, Bounds DEF FileInv, BeforeEnd, Taken, FileType
    <3>2. CASE f \in forgotten
      <4>1. p[2] \in Offsets(f) /\ fr.view[p[1]][p[2]] # NoEntry
        BY DEF Taken, Places, EntryAt
      <4>2. p[1] # fr.allocated - 1
        BY <2>4, <3>2, <4>1 DEF EmptyPage
      <4> QED
        BY <2>2, <3>1, <3>2, <4>2
    <3> QED
      BY <2>2, <3>1, <3>2
  <2>7. FileType(f, gr)
    <3>1. gr.allocated \in 0 .. MaxBlocks
      <4>1. fr.allocated \in 0 .. MaxBlocks
        BY <2>1 DEF FileType
      <4> QED
        BY <2>2, <2>4, <4>1, Bounds
    <3>2. gr.current \in -1 .. gr.allocated - 1 /\ gr.offset \in 0 .. Capacity[f]
      BY <2>2, <3>1, Bounds DEF NoBlock
    <3> QED
      BY <2>1, <2>2, <3>1, <3>2 DEF FileType
  <2>8. FileInv(f, gr, FALSE)
    BY <2>2, <2>5, <2>6, <2>7 DEF FileInv, StableOnPages, BeforeEnd
  <2> QED
    BY <2>2, <2>3, <2>5, <2>8 DEF fr
<1>3. DOMAIN file' = Files
  BY <1>1
<1>4. created' = Found("tables", file'["tables"].view) /\ dropped' \subseteq created'
  <2>1. Found("tables", file'["tables"].view) \subseteq Found("tables", file["tables"].view)
    BY <1>2 DEF Found, Files
  <2>2. file'["tables"].view = file["tables"].stable
    BY <1>2 DEF Files
  <2> QED
    BY <1>1, <2>1, <2>2 DEF IInv, TablesInv, OnPages
<1> QED
  BY <1>1, <1>2, <1>3, <1>4, GoneKeeps

-----------------------------------------------------------------------------
\* The start.

LEMMA LoadedKeeps ==
  ASSUME NEW f \in Files, FileInv(f, file[f], FALSE), file[f].allocated < MaxBlocks
  PROVE  FileInv(f, Loaded(f), TRUE) /\ SamePages(file[f], Loaded(f))
<1>1. LastOffset(f) + 1 > Capacity[f]
  BY Bounds DEF LastOffset
<1>2. Loaded(f) = NewBlock(file[f])
  BY <1>1 DEF Loaded
<1> QED
  BY <1>2, NewBlockKeeps

LEMMA StartKeeps ==
  ASSUME IInv, Start
  PROVE  IInv'
<1> DEFINE tablePages == file["tables"].stable
           indexPages == file["indexes"].stable
           entries    == EntriesOf("tables", tablePages)
<1>1. /\ ~running
      /\ \A f \in Files : file[f].allocated < MaxBlocks
      /\ tables' = [i \in DOMAIN entries |-> InfoOf(entries[i])]
      /\ nextTableId' = NextId(1, {e.tableId : e \in Found("tables", tablePages)})
      /\ indexes' = LastByName(indexPages)
      /\ nextIndexId' = NextId(1, {e.indexId : e \in Found("indexes", indexPages)})
      /\ file' = [f \in Files |-> Loaded(f)]
      /\ running' = TRUE
      /\ UNCHANGED <<created, dropped, unsaved>>
  BY DEF Start
<1>2. \A f \in Files : FileInv(f, file[f], FALSE)
  BY <1>1 DEF IInv, FilesInv
<1>3. \A f \in Files : FileInv(f, file'[f], TRUE) /\ SamePages(file[f], file'[f])
  BY <1>1, <1>2, LoadedKeeps
<1>4. FilesInv'
  BY <1>1, <1>3, FilesNext
<1>5. /\ file'["tables"].view = tablePages /\ file["tables"].view = tablePages
      /\ file'["indexes"].view = indexPages /\ file["indexes"].view = indexPages
  BY <1>2, <1>3 DEF SamePages, FileInv, Files
<1>6. Found("tables", tablePages) \subseteq TableEntry
      /\ Found("indexes", indexPages) \subseteq IndexInfo
  BY <1>2, FoundAreEntries DEF FileInv, FileType, Files, Entries
<1>7. TablesInv'
  <2>1. /\ nextTableId' \in 1 .. MaxTables + 1
        /\ \A e \in Found("tables", tablePages) : e.tableId < nextTableId'
    <3> DEFINE ids == {e.tableId : e \in Found("tables", tablePages)}
    <3>1. ids \in SUBSET (1 .. MaxTables) /\ MaxTables \in Nat
      BY <1>6, DictAssumption DEF TableEntry, TableIds
    <3>2. \A e \in Found("tables", tablePages) : e.tableId \in ids
      OBVIOUS
    <3> HIDE DEF ids
    <3>3. NextId(1, ids) \in 1 .. MaxTables + 1 /\ \A i \in ids : i < NextId(1, ids)
      BY <3>1, NextIdIsNew
    <3> QED
      BY <1>1, <3>2, <3>3 DEF ids
  <2>2. /\ entries \in Seq(Found("tables", tablePages))
        /\ \A i \in DOMAIN entries : entries[i] \in Found("tables", tablePages)
        /\ \A i, j \in DOMAIN entries :
              \E p, q \in Taken("tables", tablePages) :
                  /\ entries[i] = EntryAt(tablePages, p)
                  /\ entries[j] = EntryAt(tablePages, q)
                  /\ p = q => i = j
    BY EntriesAreFound DEF Files
  <2>3. \A e \in Found("tables", tablePages) : InfoOf(e) \in TableInfo /\ NamedId(InfoOf(e)) = e
    BY <1>6 DEF InfoOf, NamedId, TableInfo, TableEntry
  <2> HIDE DEF entries, tablePages, indexPages
  <2>4. tables' \in Seq(TableInfo)
    BY <1>1, <2>2, <2>3
  <2>5. \A i \in DOMAIN tables' : NamedId(tables'[i]) \in Found("tables", tablePages)
    BY <1>1, <2>2, <2>3
  <2>6. OneNumberEach(tables)'
    <3>1. \A p, q \in Taken("tables", tablePages) :
            EntryAt(tablePages, p).tableId = EntryAt(tablePages, q).tableId => p = q
      BY <1>5 DEF IInv, TablesInv
    <3>2. \A i, j \in DOMAIN entries : entries[i].tableId = entries[j].tableId => i = j
      BY <2>2, <3>1
    <3>3. /\ DOMAIN tables' = DOMAIN entries
          /\ \A i \in DOMAIN entries : tables'[i].tableId = entries[i].tableId
      BY <1>1 DEF InfoOf
    <3> QED
      BY <3>2, <3>3 DEF OneNumberEach
  <2>7. /\ \A p, q \in Taken("tables", tablePages) :
              EntryAt(tablePages, p).tableId = EntryAt(tablePages, q).tableId => p = q
        /\ created \subseteq TableEntry /\ dropped \subseteq created
        /\ created = Found("tables", tablePages)
    BY <1>5 DEF IInv, TablesInv, OnPages
  <2>8. /\ file'["tables"].view = tablePages /\ created' = created /\ dropped' = dropped
        /\ OnPages("tables")' = Found("tables", tablePages)
    BY <1>1, <1>5 DEF OnPages
  <2>9. TablesOnPages'
    BY <2>5, <2>8 DEF TablesOnPages
  <2> QED
    BY <2>1, <2>4, <2>6, <2>7, <2>8, <2>9 DEF TablesInv
<1>8. IndexesInv'
  <2>1. /\ nextIndexId' \in 1 .. MaxIndexes + 1
        /\ \A e \in Found("indexes", indexPages) : e.indexId < nextIndexId'
    <3> DEFINE ids == {e.indexId : e \in Found("indexes", indexPages)}
    <3>1. ids \in SUBSET (1 .. MaxIndexes) /\ MaxIndexes \in Nat
      BY <1>6, DictAssumption DEF IndexInfo, IndexIds
    <3>2. \A e \in Found("indexes", indexPages) : e.indexId \in ids
      OBVIOUS
    <3> HIDE DEF ids
    <3>3. NextId(1, ids) \in 1 .. MaxIndexes + 1 /\ \A i \in ids : i < NextId(1, ids)
      BY <3>1, NextIdIsNew
    <3> QED
      BY <1>1, <3>2, <3>3 DEF ids
  <2> HIDE DEF tablePages, indexPages
  <2>2. /\ indexes' \subseteq Found("indexes", indexPages)
        /\ \A v \in indexes' :
              \E p \in Taken("indexes", indexPages) :
                  /\ EntryAt(indexPages, p) = v
                  /\ \A q \in Taken("indexes", indexPages) :
                      Before(p, q) => EntryAt(indexPages, q).indexName # v.indexName
        /\ \A v, w \in indexes' : v.indexName = w.indexName => v = w
    BY <1>1, LastByNameIsLast
  <2>3. \A v, w \in Found("indexes", indexPages) :
          v.indexId = w.indexId => v.indexName = w.indexName
    BY <1>5 DEF IInv, IndexesInv, OnPages
  <2>4. NewestIndexLoads'
    BY <1>5, <2>2 DEF NewestIndexLoads
  <2>5. unsaved' \subseteq IndexIds
    BY <1>1 DEF IInv, IndexesInv
  <2> QED
    BY <1>5, <1>6, <2>1, <2>2, <2>3, <2>4, <2>5 DEF IndexesInv, OnPages
<1> QED
  BY <1>4, <1>7, <1>8 DEF IInv

LEMMA StartFailsKeeps ==
  ASSUME IInv, StartFails
  PROVE  IInv'
<1> DEFINE fr == file["tables"]
           gr == [fr EXCEPT !.allocated = @ + 1]
<1>1. /\ ~running /\ fr.allocated < MaxBlocks
      /\ file' = [file EXCEPT !["tables"].allocated = @ + 1]
      /\ UNCHANGED <<tables, indexes, nextTableId, nextIndexId, running, created, dropped, unsaved>>
  BY DEF StartFails
<1>2. FileInv("tables", fr, FALSE) /\ FileType("tables", fr) /\ "tables" \in Files
  BY <1>1 DEF IInv, FilesInv, FileInv, Files
<1>3. file' = [file EXCEPT !["tables"] = gr]
  BY <1>1
<1>4. /\ DOMAIN gr = DOMAIN fr
      /\ gr.allocated = fr.allocated + 1 /\ gr.current = fr.current /\ gr.offset = fr.offset
      /\ gr.broken = fr.broken /\ gr.seen = fr.seen
      /\ gr.view = fr.view /\ gr.stable = fr.stable
  BY <1>2 DEF FileType, FileFields
<1>5. running = FALSE
  BY <1>1 DEF IInv, FilesInv
<1> HIDE DEF fr, gr
<1>6. FileType("tables", gr)
  BY <1>1, <1>2, <1>4, Bounds DEF FileType
<1>7. BeforeEnd("tables", gr, FALSE)
  <2>1. \A p \in Taken("tables", fr.view) :
          p[1] < fr.allocated /\ p[1] \in Int /\ fr.allocated \in Int
    BY <1>2, Bounds DEF FileInv, BeforeEnd, Taken, FileType
  <2>2. \A p \in Taken("tables", fr.view) : p[1] < fr.allocated + 1
    BY <2>1
  <2> QED
    BY <1>4, <2>2 DEF BeforeEnd
<1>8. FileInv("tables", gr, running)
  BY <1>2, <1>4, <1>5, <1>6, <1>7 DEF FileInv, StableOnPages
<1>9. FilesInv' /\ file'["tables"].view = file["tables"].view
               /\ file'["indexes"].view = file["indexes"].view
  BY <1>1, <1>2, <1>3, <1>4, <1>8, QuietFileStep DEF fr
<1> QED
  BY <1>1, <1>9, TablesQuiet, IndexesQuiet DEF IInv

-----------------------------------------------------------------------------
\* The theorems.

LEMMA InitInv == Init => IInv
<1> SUFFICES ASSUME Init PROVE IInv
  OBVIOUS
<1>1. ASSUME NEW f \in Files
      PROVE  FileInv(f, file[f], FALSE) /\ Taken(f, file[f].view) = {} /\ Found(f, file[f].view) = {}
  <2> DEFINE fr == file[f]
  <2>1. fr = [allocated |-> 0, broken |-> FALSE, seen |-> {},
              view   |-> [b \in Blocks |-> EmptyPage(f)],
              stable |-> [b \in Blocks |-> EmptyPage(f)],
              current |-> NoBlock, offset |-> 0]
    BY DEF Init
  <2>2. /\ DOMAIN fr = FileFields
        /\ fr.allocated = 0 /\ fr.broken = FALSE /\ fr.seen = {}
        /\ fr.view = [b \in Blocks |-> EmptyPage(f)]
        /\ fr.stable = [b \in Blocks |-> EmptyPage(f)]
        /\ fr.current = NoBlock /\ fr.offset = 0
    BY <2>1 DEF FileFields
  <2> HIDE DEF fr
  <2>3. EmptyPage(f) \in Page(f)
    BY DEF EmptyPage, Page
  <2>4. FileType(f, fr)
    <3>1. fr.allocated \in 0 .. MaxBlocks
      BY <2>2, Bounds
    <3>2. fr.current \in -1 .. fr.allocated - 1 /\ fr.offset \in 0 .. Capacity[f]
      BY <2>2, <3>1, Bounds DEF NoBlock
    <3> QED
      BY <2>2, <2>3, <3>1, <3>2 DEF FileType
  <2>5. Taken(f, fr.view) = {} /\ Taken(f, fr.stable) = {}
    BY <2>2 DEF Taken, Places, EntryAt, EmptyPage
  <2>6. FileInv(f, fr, FALSE)
    BY <2>2, <2>4, <2>5 DEF FileInv, StableOnPages, BeforeEnd
  <2> QED
    BY <2>5, <2>6 DEF Found, fr
<1>2. /\ tables = <<>> /\ indexes = {} /\ nextTableId = 1 /\ nextIndexId = 1
      /\ running = FALSE /\ created = {} /\ dropped = {} /\ unsaved = {} /\ DOMAIN file = Files
  BY DEF Init
<1>3. FilesInv
  BY <1>1, <1>2 DEF FilesInv
<1>4. TablesInv
  BY <1>1, <1>2, DictAssumption DEF TablesInv, TablesOnPages, OnPages, Files, OneNumberEach
<1>5. IndexesInv
  BY <1>1, <1>2, DictAssumption DEF IndexesInv, NewestIndexLoads, OnPages, Files
<1> QED
  BY <1>3, <1>4, <1>5 DEF IInv

LEMMA NextInv == IInv /\ [Next]_vars => IInv'
<1> SUFFICES ASSUME IInv, [Next]_vars PROVE IInv'
  OBVIOUS
<1>1. CASE UNCHANGED vars
  <2>1. FilesInv'
    BY <1>1 DEF vars, IInv, FilesInv
  <2> QED
    BY <1>1, <2>1, TablesQuiet, IndexesQuiet DEF vars, IInv
<1>2. CASE Start
  BY <1>2, StartKeeps
<1>3. CASE StartFails
  BY <1>3, StartFailsKeeps
<1>4. ASSUME NEW n \in TableNames, CreateTable(n) \/ DropTable(n) PROVE IInv'
  BY <1>4, CreateTableKeeps, DropTableKeeps
<1>5. ASSUME NEW i \in 1 .. MaxTables, NEW p \in RootPages, UpdateTableInfo(i, p) PROVE IInv'
  BY <1>5, UpdateTableInfoKeeps
<1>6. ASSUME NEW n \in IndexNames, NEW t \in TableNames, CreateIndexMetadata(n, t) PROVE IInv'
  BY <1>6, CreateIndexMetadataKeeps
<1>7. ASSUME NEW idx \in indexes, NEW root \in RootPages, UpdateIndexInfo(idx, root) PROVE IInv'
  BY <1>7, UpdateIndexInfoKeeps
<1>8. ASSUME NEW f \in Files, NEW b \in Blocks, WritePage(f, b) PROVE IInv'
  BY <1>8, WritePageKeeps
<1>9. ASSUME NEW f \in Files, WritePageFails(f) PROVE IInv'
  BY <1>9, WritePageFailsKeeps
<1>10. CASE Exit
  BY <1>10, ExitKeeps
<1>11. ASSUME NEW forgotten \in SUBSET Files, Crash(forgotten) PROVE IInv'
  BY <1>11, CrashKeeps
<1> QED
  BY <1>1, <1>2, <1>3, <1>4, <1>5, <1>6, <1>7, <1>8, <1>9, <1>10, <1>11 DEF Next

\* Every step leaves the disk's entries as they are.
OnDiskStays ==
    \A f \in Files : \A p \in Taken(f, file[f].stable) :
        EntryAt(file'[f].stable, p) = EntryAt(file[f].stable, p)

LEMMA SameStable ==
  ASSUME \A f \in Files : file'[f].stable = file[f].stable
  PROVE  OnDiskStays
BY DEF OnDiskStays

\* The step of one file that leaves its disk alone.
LEMMA OneFileSameStable ==
  ASSUME DOMAIN file = Files, NEW g \in Files, NEW fr, fr.stable = file[g].stable,
         file' = [file EXCEPT ![g] = fr]
  PROVE  OnDiskStays
<1>1. \A f \in Files : file'[f].stable = file[f].stable
  OBVIOUS
<1> QED
  BY <1>1, SameStable

LEMMA AppendSameStable ==
  ASSUME IInv, running, NEW g \in Files, NEW e \in Entries(g),
         NeedsBlock(g) => file[g].allocated < MaxBlocks,
         NEW fr \in Appended(g, e) \union NotAppended(g),
         file' = [file EXCEPT ![g] = fr]
  PROVE  OnDiskStays
<1>1. FileInv(g, file[g], TRUE) /\ DOMAIN file = Files
  BY DEF IInv, FilesInv
<1>2. fr.stable = file[g].stable
  BY <1>1, AppendedKeeps, NotAppendedKeeps DEF OneMore, SamePages
<1> QED
  BY <1>1, <1>2, OneFileSameStable

LEMMA NextOnDiskStays ==
  ASSUME IInv, [Next]_vars
  PROVE  OnDiskStays
<1>1. /\ DOMAIN file = Files /\ \A f \in Files : FileInv(f, file[f], running)
      /\ \A f \in Files : FileType(f, file[f]) /\ StableOnPages(f, file[f])
  BY DEF IInv, FilesInv, FileInv
<1>2. CASE UNCHANGED file
  BY <1>2, SameStable
<1>3. CASE Start
  <2>1. \A f \in Files : FileInv(f, file[f], FALSE) /\ file[f].allocated < MaxBlocks
    BY <1>3 DEF Start, IInv, FilesInv
  <2>2. \A f \in Files : file'[f] = Loaded(f)
    BY <1>3 DEF Start
  <2> QED
    BY <2>1, <2>2, LoadedKeeps, SameStable DEF SamePages
<1>4. CASE StartFails
  <2>1. file' = [file EXCEPT !["tables"].allocated = @ + 1] /\ "tables" \in Files
    BY <1>4 DEF StartFails, Files
  <2>2. file' = [file EXCEPT !["tables"] = [file["tables"] EXCEPT !.allocated = @ + 1]]
    BY <2>1
  <2>3. [file["tables"] EXCEPT !.allocated = @ + 1].stable = file["tables"].stable
    BY <1>1, <2>1 DEF FileType, FileFields
  <2> QED
    BY <1>1, <2>1, <2>2, <2>3, OneFileSameStable
<1>5. ASSUME NEW n \in TableNames, CreateTable(n) PROVE OnDiskStays
  <2> DEFINE entry == [tableId |-> nextTableId, tableName |-> n]
  <2>1. /\ running /\ nextTableId <= MaxTables
        /\ NeedsBlock("tables") => file["tables"].allocated < MaxBlocks
        /\ \/ UNCHANGED file
           \/ \E fr \in Appended("tables", entry) \union NotAppended("tables") :
                file' = [file EXCEPT !["tables"] = fr]
    BY <1>5 DEF CreateTable
  <2>2. entry \in Entries("tables") /\ "tables" \in Files
    BY <2>1, DictAssumption DEF Entries, TableEntry, TableIds, IInv, TablesInv, Files
  <2> HIDE DEF entry
  <2> QED
    BY <1>2, <2>1, <2>2, AppendSameStable
<1>6. ASSUME NEW info \in IndexInfo, running, Save(info),
             NeedsBlock("indexes") => file["indexes"].allocated < MaxBlocks
      PROVE  OnDiskStays
  <2>1. info \in Entries("indexes") /\ "indexes" \in Files
    BY DEF Entries, Files
  <2>2. PICK fr \in Appended("indexes", info) \union NotAppended("indexes") :
          file' = [file EXCEPT !["indexes"] = fr]
    BY <1>6 DEF Save
  <2> QED
    BY <1>6, <2>1, <2>2, AppendSameStable
<1>7. ASSUME NEW n \in IndexNames, NEW t \in TableNames, CreateIndexMetadata(n, t)
      PROVE  OnDiskStays
  <2> DEFINE info == [indexId |-> nextIndexId, indexName |-> n,
                      tableId |-> tables[FindTable(t)].tableId, rootPage |-> NoPage]
  <2>1. /\ running /\ HasTable(t) /\ nextIndexId <= MaxIndexes
        /\ NeedsBlock("indexes") => file["indexes"].allocated < MaxBlocks
        /\ UNCHANGED file \/ Save(info)
    BY <1>7 DEF CreateIndexMetadata
  <2>2. info \in IndexInfo
    <3>1. tables[FindTable(t)] \in TableInfo
      BY <2>1, FindTableFinds DEF IInv, TablesInv
    <3>2. nextIndexId \in IndexIds
      BY <2>1, DictAssumption DEF IndexIds, IInv, IndexesInv
    <3> QED
      BY <3>1, <3>2 DEF IndexInfo, TableInfo
  <2> HIDE DEF info
  <2> QED
    BY <1>2, <1>6, <2>1, <2>2
<1>8. ASSUME NEW idx \in indexes, NEW root \in RootPages, UpdateIndexInfo(idx, root)
      PROVE  OnDiskStays
  <2> DEFINE info == [idx EXCEPT !.rootPage = root]
  <2>1. /\ running /\ Save(info)
        /\ NeedsBlock("indexes") => file["indexes"].allocated < MaxBlocks
    BY <1>8 DEF UpdateIndexInfo
  <2>2. idx \in IndexInfo
    BY DEF IInv, IndexesInv
  <2>3. info \in IndexInfo
    BY <2>2 DEF IndexInfo
  <2> HIDE DEF info
  <2> QED
    BY <1>6, <2>1, <2>3
<1>9. ASSUME NEW g \in Files, NEW b \in Blocks, WritePage(g, b) PROVE OnDiskStays
  <2>1. file' = [file EXCEPT ![g].stable[b] = file[g].view[b]]
    BY <1>9 DEF WritePage
  <2>2. file' = [file EXCEPT ![g] = [file[g] EXCEPT !.stable[b] = file[g].view[b]]]
    BY <2>1
  <2>3. [file[g] EXCEPT !.stable[b] = file[g].view[b]].stable
          = [file[g].stable EXCEPT ![b] = file[g].view[b]]
    BY <1>1 DEF FileType, FileFields
  <2>4. /\ file'[g].stable = [file[g].stable EXCEPT ![b] = file[g].view[b]]
        /\ \A f \in Files \ {g} : file'[f] = file[f]
    BY <1>1, <2>2, <2>3
  <2>5. ASSUME NEW p \in Taken(g, file[g].stable)
        PROVE  EntryAt(file'[g].stable, p) = EntryAt(file[g].stable, p)
    <3>1. file[g].stable \in [Blocks -> Page(g)] /\ p[1] \in Blocks
      BY <1>1 DEF FileType, Taken, Places
    <3>2. EntryAt(file[g].view, p) = EntryAt(file[g].stable, p)
      BY <1>1 DEF StableOnPages
    <3> QED
      BY <2>4, <3>1, <3>2 DEF EntryAt
  <2> QED
    BY <2>4, <2>5 DEF OnDiskStays
<1>10. ASSUME NEW g \in Files, WritePageFails(g) PROVE OnDiskStays
  <2>1. file' = [file EXCEPT ![g].broken = TRUE]
    BY <1>10 DEF WritePageFails
  <2>2. file' = [file EXCEPT ![g] = [file[g] EXCEPT !.broken = TRUE]]
    BY <2>1
  <2>3. [file[g] EXCEPT !.broken = TRUE].stable = file[g].stable
    BY <1>1 DEF FileType, FileFields
  <2> QED
    BY <1>1, <2>2, <2>3, OneFileSameStable
<1>11. CASE Exit
  <2>1. \A f \in Files :
          file'[f] = [file[f] EXCEPT !.stable = file[f].view, !.broken = FALSE, !.seen = {},
                                     !.current = NoBlock, !.offset = 0]
    BY <1>11 DEF Exit
  <2>2. \A f \in Files : file'[f].stable = file[f].view
    BY <1>1, <2>1 DEF FileType, FileFields
  <2> QED
    BY <1>1, <2>2 DEF OnDiskStays, StableOnPages
<1>12. ASSUME NEW forgotten \in SUBSET Files, Crash(forgotten) PROVE OnDiskStays
  <2>1. \A f \in Files :
          file'[f] = [file[f] EXCEPT
                        !.allocated = IF f \in forgotten THEN @ - 1 ELSE @,
                        !.view = file[f].stable, !.broken = FALSE, !.seen = {},
                        !.current = NoBlock, !.offset = 0]
    BY <1>12 DEF Crash
  <2>2. ASSUME NEW f \in Files PROVE file'[f].stable = file[f].stable
    <3> DEFINE n == IF f \in forgotten THEN file[f].allocated - 1 ELSE file[f].allocated
    <3>1. file'[f] = [file[f] EXCEPT !.allocated = n, !.view = file[f].stable,
                                     !.broken = FALSE, !.seen = {},
                                     !.current = NoBlock, !.offset = 0]
      BY <2>1
    <3> HIDE DEF n
    <3> QED
      BY <1>1, <3>1 DEF FileType, FileFields
  <2> QED
    BY <2>2, SameStable
<1>13. ASSUME NEW n, DropTable(n) PROVE OnDiskStays
  BY <1>2, <1>13 DEF DropTable
<1>14. ASSUME NEW i, NEW p, UpdateTableInfo(i, p) PROVE OnDiskStays
  BY <1>2, <1>14 DEF UpdateTableInfo
<1> QED
  BY <1>2, <1>3, <1>4, <1>5, <1>7, <1>8, <1>9, <1>10, <1>11, <1>12, <1>13, <1>14 DEF Next, vars

\* The inductive invariant.
THEOREM DictInvariant == Spec => []IInv
BY InitInv, NextInv, PTL DEF Spec

\* What the dictionary keeps is well formed, whatever fails (TypeOK).
THEOREM DictTypes == Spec => []TypeOK
<1>1. IInv => TypeOK
  BY InvImplies
<1> QED
  BY <1>1, DictInvariant, PTL

\* Two entries of tables have two numbers, on the pages, in memory and among the tables
\* reported that no crash has undone, and so have two indexes; the numbers given next
\* are above them all, though numbers are taken back and counted anew at each start
\* (data_dict.cpp:42, 138, 157, 302).  The number of a table that a crash undid may be
\* given again.
THEOREM DictNumbersAreNew == Spec => []NumbersAreNew
<1>1. IInv => NumbersAreNew
  BY InvImplies
<1> QED
  BY <1>1, DictInvariant, PTL

\* A table that the process knows has its entry on a page (data_dict.cpp:196-201).
THEOREM DictTablesOnPages == Spec => []TablesOnPages
<1>1. IInv => TablesOnPages
  BY InvImplies
<1> QED
  BY <1>1, DictInvariant, PTL

\* An entry, on a page or on the disk, is of a table whose creation was reported
\* (data_dict.cpp:149-162).
THEOREM DictNoPhantoms == Spec => []NoPhantoms
<1>1. IInv => NoPhantoms
  BY InvImplies
<1> QED
  BY <1>1, DictInvariant, PTL

\* The next process loads the version of an index that this one works with, unless it
\* could not be appended (data_dict.cpp:85, 348, 372).
THEOREM DictNewestIndexLoads == Spec => []NewestIndexLoads
<1>1. IInv => NewestIndexLoads
  BY InvImplies
<1> QED
  BY <1>1, DictInvariant, PTL

\* No step changes or loses an entry that is on the disk (data_dict.cpp:51, 62, 101, 195).
THEOREM DictEntriesStay == Spec => EntriesStay
<1>1. IInv /\ [Next]_vars => [OnDiskStays]_vars
  BY NextOnDiskStays
<1> QED
  BY <1>1, DictInvariant, PTL DEF Spec, EntriesStay, OnDiskStays
=============================================================================
