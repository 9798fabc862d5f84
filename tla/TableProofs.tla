----------------------------- MODULE TableProofs -----------------------------
(***************************************************************************)
(* What the table manager keeps on a page whose slots are what the code    *)
(* takes them for, for any page size, free list, lengths and errors:       *)
(* records are read back as they were inserted, free slots are free.       *)
(* Beside it: without a deletion the table stays inside its pages, and     *)
(* every refusal has one of two reasons.  At the end of the module, types: *)
(* on pages whose slots are what the code takes them for the header stays  *)
(* in its bounds; on the others freeOffset may leave the page or nothing   *)
(* be known of it.  vacuum's loop is typed by induction over its turns.    *)
(***************************************************************************)
EXTENDS TableManager, WellFoundedInduction, SequenceTheorems, TLAPS

-----------------------------------------------------------------------------
\* A page with the records on it.

Page(o, n, d, f, c) ==
    [freeOffset |-> o, recordCount |-> n, deletedCount |-> d, freeList |-> f, cell |-> c]

IsPage(pg) ==
    /\ pg = Page(pg.freeOffset, pg.recordCount, pg.deletedCount, pg.freeList, pg.cell)
    /\ pg.cell = [x \in Cells |-> pg.cell[x]]
    /\ pg.freeOffset \in 0 .. PageSize
    /\ pg.recordCount \in 0 .. pg.freeOffset
    /\ pg.deletedCount \in Nat
    /\ pg.freeList \in Seq(Cells)

Slots == [kind : {"slot"}, offset : Int, length : Int, isDeleted : BOOLEAN]

\* Before the first deletion the directory is what its header counts.
Directory(pg) ==
    pg.deletedCount = 0 =>
        /\ pg.freeList = <<>>
        /\ \A x \in 0 .. pg.recordCount - 1 :
            /\ pg.cell[x] \in Slots
            /\ ~pg.cell[x].isDeleted
            /\ pg.cell[x].offset >= 0 /\ pg.cell[x].length >= 0
            /\ pg.cell[x].offset + pg.cell[x].length <= pg.freeOffset

\* An entry of the free list is a deleted slot, of no record and of no other entry.
Free(pg, on) ==
    /\ \A i \in DOMAIN pg.freeList :
        /\ pg.freeList[i] < pg.recordCount
        /\ pg.cell[pg.freeList[i]] \in Slots
        /\ pg.cell[pg.freeList[i]].isDeleted
        /\ \A q \in on : q.slot # pg.freeList[i]
    /\ \A i, j \in DOMAIN pg.freeList : pg.freeList[i] = pg.freeList[j] => i = j

\* A record has a slot of the directory, and its data lies before `freeOffset'.
Stored(pg, q) ==
    LET c == pg.cell[q.slot]
    IN  /\ q.slot \in 0 .. pg.recordCount - 1
        /\ q.record \in Records
        /\ c \in Slots
        /\ ~c.isDeleted
        /\ c.length = q.record.length
        /\ c.offset >= 0
        /\ c.offset + c.length <= pg.freeOffset
        /\ \A k \in 0 .. c.length - 1 : pg.cell[c.offset + k] = Data(q.record, k)

GoodPage(pg, on) ==
    /\ IsPage(pg)
    /\ Directory(pg)
    /\ Free(pg, on)
    /\ \A q \in on : Stored(pg, q)

-----------------------------------------------------------------------------
\* What the operations on a page return.

LEMMA PageFields ==
  ASSUME NEW o, NEW n, NEW d, NEW f, NEW c
  PROVE  /\ Page(o, n, d, f, c).freeOffset = o
         /\ Page(o, n, d, f, c).recordCount = n
         /\ Page(o, n, d, f, c).deletedCount = d
         /\ Page(o, n, d, f, c).freeList = f
         /\ Page(o, n, d, f, c).cell = c
BY DEF Page

LEMMA SetOffset ==
  ASSUME NEW o, NEW n, NEW d, NEW f, NEW c, NEW o2
  PROVE  [Page(o, n, d, f, c) EXCEPT !.freeOffset = o2] = Page(o2, n, d, f, c)
BY DEF Page

LEMMA SetCount ==
  ASSUME NEW o, NEW n, NEW d, NEW f, NEW c, NEW n2
  PROVE  [Page(o, n, d, f, c) EXCEPT !.recordCount = n2] = Page(o, n2, d, f, c)
BY DEF Page

LEMMA SetDeleted ==
  ASSUME NEW o, NEW n, NEW d, NEW f, NEW c, NEW d2
  PROVE  [Page(o, n, d, f, c) EXCEPT !.deletedCount = d2] = Page(o, n, d2, f, c)
BY DEF Page

LEMMA SetList ==
  ASSUME NEW o, NEW n, NEW d, NEW f, NEW c, NEW f2
  PROVE  [Page(o, n, d, f, c) EXCEPT !.freeList = f2] = Page(o, n, d, f2, c)
BY DEF Page

LEMMA SetCells ==
  ASSUME NEW o, NEW n, NEW d, NEW f, NEW c, NEW c2
  PROVE  [Page(o, n, d, f, c) EXCEPT !.cell = c2] = Page(o, n, d, f, c2)
BY DEF Page

\* The cells after Put and MoveUp.
PutCells(pg, s, r) ==
    [x \in Cells |->
        IF x \in pg.freeOffset .. pg.freeOffset + r.length - 1 THEN Data(r, x - pg.freeOffset)
        ELSE IF x = s THEN Slot(pg.freeOffset, r.length, FALSE)
        ELSE pg.cell[x]]

MoveUpCells(pg) ==
    [x \in Cells |->
        IF x < TotalSlots(pg)
        THEN IF pg.cell[x].isDeleted THEN pg.cell[x] ELSE Raised(pg.cell[x])
        ELSE IF x \in TotalSlots(pg) + 1 .. pg.freeOffset THEN pg.cell[x - 1]
        ELSE pg.cell[x]]

LEMMA PutFields ==
  ASSUME NEW pg, NEW s, NEW r,
         pg = Page(pg.freeOffset, pg.recordCount, pg.deletedCount, pg.freeList, pg.cell)
  PROVE  Put(pg, s, r) =
            Page(pg.freeOffset + r.length, pg.recordCount + 1, pg.deletedCount, pg.freeList,
                 PutCells(pg, s, r))
<1> DEFINE o == pg.freeOffset + r.length
           n == pg.recordCount + 1
           d == pg.deletedCount
           f == pg.freeList
           c == PutCells(pg, s, r)
<1>1. Put(pg, s, r) = [pg EXCEPT !.freeOffset = o, !.recordCount = n, !.cell = c]
  BY DEF Put, PutCells
<1> HIDE DEF c, o, n
<1>2. [pg EXCEPT !.freeOffset = o, !.recordCount = n, !.cell = c]
        = [[[pg EXCEPT !.freeOffset = o] EXCEPT !.recordCount = n] EXCEPT !.cell = c]
  OBVIOUS
<1>3. [pg EXCEPT !.freeOffset = o] = Page(o, pg.recordCount, d, f, pg.cell)
  BY SetOffset
<1>4. [Page(o, pg.recordCount, d, f, pg.cell) EXCEPT !.recordCount = n]
        = Page(o, n, d, f, pg.cell)
  BY SetCount
<1>5. [Page(o, n, d, f, pg.cell) EXCEPT !.cell = c] = Page(o, n, d, f, c)
  BY SetCells
<1>6. Put(pg, s, r) = Page(o, n, d, f, c)
  BY <1>1, <1>2, <1>3, <1>4, <1>5
<1> QED
  BY <1>6 DEF c, o, n

LEMMA MoveUpFields ==
  ASSUME NEW pg,
         pg = Page(pg.freeOffset, pg.recordCount, pg.deletedCount, pg.freeList, pg.cell)
  PROVE  MoveUp(pg) =
            Page(pg.freeOffset + 1, pg.recordCount, pg.deletedCount, pg.freeList,
                 MoveUpCells(pg))
<1> DEFINE o == pg.freeOffset + 1
           n == pg.recordCount
           d == pg.deletedCount
           f == pg.freeList
           c == MoveUpCells(pg)
<1>1. MoveUp(pg) = [pg EXCEPT !.freeOffset = o, !.cell = c]
  BY DEF MoveUp, MoveUpCells
<1> HIDE DEF c, o
<1>2. [pg EXCEPT !.freeOffset = o, !.cell = c] = [[pg EXCEPT !.freeOffset = o] EXCEPT !.cell = c]
  OBVIOUS
<1>3. [pg EXCEPT !.freeOffset = o] = Page(o, n, d, f, pg.cell)
  BY SetOffset
<1>4. [Page(o, n, d, f, pg.cell) EXCEPT !.cell = c] = Page(o, n, d, f, c)
  BY SetCells
<1>5. MoveUp(pg) = Page(o, n, d, f, c)
  BY <1>1, <1>2, <1>3, <1>4
<1> QED
  BY <1>5 DEF c, o

LEMMA DeletedFields ==
  ASSUME NEW pg, NEW s \in Cells,
         pg = Page(pg.freeOffset, pg.recordCount, pg.deletedCount, pg.freeList, pg.cell),
         pg.cell = [x \in Cells |-> pg.cell[x]]
  PROVE  Deleted(pg, s) =
            Page(pg.freeOffset, pg.recordCount, pg.deletedCount + 1,
                 IF Len(pg.freeList) < MaxFree THEN Append(pg.freeList, s) ELSE pg.freeList,
                 [x \in Cells |->
                    IF x = s THEN Marked(pg.cell[s]) ELSE pg.cell[x]])
<1> DEFINE o == pg.freeOffset
           n == pg.recordCount
           d == pg.deletedCount + 1
           f == IF Len(pg.freeList) < MaxFree THEN Append(pg.freeList, s) ELSE pg.freeList
           z == Marked(pg.cell[s])
           c == [x \in Cells |-> IF x = s THEN z ELSE pg.cell[x]]
           c2 == [pg.cell EXCEPT ![s] = z]
<1>1. Deleted(pg, s) = [pg EXCEPT !.cell[s] = z, !.deletedCount = d, !.freeList = f]
  BY DEF Deleted
<1> HIDE DEF z, d, f
<1>2. [pg EXCEPT !.cell[s] = z, !.deletedCount = d, !.freeList = f]
        = [[[pg EXCEPT !.cell = c2] EXCEPT !.deletedCount = d] EXCEPT !.freeList = f]
  OBVIOUS
<1>3. c2 = c
  OBVIOUS
<1> HIDE DEF c, c2
<1>4. [pg EXCEPT !.cell = c2] = Page(o, n, pg.deletedCount, pg.freeList, c2)
  BY SetCells
<1>5. [Page(o, n, pg.deletedCount, pg.freeList, c2) EXCEPT !.deletedCount = d]
        = Page(o, n, d, pg.freeList, c2)
  BY SetDeleted
<1>6. [Page(o, n, d, pg.freeList, c2) EXCEPT !.freeList = f] = Page(o, n, d, f, c2)
  BY SetList
<1>7. Deleted(pg, s) = Page(o, n, d, f, c)
  BY <1>1, <1>2, <1>3, <1>4, <1>5, <1>6
<1> QED
  BY <1>7 DEF c, d, f, z

LEMMA SlotType ==
  ASSUME NEW o \in Int, NEW l \in Int, NEW d \in BOOLEAN
  PROVE  /\ Slot(o, l, d) \in Slots
         /\ Slot(o, l, d).offset = o
         /\ Slot(o, l, d).length = l
         /\ Slot(o, l, d).isDeleted = d
BY DEF Slot, Slots

LEMMA LiveSlot ==
  ASSUME NEW o \in Int, NEW l \in Int
  PROVE  /\ Slot(o, l, FALSE) \in Slots
         /\ Slot(o, l, FALSE).offset = o
         /\ Slot(o, l, FALSE).length = l
         /\ ~Slot(o, l, FALSE).isDeleted
BY DEF Slot, Slots

LEMMA SetSlotOffset ==
  ASSUME NEW o, NEW l, NEW d, NEW o2
  PROVE  [Slot(o, l, d) EXCEPT !.offset = o2] = Slot(o2, l, d)
BY DEF Slot

LEMMA SetSlotMark ==
  ASSUME NEW o, NEW l, NEW d, NEW d2
  PROVE  [Slot(o, l, d) EXCEPT !.isDeleted = d2] = Slot(o, l, d2)
BY DEF Slot

LEMMA SlotIsSlot ==
  ASSUME NEW c \in Slots
  PROVE  /\ IsSlot(c)
         /\ Raised(c) = Slot(c.offset + 1, c.length, c.isDeleted)
         /\ Marked(c) = Slot(c.offset, c.length, TRUE)
<1> DEFINE o == c.offset
           l == c.length
           d == c.isDeleted
<1>1. c = Slot(o, l, d)
  BY DEF Slots, Slot
<1>2. IsSlot(c)
  BY DEF Slots, IsSlot
<1>3. Raised(c) = [c EXCEPT !.offset = o + 1]
  BY <1>2 DEF Raised
<1>4. Marked(c) = [c EXCEPT !.isDeleted = TRUE]
  BY <1>2 DEF Marked
<1> HIDE DEF o, l, d
<1>5. [c EXCEPT !.offset = o + 1] = Slot(o + 1, l, d)
  BY <1>1, SetSlotOffset
<1>6. [c EXCEPT !.isDeleted = TRUE] = Slot(o, l, TRUE)
  <2> DEFINE y == TRUE
  <2> HIDE DEF y
  <2>1. [c EXCEPT !.isDeleted = y] = Slot(o, l, y)
    BY <1>1, SetSlotMark
  <2> QED
    BY <2>1 DEF y
<1>7. Raised(c) = Slot(c.offset + 1, c.length, c.isDeleted)
  BY <1>3, <1>5, Zenon DEF o, l, d
<1>8. Marked(c) = Slot(c.offset, c.length, TRUE)
  BY <1>4, <1>6, Zenon DEF o, l, d
<1> QED
  BY <1>2, <1>7, <1>8, Zenon

LEMMA DataIsNoSlot == \A r, k : Data(r, k) \notin Slots
BY DEF Data, Slots

LEMMA RecordLength == \A r \in Records : r.length \in Nat \ {0}
BY TableAssumption DEF Records

LEMMA Removed ==
  ASSUME NEW S, NEW f \in Seq(S), NEW i \in 1 .. Len(f)
  PROVE  /\ RemoveAt(f, i) \in Seq(S)
         /\ Len(RemoveAt(f, i)) = Len(f) - 1
         /\ \A j \in 1 .. Len(f) - 1 :
                RemoveAt(f, i)[j] = IF j < i THEN f[j] ELSE f[j + 1]
<1> DEFINE a == SubSeq(f, 1, i - 1)
           b == SubSeq(f, i + 1, Len(f))
<1>1. a \in Seq(S) /\ Len(a) = i - 1 /\ \A j \in 1 .. i - 1 : a[j] = f[j]
  OBVIOUS
<1>2. b \in Seq(S) /\ Len(b) = Len(f) - i /\ \A j \in 1 .. Len(f) - i : b[j] = f[i + j]
  OBVIOUS
<1>3. RemoveAt(f, i) = a \o b
  BY DEF RemoveAt
<1>4. Len(f) \in Nat
  OBVIOUS
<1> HIDE DEF a, b
<1>5. a \o b \in Seq(S) /\ Len(a \o b) = Len(a) + Len(b)
  BY <1>1, <1>2, ConcatProperties
<1>6. \A j \in 1 .. Len(a) + Len(b) :
        (a \o b)[j] = IF j <= Len(a) THEN a[j] ELSE b[j - Len(a)]
  BY <1>1, <1>2, ConcatProperties
<1>7. ASSUME NEW j \in 1 .. Len(f) - 1
      PROVE  (a \o b)[j] = IF j < i THEN f[j] ELSE f[j + 1]
  <2>1. CASE j < i
    <3>1. j \in 1 .. Len(a) + Len(b) /\ j <= Len(a) /\ j \in 1 .. i - 1
      BY <1>1, <1>2, <1>4, <2>1
    <3> QED
      BY <1>1, <1>6, <2>1, <3>1
  <2>2. CASE j >= i
    <3>1. j \in 1 .. Len(a) + Len(b) /\ ~(j <= Len(a)) /\ ~(j < i)
      BY <1>1, <1>2, <1>4, <2>2
    <3>2. j - Len(a) \in 1 .. Len(f) - i /\ i + (j - Len(a)) = j + 1
      BY <1>1, <1>4, <2>2
    <3>3. (a \o b)[j] = IF j <= Len(a) THEN a[j] ELSE b[j - Len(a)]
      BY <1>6, <3>1
    <3>4. b[j - Len(a)] = f[i + (j - Len(a))]
      BY <1>2, <3>2
    <3>5. f[i + (j - Len(a))] = f[j + 1]
      BY <3>2
    <3>6. (a \o b)[j] = f[j + 1]
      BY <3>1, <3>3, <3>4, <3>5
    <3> QED
      BY <3>1, <3>6
  <2>3. j < i \/ j >= i
    BY <1>4
  <2> QED
    BY <2>1, <2>2, <2>3
<1>8. Len(a) + Len(b) = Len(f) - 1
  BY <1>1, <1>2, <1>4
<1> QED
  BY <1>3, <1>5, <1>7, <1>8

LEMMA Appended ==
  ASSUME NEW S, NEW f \in Seq(S), NEW e \in S
  PROVE  /\ Append(f, e) \in Seq(S)
         /\ DOMAIN Append(f, e) = DOMAIN f \union {Len(f) + 1}
         /\ Append(f, e)[Len(f) + 1] = e
         /\ \A j \in DOMAIN f : Append(f, e)[j] = f[j]
OBVIOUS

\* The least of a set of numbers.
LEMMA Least ==
  ASSUME NEW n \in Nat, NEW S \in SUBSET (1 .. n), S # {}
  PROVE  \E x \in S : \A y \in S : x <= y
<1> DEFINE R == OpToRel(<, Nat)
<1>1. \A j, k \in Nat : j < k => <<j, k>> \in R
  BY DEF OpToRel
<1>2. IsWellFoundedOn(R, Nat)
  BY NatLessThanWellFounded
<1> HIDE DEF R
<1>3. S \subseteq Nat
  OBVIOUS
<1>4. PICK x \in S : \A y \in S : ~ (<<y, x>> \in R)
  BY <1>2, <1>3, WFMin
<1>5. \A y \in S : ~ (y < x)
  BY <1>1, <1>3, <1>4
<1> QED
  BY <1>3, <1>5

\* An entry that may be reused stands in the free list.
LEMMA ReusedEntry ==
  ASSUME NEW pg, pg.freeList \in Seq(Cells), NEW l, NEW i \in FirstReusable(pg, l)
  PROVE  i \in 1 .. Len(pg.freeList) /\ pg.freeList # <<>>
<1>1. i \in 1 .. Len(pg.freeList)
  BY DEF FirstReusable, Reusable
<1> QED
  BY <1>1

-----------------------------------------------------------------------------
\* A deletion: the slot of a record is marked.

LEMMA DeleteKeepsPage ==
  ASSUME NEW pg, NEW on, GoodPage(pg, on),
         NEW s \in Cells, \E q \in on : q.slot = s
  PROVE  GoodPage(Deleted(pg, s), {q \in on : q.slot # s})
<1> DEFINE z  == Slot(pg.cell[s].offset, pg.cell[s].length, TRUE)
           f  == IF Len(pg.freeList) < MaxFree THEN Append(pg.freeList, s) ELSE pg.freeList
           c  == [x \in Cells |-> IF x = s THEN z ELSE pg.cell[x]]
           p2 == Deleted(pg, s)
           on2 == {q \in on : q.slot # s}
<1>1. PICK q0 \in on : q0.slot = s
  OBVIOUS
<1>2. /\ pg.cell[s] \in Slots
      /\ s \in 0 .. pg.recordCount - 1
  BY <1>1 DEF GoodPage, Stored
<1>3. Marked(pg.cell[s]) = z
  BY <1>2, SlotIsSlot
<1>4. z \in Slots /\ z.isDeleted = TRUE
  BY <1>2, SlotType DEF Slots
<1>5. p2 = Page(pg.freeOffset, pg.recordCount, pg.deletedCount + 1, f, c)
  BY <1>3, DeletedFields, ZenonT(30) DEF GoodPage, IsPage
<1>6. /\ p2.freeOffset = pg.freeOffset
      /\ p2.recordCount = pg.recordCount
      /\ p2.deletedCount = pg.deletedCount + 1
      /\ p2.freeList = f
      /\ p2.cell = c
  BY <1>5, PageFields
<1>7. /\ pg.freeList \in Seq(Cells)
      /\ pg.deletedCount \in Nat
      /\ pg.freeOffset \in 0 .. PageSize
      /\ pg.recordCount \in 0 .. pg.freeOffset
  BY DEF GoodPage, IsPage
<1>8. f \in Seq(Cells)
  BY <1>7, Appended
<1> HIDE DEF z, p2
<1>9. IsPage(p2)
  <2> HIDE DEF f
  <2> QED
    BY <1>5, <1>6, <1>7, <1>8 DEF IsPage
<1>10. Directory(p2)
  BY <1>6, <1>7 DEF Directory
<1>11. \A i \in DOMAIN f : \/ i \in DOMAIN pg.freeList /\ f[i] = pg.freeList[i]
                           \/ i = Len(pg.freeList) + 1 /\ f[i] = s
  BY <1>7, Appended
<1>12. Free(p2, on2)
  <2> HIDE DEF f
  <2>1. ASSUME NEW i \in DOMAIN f
        PROVE  /\ f[i] < pg.recordCount
               /\ c[f[i]] \in Slots
               /\ c[f[i]].isDeleted
               /\ \A q \in on2 : q.slot # f[i]
    <3>1. f[i] \in Cells
      BY <1>8
    <3>2. CASE f[i] = s
      BY <1>2, <1>4, <1>7, <3>1, <3>2
    <3>3. CASE f[i] # s
      <4>1. i \in DOMAIN pg.freeList /\ f[i] = pg.freeList[i] /\ c[f[i]] = pg.cell[f[i]]
        BY <1>11, <3>1, <3>3
      <4> QED
        BY <4>1 DEF GoodPage, Free
    <3> QED
      BY <3>2, <3>3
  <2>2. ASSUME NEW i \in DOMAIN f, NEW j \in DOMAIN f, f[i] = f[j]
        PROVE  i = j
    <3>1. \A k \in DOMAIN pg.freeList : pg.freeList[k] # s
      BY <1>1 DEF GoodPage, Free
    <3> QED
      BY <1>11, <2>2, <3>1 DEF GoodPage, Free
  <2> QED
    BY <1>6, <2>1, <2>2 DEF Free
<1>13. ASSUME NEW q \in on2
       PROVE  Stored(p2, q)
  <2>1. Stored(pg, q) /\ q.slot \in Cells /\ q.slot # s
    BY <1>7, TableAssumption DEF GoodPage, Stored, Cells
  <2>2. c[q.slot] = pg.cell[q.slot]
    BY <2>1
  <2>3. ASSUME NEW k \in 0 .. pg.cell[q.slot].length - 1
        PROVE  c[pg.cell[q.slot].offset + k] = Data(q.record, k)
    <3> DEFINE x == pg.cell[q.slot].offset + k
    <3> DEFINE o == pg.cell[q.slot].offset
               l == pg.cell[q.slot].length
    <3>0. o \in Int /\ l \in Int /\ o >= 0 /\ o + l <= PageSize
      BY <1>7, <2>1, TableAssumption DEF Stored, Slots
    <3>1. x \in Cells
      <4> HIDE DEF o, l
      <4>1. k \in 0 .. l - 1
        BY DEF l
      <4>2. o + k \in Cells
        BY <3>0, <4>1, TableAssumption DEF Cells
      <4> QED
        BY <4>2 DEF o
    <3>2. pg.cell[x] = Data(q.record, k)
      BY <2>1 DEF Stored
    <3>3. x # s
      BY <1>2, <3>2, DataIsNoSlot
    <3> HIDE DEF x
    <3>4. c[x] = Data(q.record, k)
      BY <3>1, <3>2, <3>3
    <3> QED
      BY <3>4 DEF x
  <2> QED
    BY <1>6, <2>1, <2>2, <2>3 DEF Stored
<1> QED
  BY <1>9, <1>10, <1>12, <1>13 DEF GoodPage, p2
-----------------------------------------------------------------------------
\* An insert: the slot and the record are written, once there is room for both.

LEMMA PutKeepsPage ==
  ASSUME NEW pg, NEW on, IsPage(pg), Free(pg, on), \A q \in on : Stored(pg, q),
         NEW p, NEW r \in Records, pg.freeOffset + r.length <= PageSize,
         NEW s \in 0 .. pg.recordCount, s < pg.freeOffset,
         \A i \in DOMAIN pg.freeList : pg.freeList[i] # s,
         \A q \in on : q.slot # s,
         \A q \in on : \A k \in 0 .. pg.cell[q.slot].length - 1 :
            pg.cell[q.slot].offset + k # s,
         pg.deletedCount = 0 =>
            /\ pg.freeList = <<>>
            /\ \A x \in 0 .. pg.recordCount : x # s =>
                /\ x < pg.freeOffset
                /\ pg.cell[x] \in Slots
                /\ ~pg.cell[x].isDeleted
                /\ pg.cell[x].offset >= 0 /\ pg.cell[x].length >= 0
                /\ pg.cell[x].offset + pg.cell[x].length <= pg.freeOffset
  PROVE  GoodPage(Put(pg, s, r), on \union {[page |-> p, slot |-> s, record |-> r]})
<1> DEFINE o == pg.freeOffset
           z == Slot(o, r.length, FALSE)
           c == PutCells(pg, s, r)
           p2 == Put(pg, s, r)
           new == [page |-> p, slot |-> s, record |-> r]
<1>0. pg = Page(pg.freeOffset, pg.recordCount, pg.deletedCount, pg.freeList, pg.cell)
  BY DEF IsPage
<1>1. p2 = Page(o + r.length, pg.recordCount + 1, pg.deletedCount, pg.freeList, c)
  BY <1>0, PutFields
<1>2. /\ p2.freeOffset = o + r.length
      /\ p2.recordCount = pg.recordCount + 1
      /\ p2.deletedCount = pg.deletedCount
      /\ p2.freeList = pg.freeList
      /\ p2.cell = c
  BY <1>1, PageFields
<1>3. /\ pg.freeList \in Seq(Cells)
      /\ pg.deletedCount \in Nat
      /\ o \in 0 .. PageSize
      /\ pg.recordCount \in 0 .. o
      /\ r.length \in Nat \ {0}
      /\ o + r.length \in 0 .. PageSize
      /\ PageSize \in Nat
      /\ s \in Cells
  BY RecordLength, TableAssumption DEF IsPage, Cells
<1>4. z \in Slots /\ ~z.isDeleted /\ z.offset = o /\ z.length = r.length
  <2>1. o \in Int /\ r.length \in Int
    BY <1>3
  <2> QED
    BY <2>1, LiveSlot
<1>5. c[s] = z
  <2>1. s \in Cells /\ s \notin o .. o + r.length - 1
    BY <1>3
  <2> QED
    BY <2>1 DEF PutCells
<1>6. \A x \in Cells : x < o /\ x # s => c[x] = pg.cell[x]
  BY <1>3 DEF PutCells
<1>7. \A k \in 0 .. r.length - 1 : c[o + k] = Data(r, k)
  <2> SUFFICES ASSUME NEW k \in 0 .. r.length - 1 PROVE c[o + k] = Data(r, k)
    OBVIOUS
  <2>1. o + k \in Cells /\ o + k \in o .. o + r.length - 1 /\ (o + k) - o = k
    <3>1. /\ o \in Int /\ o >= 0 /\ PageSize \in Int
          /\ r.length \in Int /\ o + r.length <= PageSize
      BY <1>3
    <3> DEFINE l == r.length
    <3>2. l = r.length
      OBVIOUS
    <3> HIDE DEF l
    <3>3. k \in Int /\ k >= 0 /\ k < l
      BY <3>1, <3>2
    <3> QED
      BY <3>1, <3>2, <3>3 DEF Cells
  <2> QED
    BY <2>1 DEF PutCells
<1>8. c = [x \in Cells |-> c[x]]
  BY DEF PutCells
<1> HIDE DEF z, c, p2
<1>9. IsPage(p2)
  BY <1>1, <1>2, <1>3, <1>8 DEF IsPage
<1>10. Directory(p2)
  <2> SUFFICES ASSUME pg.deletedCount = 0, NEW x \in 0 .. pg.recordCount
               PROVE  /\ c[x] \in Slots /\ ~c[x].isDeleted
                      /\ c[x].offset >= 0 /\ c[x].length >= 0
                      /\ c[x].offset + c[x].length <= o + r.length
    BY <1>2, <1>3 DEF Directory
  <2>1. CASE x = s
    BY <1>3, <1>4, <1>5, <2>1
  <2>2. CASE x # s
    <3>1. /\ pg.cell[x] \in Slots /\ ~pg.cell[x].isDeleted /\ x < o
          /\ pg.cell[x].offset >= 0 /\ pg.cell[x].length >= 0
          /\ pg.cell[x].offset + pg.cell[x].length <= o
      BY <2>2
    <3>2. x \in Cells
      BY <1>3, <3>1 DEF Cells
    <3> QED
      BY <1>3, <1>6, <2>2, <3>1, <3>2 DEF Slots
  <2> QED
    BY <2>1, <2>2
<1>11. Free(p2, on \union {new})
  <2>1. ASSUME NEW i \in DOMAIN pg.freeList
        PROVE  /\ pg.freeList[i] < pg.recordCount + 1
               /\ c[pg.freeList[i]] \in Slots
               /\ c[pg.freeList[i]].isDeleted
               /\ \A q \in on \union {new} : q.slot # pg.freeList[i]
    <3>1. /\ pg.freeList[i] < pg.recordCount
          /\ pg.freeList[i] \in Cells
          /\ pg.freeList[i] # s
          /\ \A q \in on : q.slot # pg.freeList[i]
      BY <1>3 DEF Free
    <3>2. pg.freeList[i] < o /\ pg.freeList[i] \in Int
      BY <1>3, <3>1 DEF Cells
    <3>3. c[pg.freeList[i]] = pg.cell[pg.freeList[i]]
      BY <1>6, <3>1, <3>2
    <3> QED
      BY <1>3, <3>1, <3>2, <3>3 DEF Free
  <2> QED
    BY <1>2, <2>1 DEF Free
<1>12. ASSUME NEW q \in on
       PROVE  Stored(p2, q)
  <2>1. Stored(pg, q) /\ q.slot \in Cells /\ q.slot < o /\ q.slot # s
    BY <1>3, SMTT(30) DEF Stored, Cells
  <2>2. c[q.slot] = pg.cell[q.slot]
    BY <1>6, <2>1
  <2>3. ASSUME NEW k \in 0 .. pg.cell[q.slot].length - 1
        PROVE  c[pg.cell[q.slot].offset + k] = Data(q.record, k)
    <3> DEFINE a == pg.cell[q.slot].offset
               l == pg.cell[q.slot].length
    <3>1. /\ a \in Int /\ l \in Int /\ a >= 0 /\ a + l <= o
          /\ k \in 0 .. l - 1
          /\ a + k # s
          /\ pg.cell[a + k] = Data(q.record, k)
      BY <2>1 DEF Stored, Slots
    <3> HIDE DEF a, l
    <3>2. a + k \in Cells /\ a + k < o
      BY <1>3, <3>1 DEF Cells
    <3>3. c[a + k] = Data(q.record, k)
      BY <1>6, <3>1, <3>2
    <3> QED
      BY <3>3 DEF a
  <2>4. pg.cell[q.slot].offset + pg.cell[q.slot].length <= o + r.length
    <3> DEFINE a == pg.cell[q.slot].offset
               l == pg.cell[q.slot].length
    <3>1. a \in Int /\ l \in Int /\ a + l <= o
      BY <2>1 DEF Stored, Slots
    <3>2. o \in Int /\ r.length \in Int /\ r.length >= 0
      BY <1>3
    <3> HIDE DEF a, l
    <3>3. a + l <= o + r.length
      BY <3>1, <3>2
    <3> QED
      BY <3>3 DEF a, l
  <2>5. q.slot \in 0 .. pg.recordCount
    BY <1>3, <2>1 DEF Stored
  <2> QED
    BY <1>2, <1>3, <2>1, <2>2, <2>3, <2>4, <2>5, SMTT(30) DEF Stored
<1>13. Stored(p2, new)
  BY <1>2, <1>3, <1>4, <1>5, <1>7 DEF Stored
<1> QED
  BY <1>9, <1>10, <1>11, <1>12, <1>13 DEF GoodPage, p2

LEMMA ReuseKeepsPage ==
  ASSUME NEW pg, NEW on, GoodPage(pg, on), NEW p, NEW r \in Records,
         HasRoom(pg, r.length), NEW i \in FirstReusable(pg, r.length)
  PROVE  GoodPage(Put([pg EXCEPT !.freeList = RemoveAt(@, i)], pg.freeList[i], r),
                  on \union {[page |-> p, slot |-> pg.freeList[i], record |-> r]})
<1> DEFINE s  == pg.freeList[i]
           f  == RemoveAt(pg.freeList, i)
           p1 == [pg EXCEPT !.freeList = f]
<1>1. /\ pg = Page(pg.freeOffset, pg.recordCount, pg.deletedCount, pg.freeList, pg.cell)
      /\ pg.freeList \in Seq(Cells)
      /\ Len(pg.freeList) \in Nat
      /\ DOMAIN pg.freeList = 1 .. Len(pg.freeList)
  BY DEF GoodPage, IsPage
<1>2. /\ pg.freeOffset \in 0 .. PageSize
      /\ pg.recordCount \in 0 .. pg.freeOffset
      /\ pg.deletedCount \in Nat
      /\ pg.cell = [x \in Cells |-> pg.cell[x]]
      /\ PageSize \in Nat
      /\ r.length \in Nat \ {0}
  BY RecordLength, TableAssumption DEF GoodPage, IsPage
<1>3. i \in 1 .. Len(pg.freeList)
  BY <1>1, ReusedEntry
<1>4. /\ s \in Cells
      /\ s < pg.recordCount
      /\ pg.cell[s] \in Slots
      /\ \A q \in on : q.slot # s
      /\ \A j \in DOMAIN pg.freeList : pg.freeList[j] = s => j = i
  BY <1>1, <1>3 DEF GoodPage, Free
<1>5. p1 = Page(pg.freeOffset, pg.recordCount, pg.deletedCount, f, pg.cell)
  BY <1>1, SetList
<1>6. /\ p1.freeOffset = pg.freeOffset
      /\ p1.recordCount = pg.recordCount
      /\ p1.deletedCount = pg.deletedCount
      /\ p1.freeList = f
      /\ p1.cell = pg.cell
  BY <1>5, PageFields
<1>7. /\ f \in Seq(Cells)
      /\ Len(f) = Len(pg.freeList) - 1
      /\ \A j \in 1 .. Len(pg.freeList) - 1 :
            f[j] = IF j < i THEN pg.freeList[j] ELSE pg.freeList[j + 1]
  BY <1>1, <1>3, Removed
<1>8. DOMAIN f = 1 .. Len(pg.freeList) - 1
  BY <1>7
<1> DEFINE old(j) == IF j < i THEN j ELSE j + 1
<1>9. ASSUME NEW j \in DOMAIN f
      PROVE  old(j) \in DOMAIN pg.freeList /\ old(j) # i /\ f[j] = pg.freeList[old(j)]
  BY <1>1, <1>3, <1>7, <1>8
<1>10. \A j, k \in DOMAIN f : old(j) = old(k) => j = k
  BY <1>1, <1>3, <1>8
<1> HIDE DEF p1, f, old
<1>11. IsPage(p1)
  BY <1>2, <1>5, <1>6, <1>7 DEF IsPage
<1>12. Free(p1, on)
  <2>1. \A j \in DOMAIN f : f[j] \in {pg.freeList[k] : k \in DOMAIN pg.freeList}
    BY <1>9
  <2>2. \A j, k \in DOMAIN f : f[j] = f[k] => j = k
    BY <1>9, <1>10 DEF GoodPage, Free
  <2> QED
    BY <1>6, <2>1, <2>2 DEF GoodPage, Free
<1>13. \A q \in on : Stored(p1, q)
  BY <1>6 DEF GoodPage, Stored
<1>14. \A j \in DOMAIN f : f[j] # s
  BY <1>4, <1>9
<1>15. p1.freeOffset + r.length <= PageSize
  BY <1>2, <1>6 DEF HasRoom
<1>16. s \in 0 .. p1.recordCount /\ s < p1.freeOffset
  BY <1>2, <1>4, <1>6 DEF Cells
<1>17. ASSUME NEW q \in on, NEW k \in 0 .. pg.cell[q.slot].length - 1
       PROVE  pg.cell[q.slot].offset + k # s
  <2>1. pg.cell[pg.cell[q.slot].offset + k] = Data(q.record, k)
    BY DEF GoodPage, Stored
  <2> QED
    BY <1>4, <2>1, DataIsNoSlot
<1>18. pg.deletedCount # 0
  <2>1. pg.freeList # <<>>
    BY <1>1, <1>3
  <2> QED
    BY <2>1 DEF GoodPage, Directory
<1> HIDE DEF s
<1>19. GoodPage(Put(p1, s, r), on \union {[page |-> p, slot |-> s, record |-> r]})
  BY <1>4, <1>6, <1>11, <1>12, <1>13, <1>14, <1>15, <1>16, <1>17, <1>18, PutKeepsPage
<1> QED
  BY <1>19 DEF p1, f, s

LEMMA ExtendKeepsPage ==
  ASSUME NEW pg, NEW on, GoodPage(pg, on), NEW p, NEW r \in Records,
         pg.deletedCount = 0, HasRoom(pg, 1 + r.length)
  PROVE  GoodPage(Put(MoveUp(pg), TotalSlots(pg), r),
                  on \union {[page |-> p, slot |-> TotalSlots(pg), record |-> r]})
<1> DEFINE t  == TotalSlots(pg)
           c  == MoveUpCells(pg)
           p1 == MoveUp(pg)
           o  == pg.freeOffset
<1>1. /\ pg = Page(o, pg.recordCount, pg.deletedCount, pg.freeList, pg.cell)
      /\ o \in 0 .. PageSize
      /\ pg.recordCount \in 0 .. o
      /\ pg.freeList = <<>>
      /\ pg.freeList \in Seq(Cells)
  BY DEF GoodPage, IsPage, Directory
<1>2. /\ t = pg.recordCount
      /\ r.length \in Nat \ {0}
      /\ PageSize \in Nat
      /\ o + 1 + r.length <= PageSize
  BY <1>1, RecordLength, TableAssumption DEF TotalSlots, HasRoom
<1>3. p1 = Page(o + 1, pg.recordCount, pg.deletedCount, pg.freeList, c)
  BY <1>1, MoveUpFields
<1>4. /\ p1.freeOffset = o + 1
      /\ p1.recordCount = pg.recordCount
      /\ p1.deletedCount = pg.deletedCount
      /\ p1.freeList = pg.freeList
      /\ p1.cell = c
  BY <1>3, PageFields
<1>5. ASSUME NEW x \in 0 .. t - 1
      PROVE  /\ x \in Cells
             /\ pg.cell[x] \in Slots
             /\ c[x] = Slot(pg.cell[x].offset + 1, pg.cell[x].length, FALSE)
             /\ pg.cell[x].offset >= 0 /\ pg.cell[x].length >= 0
             /\ pg.cell[x].offset + pg.cell[x].length <= o
  <2>1. x \in Cells /\ x < TotalSlots(pg)
    BY <1>1, <1>2 DEF Cells
  <2>2. /\ pg.cell[x] \in Slots /\ ~pg.cell[x].isDeleted
        /\ pg.cell[x].offset >= 0 /\ pg.cell[x].length >= 0
        /\ pg.cell[x].offset + pg.cell[x].length <= o
    BY <1>2 DEF GoodPage, Directory
  <2>3. c[x] = Raised(pg.cell[x])
    BY <2>1, <2>2 DEF MoveUpCells
  <2>4. Slot(pg.cell[x].offset + 1, pg.cell[x].length, pg.cell[x].isDeleted)
          = Slot(pg.cell[x].offset + 1, pg.cell[x].length, FALSE)
    BY <2>2 DEF Slots
  <2> QED
    BY <2>1, <2>2, <2>3, <2>4, SlotIsSlot
<1>6. \A x \in t + 1 .. o : x \in Cells => c[x] = pg.cell[x - 1]
  BY <1>1, <1>2 DEF MoveUpCells
<1>7. c = [x \in Cells |-> c[x]]
  BY DEF MoveUpCells
<1> HIDE DEF c, p1
<1>8. IsPage(p1)
  <2>1. o + 1 \in 0 .. PageSize /\ pg.recordCount \in 0 .. o + 1 /\ pg.deletedCount \in Nat
    BY <1>1, <1>2
  <2> HIDE DEF o
  <2> QED
    BY <1>1, <1>3, <1>4, <1>7, <2>1 DEF IsPage
<1>9. Free(p1, on)
  BY <1>1, <1>4 DEF Free
<1>10. ASSUME NEW q \in on
       PROVE  /\ q.slot \in 0 .. t - 1
              /\ c[q.slot].offset \in Int
              /\ c[q.slot].offset > t
              /\ Stored(p1, q)
  <2> DEFINE a == pg.cell[q.slot].offset
             l == pg.cell[q.slot].length
  <2>1. /\ q.slot \in 0 .. t - 1
        /\ q.record \in Records
        /\ pg.cell[q.slot] \in Slots
        /\ l = q.record.length
        /\ a >= 0 /\ a + l <= o
        /\ \A k \in 0 .. l - 1 : pg.cell[a + k] = Data(q.record, k)
    BY <1>2 DEF GoodPage, Stored
  <2>2. a \in Int /\ l \in Nat \ {0}
    BY <2>1, RecordLength DEF Slots
  <2>3. c[q.slot] = Slot(a + 1, l, FALSE)
    BY <1>5, <2>1
  <2>4. /\ c[q.slot] \in Slots /\ c[q.slot].offset = a + 1
        /\ c[q.slot].length = l /\ ~c[q.slot].isDeleted
    <3>1. a + 1 \in Int /\ l \in Int
      BY <2>2
    <3> DEFINE z == Slot(a + 1, l, FALSE)
    <3>2. z \in Slots /\ z.offset = a + 1 /\ z.length = l /\ ~z.isDeleted
      BY <3>1, LiveSlot
    <3>3. c[q.slot] = z
      BY <2>3
    <3> HIDE DEF z
    <3> QED
      BY <3>2, <3>3
  <2> HIDE DEF a, l
  <2>5. a >= t
    <3> SUFFICES ASSUME a < t PROVE FALSE
      BY <1>1, <1>2, <2>2
    <3>1. a \in 0 .. t - 1
      BY <1>1, <1>2, <2>1, <2>2
    <3>2. pg.cell[a + 0] = Data(q.record, 0) /\ a + 0 = a
      BY <2>1, <2>2
    <3> QED
      BY <1>5, <3>1, <3>2, DataIsNoSlot
  <2>6. ASSUME NEW k \in 0 .. l - 1
        PROVE  c[a + 1 + k] = Data(q.record, k)
    <3>1. /\ a + 1 + k \in t + 1 .. o
          /\ a + 1 + k \in Cells
          /\ (a + 1 + k) - 1 = a + k
      <4>1. o + 1 <= PageSize
        BY <1>1, <1>2
      <4>2. a \in Int /\ l \in Int /\ a + l <= o
        BY <2>1, <2>2
      <4>3. t \in Int /\ o \in Int /\ PageSize \in Int /\ t >= 0
        BY <1>1, <1>2
      <4>4. k \in Int /\ k >= 0 /\ k < l
        BY <4>2
      <4> QED
        BY <2>5, <4>1, <4>2, <4>3, <4>4 DEF Cells
    <3> QED
      BY <1>6, <2>1, <3>1
  <2> QED
    BY <1>1, <1>2, <1>4, <2>1, <2>2, <2>4, <2>5, <2>6 DEF Stored
<1>11. ASSUME NEW q \in on, NEW k \in 0 .. c[q.slot].length - 1
       PROVE  c[q.slot].offset + k # t
  BY <1>1, <1>2, <1>10
<1>12. ASSUME NEW x \in 0 .. pg.recordCount, x # t
       PROVE  /\ x < o + 1 /\ c[x] \in Slots /\ ~c[x].isDeleted
              /\ c[x].offset >= 0 /\ c[x].length >= 0
              /\ c[x].offset + c[x].length <= o + 1
  <2>1. x \in 0 .. t - 1
    BY <1>1, <1>2, <1>12
  <2>2. pg.cell[x].offset \in Int /\ pg.cell[x].length \in Int
    BY <1>5, <2>1 DEF Slots
  <2>3. pg.cell[x].offset + 1 \in Int
    BY <2>2
  <2>4. /\ c[x] \in Slots /\ ~c[x].isDeleted
        /\ c[x].offset = pg.cell[x].offset + 1 /\ c[x].length = pg.cell[x].length
    <3> DEFINE z == Slot(pg.cell[x].offset + 1, pg.cell[x].length, FALSE)
    <3>1. /\ z \in Slots /\ z.offset = pg.cell[x].offset + 1 /\ ~z.isDeleted
          /\ z.length = pg.cell[x].length
      BY <2>2, <2>3, LiveSlot
    <3>2. c[x] = z
      BY <1>5, <2>1
    <3> HIDE DEF z
    <3> QED
      BY <3>1, <3>2
  <2>5. /\ pg.cell[x].offset >= 0 /\ pg.cell[x].length >= 0
        /\ pg.cell[x].offset + pg.cell[x].length <= o
    BY <1>5, <2>1
  <2>6. x < o + 1
    BY <1>1, <1>2, <2>1
  <2> QED
    BY <1>1, <2>2, <2>4, <2>5, <2>6
<1> HIDE DEF t
<1>13. GoodPage(Put(p1, t, r), on \union {[page |-> p, slot |-> t, record |-> r]})
  <2>1. /\ \A i \in DOMAIN p1.freeList : p1.freeList[i] # t
        /\ t \in 0 .. p1.recordCount /\ t < p1.freeOffset
        /\ p1.freeOffset + r.length <= PageSize
    BY <1>1, <1>2, <1>4
  <2>2. \A q \in on : q.slot # t
    BY <1>1, <1>2, <1>10
  <2>3. \A q \in on : \A k \in 0 .. p1.cell[q.slot].length - 1 :
            p1.cell[q.slot].offset + k # t
    BY <1>4, <1>11
  <2>4. p1.deletedCount = 0 =>
            /\ p1.freeList = <<>>
            /\ \A x \in 0 .. p1.recordCount : x # t =>
                /\ x < p1.freeOffset
                /\ p1.cell[x] \in Slots
                /\ ~p1.cell[x].isDeleted
                /\ p1.cell[x].offset >= 0 /\ p1.cell[x].length >= 0
                /\ p1.cell[x].offset + p1.cell[x].length <= p1.freeOffset
    BY <1>1, <1>4, <1>12
  <2>5. \A q \in on : Stored(p1, q)
    BY <1>10
  <2> QED
    BY <1>8, <1>9, <2>1, <2>2, <2>3, <2>4, <2>5, PutKeepsPage
<1> QED
  BY <1>13 DEF p1, t

-----------------------------------------------------------------------------
\* The table: good pages, and records on allocated pages.

Table(ps, a, f, l) == [pages |-> ps, allocated |-> a, firstPage |-> f, lastPage |-> l]

On(recs, p) == {q \in recs : q.page = p}

Good(tb, recs, sp) ==
    /\ tb = Table(tb.pages, tb.allocated, tb.firstPage, tb.lastPage)
    /\ tb.pages = [p \in Pages |-> tb.pages[p]]
    /\ tb.allocated \in 0 .. MaxPages
    /\ tb.firstPage \in -1 .. tb.allocated - 1
    /\ tb.lastPage \in -1 .. tb.allocated - 1
    /\ \A q \in recs : q.page \in 0 .. tb.allocated - 1
    /\ \A p \in Pages \ sp : GoodPage(tb.pages[p], On(recs, p))

LEMMA TableFields ==
  ASSUME NEW ps, NEW a, NEW f, NEW l
  PROVE  /\ Table(ps, a, f, l).pages = ps
         /\ Table(ps, a, f, l).allocated = a
         /\ Table(ps, a, f, l).firstPage = f
         /\ Table(ps, a, f, l).lastPage = l
BY DEF Table

LEMMA SetPages ==
  ASSUME NEW ps, NEW a, NEW f, NEW l, NEW ps2
  PROVE  [Table(ps, a, f, l) EXCEPT !.pages = ps2] = Table(ps2, a, f, l)
BY DEF Table

LEMMA SetAllocated ==
  ASSUME NEW ps, NEW a, NEW f, NEW l, NEW a2
  PROVE  [Table(ps, a, f, l) EXCEPT !.allocated = a2] = Table(ps, a2, f, l)
BY DEF Table

LEMMA SetFirst ==
  ASSUME NEW ps, NEW a, NEW f, NEW l, NEW f2
  PROVE  [Table(ps, a, f, l) EXCEPT !.firstPage = f2] = Table(ps, a, f2, l)
BY DEF Table

LEMMA SetLast ==
  ASSUME NEW ps, NEW a, NEW f, NEW l, NEW l2
  PROVE  [Table(ps, a, f, l) EXCEPT !.lastPage = l2] = Table(ps, a, f, l2)
BY DEF Table

Changed(ps, p, pg) == [x \in Pages |-> IF x = p THEN pg ELSE ps[x]]

LEMMA StoreFields ==
  ASSUME NEW tb, tb = Table(tb.pages, tb.allocated, tb.firstPage, tb.lastPage),
         tb.pages = [p \in Pages |-> tb.pages[p]],
         NEW p \in Pages, NEW pg
  PROVE  [tb EXCEPT !.pages[p] = pg] =
            Table(Changed(tb.pages, p, pg), tb.allocated, tb.firstPage, tb.lastPage)
<1> DEFINE ps == [tb.pages EXCEPT ![p] = pg]
           ps2 == Changed(tb.pages, p, pg)
<1>1. [tb EXCEPT !.pages[p] = pg] = [tb EXCEPT !.pages = ps]
  OBVIOUS
<1>2. ps = ps2
  BY DEF Changed
<1> HIDE DEF ps, ps2
<1>3. [tb EXCEPT !.pages = ps] = Table(ps, tb.allocated, tb.firstPage, tb.lastPage)
  BY SetPages
<1>4. [tb EXCEPT !.pages[p] = pg] = Table(ps2, tb.allocated, tb.firstPage, tb.lastPage)
  BY <1>1, <1>2, <1>3
<1> QED
  BY <1>4 DEF ps2

\* One page is changed, and it is good with its records if it is not spoilt.
LEMMA StoreKeeps ==
  ASSUME NEW tb, NEW recs, NEW sp, Good(tb, recs, sp),
         NEW p \in 0 .. tb.allocated - 1, NEW pg,
         NEW recs2, NEW sp2, sp \subseteq sp2,
         \A q \in recs2 : q.page \in 0 .. tb.allocated - 1,
         \A x : x # p => On(recs2, x) = On(recs, x),
         p \notin sp2 => GoodPage(pg, On(recs2, p))
  PROVE  Good([tb EXCEPT !.pages[p] = pg], recs2, sp2)
<1> DEFINE ps == Changed(tb.pages, p, pg)
           tb2 == [tb EXCEPT !.pages[p] = pg]
<1>1. p \in Pages
  BY TableAssumption DEF Good, Pages
<1>2. tb2 = Table(ps, tb.allocated, tb.firstPage, tb.lastPage)
  BY <1>1, StoreFields DEF Good
<1>3. ps = [x \in Pages |-> ps[x]]
  BY DEF Changed
<1>4. \A x \in Pages \ sp2 : GoodPage(ps[x], On(recs2, x))
  BY DEF Good, Changed
<1> HIDE DEF ps, tb2
<1>5. /\ tb2.pages = ps
      /\ tb2.allocated = tb.allocated
      /\ tb2.firstPage = tb.firstPage
      /\ tb2.lastPage = tb.lastPage
  BY <1>2, TableFields
<1>6. Good(tb2, recs2, sp2)
  BY <1>2, <1>3, <1>4, <1>5 DEF Good
<1> QED
  BY <1>6 DEF tb2

LEMMA EmptyIsGood == GoodPage(EmptyPage, {})
<1> DEFINE c == [x \in Cells |-> Zeros]
<1>1. EmptyPage = Page(0, 0, 0, <<>>, c)
  BY DEF EmptyPage, Page
<1>2. c = [x \in Cells |-> c[x]]
  OBVIOUS
<1> HIDE DEF c
<1>3. /\ EmptyPage.freeOffset = 0
      /\ EmptyPage.recordCount = 0
      /\ EmptyPage.deletedCount = 0
      /\ EmptyPage.freeList = <<>>
      /\ EmptyPage.cell = c
  BY <1>1, PageFields
<1>4. <<>> \in Seq(Cells) /\ 0 \in 0 .. PageSize /\ 0 \in 0 .. 0
  BY TableAssumption
<1>5. IsPage(EmptyPage)
  <2>1. EmptyPage = Page(EmptyPage.freeOffset, EmptyPage.recordCount,
                         EmptyPage.deletedCount, EmptyPage.freeList, EmptyPage.cell)
    BY <1>1, <1>3
  <2>2. EmptyPage.cell = [x \in Cells |-> EmptyPage.cell[x]]
    BY <1>2, <1>3
  <2>3. EmptyPage.freeList \in Seq(Cells)
    BY <1>3, <1>4
  <2>4. /\ EmptyPage.freeOffset \in 0 .. PageSize
        /\ EmptyPage.recordCount \in 0 .. EmptyPage.freeOffset
        /\ EmptyPage.deletedCount \in Nat
    BY <1>3, <1>4
  <2> QED
    BY <2>1, <2>2, <2>3, <2>4 DEF IsPage
<1> QED
  BY <1>3, <1>5 DEF GoodPage, Directory, Free

LEMMA NewPageFields ==
  ASSUME NEW tb, NEW recs, NEW sp, Good(tb, recs, sp), tb.allocated < MaxPages
  PROVE  NewPage(tb) = Table(Changed(tb.pages, tb.allocated, EmptyPage), tb.allocated + 1,
                             IF tb.firstPage = NoPage THEN tb.allocated ELSE tb.firstPage,
                             tb.allocated)
<1> DEFINE a  == tb.allocated
           f  == IF tb.firstPage = NoPage THEN a ELSE tb.firstPage
           a2 == a + 1
           ps == Changed(tb.pages, a, EmptyPage)
           ps2 == [tb.pages EXCEPT ![a] = EmptyPage]
           t1 == [tb EXCEPT !.allocated = a2, !.pages[a] = EmptyPage]
<1>1. tb = Table(tb.pages, a, tb.firstPage, tb.lastPage)
  BY DEF Good
<1>2. a \in Pages
  BY TableAssumption DEF Good, Pages
<1>3. ps2 = ps
  BY <1>2 DEF Good, Changed
<1> HIDE DEF a2
<1>4. t1 = [[tb EXCEPT !.allocated = a2] EXCEPT !.pages = ps2]
  <2>1. [tb EXCEPT !.allocated = a2].pages = tb.pages
    BY <1>1, SetAllocated, TableFields
  <2> QED
    BY <2>1
<1> HIDE DEF ps, ps2
<1>5. [tb EXCEPT !.allocated = a2] = Table(tb.pages, a2, tb.firstPage, tb.lastPage)
  BY <1>1, SetAllocated
<1>6. [Table(tb.pages, a2, tb.firstPage, tb.lastPage) EXCEPT !.pages = ps2]
        = Table(ps2, a2, tb.firstPage, tb.lastPage)
  BY SetPages
<1>7. t1 = Table(ps, a2, tb.firstPage, tb.lastPage)
  BY <1>3, <1>4, <1>5, <1>6
<1>8. t1.firstPage = tb.firstPage
  BY <1>7, TableFields
<1>9. NewPage(tb) = WithLastPage(t1, a)
  BY DEF NewPage, a2
<1> HIDE DEF t1
<1>10. WithLastPage(t1, a) = [[t1 EXCEPT !.lastPage = a] EXCEPT !.firstPage = f]
  BY <1>8 DEF WithLastPage
<1>11. [t1 EXCEPT !.lastPage = a] = Table(ps, a2, tb.firstPage, a)
  BY <1>7, SetLast
<1> HIDE DEF f
<1>12. [Table(ps, a2, tb.firstPage, a) EXCEPT !.firstPage = f] = Table(ps, a2, f, a)
  BY SetFirst
<1>13. NewPage(tb) = Table(ps, a2, f, a)
  BY <1>9, <1>10, <1>11, <1>12
<1> QED
  BY <1>13 DEF ps, a2, f

LEMMA NewPageKeeps ==
  ASSUME NEW tb, NEW recs, NEW sp, Good(tb, recs, sp), tb.allocated < MaxPages
  PROVE  /\ Good(NewPage(tb), recs, sp)
         /\ NewPage(tb).allocated = tb.allocated + 1
         /\ NewPage(tb).pages[tb.allocated] = EmptyPage
<1> DEFINE a  == tb.allocated
           f  == IF tb.firstPage = NoPage THEN a ELSE tb.firstPage
           ps == Changed(tb.pages, a, EmptyPage)
           t2 == NewPage(tb)
<1>1. t2 = Table(ps, a + 1, f, a)
  BY NewPageFields
<1>2. t2.pages = ps /\ t2.allocated = a + 1 /\ t2.firstPage = f /\ t2.lastPage = a
  BY <1>1, TableFields
<1>3. a \in Pages /\ a + 1 \in 0 .. MaxPages
  BY TableAssumption DEF Good, Pages
<1>4. f \in -1 .. a
  BY DEF Good, NoPage
<1>5. ps = [x \in Pages |-> ps[x]] /\ ps[a] = EmptyPage
  BY <1>3 DEF Changed
<1>6. On(recs, a) = {}
  <2> SUFFICES ASSUME NEW q \in recs, q.page = a PROVE FALSE
    BY DEF On
  <2> QED
    BY <1>3 DEF Good
<1>7. \A x \in Pages \ sp : GoodPage(ps[x], On(recs, x))
  BY <1>3, <1>6, EmptyIsGood DEF Good, Changed
<1>8. \A q \in recs : q.page \in 0 .. (a + 1) - 1
  BY <1>3 DEF Good
<1> HIDE DEF ps, t2, f
<1>9. Good(t2, recs, sp)
  BY <1>1, <1>2, <1>3, <1>4, <1>5, <1>7, <1>8 DEF Good
<1> QED
  BY <1>2, <1>5, <1>9 DEF t2

\* A block that is allocated and whose page cannot be had.
LEMMA AllocateKeeps ==
  ASSUME NEW tb, NEW recs, NEW sp, Good(tb, recs, sp), tb.allocated < MaxPages
  PROVE  Good([tb EXCEPT !.allocated = @ + 1], recs, sp)
<1> DEFINE a  == tb.allocated + 1
           t2 == [tb EXCEPT !.allocated = a]
<1>1. t2 = Table(tb.pages, a, tb.firstPage, tb.lastPage)
  BY SetAllocated DEF Good
<1>2. /\ t2.pages = tb.pages /\ t2.allocated = a
      /\ t2.firstPage = tb.firstPage /\ t2.lastPage = tb.lastPage
  BY <1>1, TableFields
<1>3. /\ a \in 0 .. MaxPages
      /\ tb.firstPage \in -1 .. a - 1 /\ tb.lastPage \in -1 .. a - 1
      /\ \A q \in recs : q.page \in 0 .. a - 1
  BY TableAssumption DEF Good
<1> HIDE DEF a, t2
<1>4. Good(t2, recs, sp)
  BY <1>1, <1>2, <1>3 DEF Good
<1> QED
  BY <1>4 DEF a, t2

LEMMA DoneFields ==
  ASSUME NEW tb, NEW rc, NEW p, NEW s
  PROVE  /\ Done(tb, rc, p, s).table = tb
         /\ Done(tb, rc, p, s).rc = rc
         /\ Done(tb, rc, p, s).page = p
         /\ Done(tb, rc, p, s).slot = s
BY DEF Done

\* The records of spoilt pages may be any; others are the same.
LEMMA SameUnspoilt ==
  ASSUME NEW tb, NEW recs, NEW sp, Good(tb, recs, sp),
         NEW recs2, NEW sp2, sp \subseteq sp2,
         \A q \in recs2 : q.page \in 0 .. tb.allocated - 1,
         \A x \in Pages \ sp2 : On(recs2, x) = On(recs, x)
  PROVE  Good(tb, recs2, sp2)
<1>1. \A x \in Pages \ sp2 : GoodPage(tb.pages[x], On(recs2, x))
  BY DEF Good
<1> QED
  BY <1>1 DEF Good

LEMMA MoreSpoilt ==
  ASSUME NEW tb, NEW recs, NEW sp, Good(tb, recs, sp), NEW sp2, sp \subseteq sp2
  PROVE  Good(tb, recs, sp2)
BY DEF Good

\* A garbled page is spoilt.
LEMMA NotGarbled ==
  ASSUME NEW pg, IsPage(pg)
  PROVE  ~IsGarbled(pg)
<1>1. 0 \in Cells
  BY TableAssumption DEF Cells
<1>2. DOMAIN pg.cell = Cells
  BY DEF IsPage
<1> QED
  BY <1>1, <1>2 DEF IsGarbled

LEMMA GarbledIsSpoilt ==
  ASSUME NEW tb, NEW recs, NEW sp, Good(tb, recs, sp), NEW p \in Pages, IsGarbled(tb.pages[p])
  PROVE  p \in sp
BY NotGarbled DEF Good, GoodPage

LEMMA FollowedKeeps ==
  ASSUME NEW tb, NEW recs, NEW sp, Good(tb, recs, sp)
  PROVE  Good(tb, Followed(recs, tb), sp)
<1>1. \A q \in Followed(recs, tb) : q.page \in 0 .. tb.allocated - 1
  BY DEF Followed, Good
<1>2. ASSUME NEW x \in Pages \ sp
      PROVE  On(Followed(recs, tb), x) = On(recs, x)
  <2>1. ~IsGarbled(tb.pages[x])
    BY GarbledIsSpoilt
  <2> QED
    BY <2>1 DEF On, Followed
<1> QED
  BY <1>1, <1>2, SameUnspoilt

\* A page gets a record.
LEMMA AddKeeps ==
  ASSUME NEW tb, NEW recs, NEW sp, Good(tb, recs, sp),
         NEW sp2, sp \subseteq sp2,
         NEW p \in 0 .. tb.allocated - 1, NEW s, NEW r, NEW pg,
         NEW new, new = [page |-> p, slot |-> s, record |-> r],
         p \notin sp2 => GoodPage(pg, On(recs, p) \union {new})
  PROVE  Good([tb EXCEPT !.pages[p] = pg], recs \union {new}, sp2)
<1>1. new.page = p
  OBVIOUS
<1>2. On(recs \union {new}, p) = On(recs, p) \union {new}
  BY <1>1 DEF On
<1>3. \A x : x # p => On(recs \union {new}, x) = On(recs, x)
  BY <1>1 DEF On
<1>4. \A q \in recs \union {new} : q.page \in 0 .. tb.allocated - 1
  BY <1>1 DEF Good
<1> QED
  BY <1>2, <1>3, <1>4, StoreKeeps

\* A refusal or an access outside, anything on a garbled page, a slot reused or a new one.
LEMMA InsertIntoCases ==
  ASSUME NEW tb, NEW p, NEW r, NEW res \in InsertInto(tb, p, r),
         NEW pg, pg = tb.pages[p]
  PROVE  \/ \E rc \in {"BUFFER_FULL", "undefined"} : res = Failed(tb, rc)
         \/ IsGarbled(pg) /\ \E s \in Cells : res = Done(tb, "OK", p, s)
         \/ ~IsGarbled(pg) /\ \E i \in FirstReusable(pg, r.length) : res = Reuse(tb, p, r, i)
         \/ /\ ~IsGarbled(pg) /\ res = Extend(tb, p, r)
            /\ HasRoom(pg, 1 + r.length) /\ ~(TotalSlots(pg) >= PageSize)
<1>1. CASE IsGarbled(pg)
  BY <1>1 DEF InsertInto
<1>2. CASE ~IsGarbled(pg)
  <2>1. \/ \E i \in FirstReusable(pg, r.length) : res = Reuse(tb, p, r, i)
        \/ res = Extend(tb, p, r)
    BY <1>2 DEF InsertInto
  <2>2. \/ \E rc \in {"BUFFER_FULL", "undefined"} : Extend(tb, p, r) = Failed(tb, rc)
        \/ HasRoom(pg, 1 + r.length) /\ ~(TotalSlots(pg) >= PageSize)
    BY DEF Extend
  <2> QED
    BY <1>2, <2>1, <2>2
<1> QED
  BY <1>1, <1>2

LEMMA InsertIntoPage ==
  ASSUME NEW tb, NEW p, NEW r, NEW res \in InsertInto(tb, p, r), res.rc = "OK"
  PROVE  res.page = p
<1>1. \A t2, s : Done(t2, "OK", p, s).page = p
  BY DoneFields
<1>2. \A rc \in {"BUFFER_FULL", "undefined"} : Failed(tb, rc).rc # "OK"
  BY DoneFields DEF Failed
<1>3. HasRoom(tb.pages[p], 1 + r.length) /\ ~(TotalSlots(tb.pages[p]) >= PageSize)
        => Extend(tb, p, r).page = p
  BY <1>1 DEF Extend
<1>4. \A i : Reuse(tb, p, r, i).page = p
  BY <1>1 DEF Reuse
<1> QED
  BY <1>1, <1>2, <1>3, <1>4, InsertIntoCases

\* The records after an insert.
WithInserted(recs, res, r) ==
    IF res.rc = "OK"
    THEN recs \union {[page |-> res.page, slot |-> res.slot, record |-> r]}
    ELSE recs

LEMMA InsertIntoKeeps ==
  ASSUME NEW tb, NEW recs, NEW sp, Good(tb, recs, sp),
         NEW sp2, sp \subseteq sp2,
         NEW p \in 0 .. tb.allocated - 1, NEW r \in Records,
         NEW pg, pg = tb.pages[p],
         ~IsGarbled(pg) /\ pg.freeList # <<>> => HasRoom(pg, r.length),
         NEW res \in InsertInto(tb, p, r),
         res.rc = "OK" /\ res.slot = TotalSlots(pg) /\ p \notin sp2 => pg.deletedCount = 0
  PROVE  Good(res.table, WithInserted(recs, res, r), sp2)
<1> DEFINE t == TotalSlots(pg)
           new(x) == [page |-> p, slot |-> x, record |-> r]
<1>0. p \in Pages
  BY TableAssumption DEF Good, Pages
<1>1. p \notin sp2 => GoodPage(pg, On(recs, p))
  BY <1>0 DEF Good
<1>2. CASE \E rc \in {"BUFFER_FULL", "undefined"} : res = Failed(tb, rc)
  <2>1. res.table = tb /\ res.rc # "OK"
    BY <1>2, DoneFields DEF Failed
  <2> QED
    BY <2>1, MoreSpoilt DEF WithInserted
<1>3. CASE IsGarbled(pg) /\ \E s \in Cells : res = Done(tb, "OK", p, s)
  <2>1. PICK s \in Cells : res = Done(tb, "OK", p, s)
    BY <1>3
  <2>2. res.table = tb /\ res.rc = "OK" /\ res.page = p /\ res.slot = s
    BY <2>1, DoneFields
  <2>3. p \in sp2
    BY <1>0, <1>3, GarbledIsSpoilt
  <2>4. new(s).page = p
    OBVIOUS
  <2> HIDE DEF new
  <2>5. \A x \in Pages \ sp2 : On(recs \union {new(s)}, x) = On(recs, x)
    BY <2>3, <2>4 DEF On
  <2>6. \A q \in recs \union {new(s)} : q.page \in 0 .. tb.allocated - 1
    BY <2>4 DEF Good
  <2>7. Good(tb, recs \union {new(s)}, sp2)
    BY <2>5, <2>6, SameUnspoilt
  <2> QED
    BY <2>2, <2>7 DEF WithInserted, new
<1>4. CASE ~IsGarbled(pg) /\ \E i \in FirstReusable(pg, r.length) : res = Reuse(tb, p, r, i)
  <2>1. PICK i \in FirstReusable(pg, r.length) : res = Reuse(tb, p, r, i)
    BY <1>4
  <2> DEFINE s   == pg.freeList[i]
             pg2 == Put([pg EXCEPT !.freeList = RemoveAt(@, i)], s, r)
             tb2 == [tb EXCEPT !.pages[p] = pg2]
  <2>2. res = Done(tb2, "OK", p, s)
    BY <2>1 DEF Reuse
  <2>3. ASSUME p \notin sp2
        PROVE  GoodPage(pg2, On(recs, p) \union {new(s)})
    <3>1. GoodPage(pg, On(recs, p)) /\ pg.freeList \in Seq(Cells)
      BY <1>1, <2>3 DEF GoodPage, IsPage
    <3>2. HasRoom(pg, r.length)
      BY <1>4, <3>1, ReusedEntry
    <3> QED
      BY <3>1, <3>2, ReuseKeepsPage
  <2> HIDE DEF pg2, s
  <2>4. Good(tb2, recs \union {new(s)}, sp2)
    BY <2>3, AddKeeps
  <2>5. res.table = tb2 /\ res.rc = "OK" /\ res.page = p /\ res.slot = s
    BY <2>2, DoneFields
  <2> HIDE DEF tb2
  <2> QED
    BY <2>4, <2>5 DEF WithInserted
<1>5. CASE res = Extend(tb, p, r) /\ HasRoom(pg, 1 + r.length) /\ ~(t >= PageSize)
  <2> DEFINE pg2 == Put(MoveUp(pg), t, r)
             tb2 == [tb EXCEPT !.pages[p] = pg2]
  <2>1. res = Done(tb2, "OK", p, t)
    BY <1>5 DEF Extend
  <2>2. res.table = tb2 /\ res.rc = "OK" /\ res.page = p /\ res.slot = t
    BY <2>1, DoneFields
  <2>3. p \notin sp2 => GoodPage(pg2, On(recs, p) \union {new(t)})
    BY <1>1, <1>5, <2>2, ExtendKeepsPage
  <2> HIDE DEF pg2, t
  <2>4. Good(tb2, recs \union {new(t)}, sp2)
    BY <2>3, AddKeeps
  <2> HIDE DEF tb2
  <2> QED
    BY <2>2, <2>4 DEF WithInserted
<1> QED
  BY <1>2, <1>3, <1>4, <1>5, InsertIntoCases

\* An insert tries the last page or a new one.
LEMMA InsertCases ==
  ASSUME NEW tb, NEW r, NEW faults, NEW res \in Insert(tb, r, faults)
  PROVE  \/ /\ tb.lastPage # NoPage
            /\ "full" \notin faults
            /\ res \in InsertInto(tb, tb.lastPage, r)
            /\ ~IsGarbled(tb.pages[tb.lastPage]) => FitsLast(tb, r)
         \/ /\ LastGarbled(tb) \/ ~FitsLast(tb, r) \/ "full" \in faults
            /\ res \in InsertAfresh(tb, r, faults)
BY DEF Insert, LastGarbled, FitsLast

\* The ways in which a new page can be had or not.
LEMMA AfreshCases ==
  ASSUME NEW tb, NEW recs, NEW sp, Good(tb, recs, sp),
         NEW r, NEW faults, NEW res \in InsertAfresh(tb, r, faults)
  PROVE  \/ res = Failed(tb, "FILE_NOT_FOUND")
         \/ /\ tb.allocated < MaxPages
            /\ "new" \in faults
            /\ res = Failed([tb EXCEPT !.allocated = @ + 1], "BUFFER_FULL")
         \/ /\ tb.allocated < MaxPages
            /\ res \in InsertInto(NewPage(tb), tb.allocated, r)
<1>1. tb.allocated # MaxPages => tb.allocated < MaxPages
  BY TableAssumption DEF Good
<1> QED
  BY <1>1 DEF InsertAfresh

LEMMA EmptyPageFields ==
  /\ EmptyPage.freeOffset = 0 /\ EmptyPage.deletedCount = 0 /\ EmptyPage.freeList = <<>>
  /\ TotalSlots(EmptyPage) = 0
  /\ ~IsGarbled(EmptyPage)
<1>1. ~IsGarbled(EmptyPage)
  BY EmptyIsGood, NotGarbled DEF GoodPage
<1> QED
  BY <1>1 DEF EmptyPage, TotalSlots

\* insertRecord, and the second half of updateRecord.
LEMMA InsertKeeps ==
  ASSUME NEW tb, NEW recs, NEW sp, Good(tb, recs, sp),
         NEW r \in Records, NEW faults, NEW res \in Insert(tb, r, faults)
  PROVE  Good(res.table, WithInserted(recs, res, r), sp \union SpoilsInsert(tb, res))
<1> DEFINE sp2 == sp \union SpoilsInsert(tb, res)
           last == tb.lastPage
           pg == tb.pages[last]
<1>1. ASSUME last # NoPage, res \in InsertInto(tb, last, r),
             ~IsGarbled(pg) => FitsLast(tb, r)
      PROVE  Good(res.table, WithInserted(recs, res, r), sp2)
  <2>1. last \in 0 .. tb.allocated - 1 /\ last \in Pages
    BY <1>1, TableAssumption DEF Good, NoPage, Pages
  <2>2. ~IsGarbled(pg) /\ pg.freeList # <<>> => HasRoom(pg, r.length)
    BY <1>1 DEF FitsLast
  <2>3. ASSUME res.rc = "OK", res.slot = TotalSlots(pg), last \notin sp2
        PROVE  pg.deletedCount = 0
    <3>1. res.page = last
      BY <1>1, <2>3, InsertIntoPage
    <3>2. ~(pg.deletedCount > 0)
      BY <1>1, <2>3, <3>1 DEF SpoilsInsert
    <3>3. pg.deletedCount \in Nat
      BY <2>1, <2>3 DEF Good, GoodPage, IsPage
    <3> QED
      BY <3>2, <3>3
  <2>4. sp \subseteq sp2
    OBVIOUS
  <2> HIDE DEF sp2, last
  <2> QED
    BY <1>1, <2>1, <2>2, <2>3, <2>4, InsertIntoKeeps
<1>2. ASSUME res \in InsertAfresh(tb, r, faults)
      PROVE  Good(res.table, WithInserted(recs, res, r), sp2)
  <2>1. sp \subseteq sp2
    OBVIOUS
  <2> HIDE DEF sp2
  <2>2. CASE res = Failed(tb, "FILE_NOT_FOUND")
    <3>1. res.table = tb /\ res.rc # "OK"
      BY <2>2, DoneFields DEF Failed
    <3> QED
      BY <2>1, <3>1, MoreSpoilt DEF WithInserted
  <2>3. CASE /\ tb.allocated < MaxPages
             /\ res = Failed([tb EXCEPT !.allocated = @ + 1], "BUFFER_FULL")
    <3> DEFINE tb2 == [tb EXCEPT !.allocated = @ + 1]
    <3>1. res.table = tb2 /\ res.rc # "OK"
      BY <2>3, DoneFields DEF Failed
    <3>2. Good(tb2, recs, sp)
      BY <2>3, AllocateKeeps
    <3> HIDE DEF tb2
    <3> QED
      BY <2>1, <3>1, <3>2, MoreSpoilt DEF WithInserted
  <2>4. CASE /\ tb.allocated < MaxPages
             /\ res \in InsertInto(NewPage(tb), tb.allocated, r)
    <3> DEFINE tb2 == NewPage(tb)
               p   == tb.allocated
    <3>1. Good(tb2, recs, sp) /\ tb2.allocated = p + 1 /\ tb2.pages[p] = EmptyPage
      BY <2>4, NewPageKeeps
    <3>2. p \in 0 .. tb2.allocated - 1
      BY <3>1 DEF Good
    <3>3. res \in InsertInto(tb2, p, r)
      BY <2>4
    <3> HIDE DEF tb2, p
    <3> QED
      BY <2>1, <3>1, <3>2, <3>3, EmptyPageFields, InsertIntoKeeps
  <2> QED
    BY <1>2, <2>2, <2>3, <2>4, AfreshCases
<1> QED
  BY <1>1, <1>2, InsertCases

-----------------------------------------------------------------------------
\* The invariant of the table, by action.

TInv == Good(table, records, spoiled)

\* What a deletion comes to: an error, no more than a report, or a slot marked.
LEMMA DeleteCases ==
  ASSUME NEW tb, NEW p, NEW s, NEW faults, NEW res \in Delete(tb, p, s, faults)
  PROVE  \/ \E rc : rc # "OK" /\ res = Failed(tb, rc)
         \/ /\ ~(p >= tb.allocated)
            /\ IsGarbled(tb.pages[p])
            /\ res = Done(tb, "OK", p, s)
         \/ /\ ~(p >= tb.allocated)
            /\ ~IsGarbled(tb.pages[p])
            /\ res = Done([tb EXCEPT !.pages[p] = Deleted(tb.pages[p], s)], "OK", p, s)
BY DEF Delete

\* deleteRecord, and the first half of updateRecord.
LEMMA DeleteKeeps ==
  ASSUME TInv, NEW p \in Pages, NEW s \in Cells, NEW faults,
         NEW res \in Delete(table, p, s, faults)
  PROVE  Good(res.table,
              IF res.rc = "OK" THEN Without(p, s) ELSE records,
              spoiled \union SpoilsSlot(p, s, res.rc))
<1> DEFINE pg  == table.pages[p]
           sp2 == spoiled \union SpoilsSlot(p, s, res.rc)
<1>1. /\ \A x : x # p => On(Without(p, s), x) = On(records, x)
      /\ \A q \in Without(p, s) : q.page \in 0 .. table.allocated - 1
      /\ On(Without(p, s), p) = {q \in On(records, p) : q.slot # s}
  BY DEF On, Without, TInv, Good
<1>2. spoiled \subseteq sp2
  OBVIOUS
<1>3. CASE \E rc : rc # "OK" /\ res = Failed(table, rc)
  <2>1. res.table = table /\ res.rc # "OK"
    BY <1>3, DoneFields DEF Failed
  <2> HIDE DEF sp2
  <2> QED
    BY <1>2, <2>1, MoreSpoilt DEF TInv, sp2
<1>4. CASE IsGarbled(pg) /\ res = Done(table, "OK", p, s)
  <2>1. res.table = table /\ res.rc = "OK"
    BY <1>4, DoneFields
  <2>2. p \in sp2
    BY <1>4, GarbledIsSpoilt DEF TInv
  <2> HIDE DEF sp2
  <2>3. Good(table, Without(p, s), sp2)
    BY <1>1, <1>2, <2>2, SameUnspoilt DEF TInv
  <2> QED
    BY <2>1, <2>3 DEF sp2
<1>5. CASE /\ ~(p >= table.allocated)
           /\ res = Done([table EXCEPT !.pages[p] = Deleted(pg, s)], "OK", p, s)
  <2> DEFINE pg2 == Deleted(pg, s)
             tb2 == [table EXCEPT !.pages[p] = pg2]
  <2>1. res.table = tb2 /\ res.rc = "OK"
    BY <1>5, DoneFields
  <2>2. p \in 0 .. table.allocated - 1
    BY <1>5, TableAssumption DEF Good, TInv, Pages
  <2>3. ASSUME p \notin sp2
        PROVE  GoodPage(pg2, On(Without(p, s), p))
    <3>1. GoodPage(pg, On(records, p))
      BY <2>3 DEF TInv, Good
    <3>2. \E q \in On(records, p) : q.slot = s
      BY <2>1, <2>3 DEF SpoilsSlot, On
    <3> QED
      BY <1>1, <3>1, <3>2, DeleteKeepsPage
  <2> HIDE DEF sp2, pg2
  <2>4. Good(tb2, Without(p, s), sp2)
    BY <1>1, <1>2, <2>2, <2>3, StoreKeeps DEF TInv
  <2> HIDE DEF tb2
  <2> QED
    BY <2>1, <2>4 DEF sp2
<1> QED
  BY <1>3, <1>4, <1>5, DeleteCases

\* The pages after vacuum.
Vacuumed(tb, stop) ==
    [p \in Pages |->
        IF p \in tb.firstPage .. stop - 1 THEN VacuumPage(tb.pages[p]) ELSE tb.pages[p]]

\* What vacuum comes to: the pages packed, or an access outside of one of them.
LEMMA VacuumCases ==
  ASSUME NEW tb, NEW stop, NEW res \in Vacuum(tb, stop)
  PROVE  \/ res = Failed([tb EXCEPT !.pages = Vacuumed(tb, stop)], "BLOCK_NOT_FOUND")
         \/ /\ res = Failed(tb, "undefined")
            /\ \E p \in tb.firstPage .. stop - 1 : Fate(tb.pages[p]) # "known"
<1> DEFINE visited == tb.firstPage .. stop - 1
           fates == {Fate(tb.pages[p]) : p \in visited}
           packed == Failed([tb EXCEPT !.pages = Vacuumed(tb, stop)], "BLOCK_NOT_FOUND")
<1>1. Vacuum(tb, stop) = (IF "outside" \in fates THEN {} ELSE {packed})
                            \union (IF fates \subseteq {"known"} THEN {}
                                   ELSE {Failed(tb, "undefined")})
  BY DEF Vacuum, Vacuumed
<1>2. ~(fates \subseteq {"known"}) => \E p \in visited : Fate(tb.pages[p]) # "known"
  OBVIOUS
<1> HIDE DEF fates, packed
<1> QED
  BY <1>1, <1>2 DEF packed

LEMMA VacuumedFields ==
  ASSUME NEW tb, NEW recs, NEW sp, Good(tb, recs, sp), NEW stop,
         NEW tb2, tb2 = [tb EXCEPT !.pages = Vacuumed(tb, stop)]
  PROVE  /\ tb2 = Table(Vacuumed(tb, stop), tb.allocated, tb.firstPage, tb.lastPage)
         /\ tb2.pages = Vacuumed(tb, stop)
         /\ tb2.allocated = tb.allocated
         /\ tb2.firstPage = tb.firstPage
         /\ tb2.lastPage = tb.lastPage
<1>1. tb2 = Table(Vacuumed(tb, stop), tb.allocated, tb.firstPage, tb.lastPage)
  BY SetPages DEF Good
<1> QED
  BY <1>1, TableFields

\* vacuum: what it packs or garbles it spoils.
LEMMA VacuumKeeps ==
  ASSUME TInv, NEW stop, NEW res \in Vacuum(table, stop)
  PROVE  Good(res.table, records, spoiled \union SpoilsVacuum(table, res.table))
<1> DEFINE ps  == Vacuumed(table, stop)
           tb2 == [table EXCEPT !.pages = ps]
           sp2 == spoiled \union SpoilsVacuum(table, res.table)
<1>1. spoiled \subseteq sp2
  OBVIOUS
<1>2. CASE res = Failed(table, "undefined")
  <2>1. res.table = table
    BY <1>2, DoneFields DEF Failed
  <2> HIDE DEF sp2
  <2> QED
    BY <1>1, <2>1, MoreSpoilt DEF TInv, sp2
<1>3. CASE res = Failed(tb2, "BLOCK_NOT_FOUND")
  <2>1. res.table = tb2
    BY <1>3, DoneFields DEF Failed
  <2>2. /\ tb2 = Table(ps, table.allocated, table.firstPage, table.lastPage)
        /\ tb2.pages = ps
        /\ tb2.allocated = table.allocated
        /\ tb2.firstPage = table.firstPage
        /\ tb2.lastPage = table.lastPage
    BY VacuumedFields DEF TInv
  <2>3. ASSUME NEW p \in Pages \ sp2
        PROVE  ps[p] = table.pages[p]
    <3> DEFINE pg == table.pages[p]
    <3>1. pg.deletedCount \in Nat /\ ~IsGarbled(pg)
      BY <1>1, NotGarbled DEF TInv, Good, GoodPage, IsPage
    <3>2. ps[p] = pg \/ ps[p] = VacuumPage(pg)
      BY DEF Vacuumed
    <3>3. CASE pg.deletedCount = 0
      <4>1. VacuumPage(pg) = pg
        BY <3>1, <3>3 DEF VacuumPage, Fate
      <4> QED
        BY <3>2, <4>1
    <3>4. CASE pg.deletedCount # 0
      <4>1. VacuumPage(pg).deletedCount = 0
        BY <3>4 DEF VacuumPage, Garbled, EmptyPage
      <4>2. pg.deletedCount > 0
        BY <3>1, <3>4
      <4>3. ~(ps[p].deletedCount = 0)
        <5> HIDE DEF ps, tb2, pg
        <5> QED
          BY <2>1, <2>2, <4>2 DEF SpoilsVacuum, pg
      <4> HIDE DEF ps, pg
      <4> QED
        BY <3>2, <4>1, <4>3 DEF pg
    <3> QED
      BY <3>3, <3>4
  <2>4. ps = [p \in Pages |-> ps[p]]
    BY DEF Vacuumed
  <2> HIDE DEF ps, tb2
  <2>5. Good(tb2, records, sp2)
    <3>1. \A p \in Pages \ sp2 : GoodPage(ps[p], On(records, p))
      BY <1>1, <2>3 DEF TInv, Good
    <3> HIDE DEF sp2
    <3> QED
      BY <2>2, <2>4, <3>1 DEF TInv, Good
  <2> QED
    BY <2>1, <2>5
<1> QED
  BY <1>2, <1>3, VacuumCases

LEMMA RestartKeeps ==
  ASSUME TInv
  PROVE  Good([table EXCEPT !.firstPage = NoPage, !.lastPage = NoPage], records, spoiled)
<1> DEFINE t1 == [table EXCEPT !.firstPage = NoPage]
           t2 == [table EXCEPT !.firstPage = NoPage, !.lastPage = NoPage]
<1>1. t1 = Table(table.pages, table.allocated, NoPage, table.lastPage)
  BY SetFirst DEF TInv, Good
<1>2. t2 = [t1 EXCEPT !.lastPage = NoPage]
  OBVIOUS
<1> HIDE DEF t1
<1>3. t2 = Table(table.pages, table.allocated, NoPage, NoPage)
  BY <1>1, <1>2, SetLast
<1> HIDE DEF t2
<1>4. /\ t2.pages = table.pages /\ t2.allocated = table.allocated
      /\ t2.firstPage = NoPage /\ t2.lastPage = NoPage
  BY <1>3, TableFields
<1>5. NoPage \in -1 .. table.allocated - 1
  BY DEF NoPage, TInv, Good
<1>6. Good(t2, records, spoiled)
  BY <1>3, <1>4, <1>5 DEF TInv, Good
<1> QED
  BY <1>6 DEF t2

LEMMA InitTable == Init => TInv
<1> SUFFICES ASSUME Init PROVE TInv
  OBVIOUS
<1> DEFINE ps == [p \in Pages |-> EmptyPage]
<1>1. table = Table(ps, 0, NoPage, NoPage) /\ records = {}
  BY DEF Init, Table
<1>2. /\ table.pages = ps /\ table.allocated = 0
      /\ table.firstPage = NoPage /\ table.lastPage = NoPage
  <2> HIDE DEF ps
  <2> QED
    BY <1>1, TableFields
<1>3. ps = [p \in Pages |-> ps[p]] /\ \A p \in Pages : ps[p] = EmptyPage
  OBVIOUS
<1>4. \A p : On(records, p) = {}
  BY <1>1 DEF On
<1> HIDE DEF ps
<1>5. 0 \in 0 .. MaxPages /\ NoPage \in -1 .. 0 - 1
  BY TableAssumption DEF NoPage
<1> QED
  BY <1>1, <1>2, <1>3, <1>4, <1>5, EmptyIsGood DEF TInv, Good

\* What the second half of an update, or an insert, assigns.
LEMMA InsertStepCases ==
  ASSUME NEW tb, NEW r, NEW faults, NEW kept, NEW spoilt,
         InsertStep(tb, r, faults, kept, spoilt)
  PROVE  \E res \in Insert(tb, r, faults) :
            /\ table' = res.table
            /\ undefined' = (res.rc = "undefined")
            /\ records' = IF res.rc = "OK"
                          THEN Followed(WithInserted(kept, res, r), res.table)
                          ELSE WithInserted(kept, res, r)
            /\ spoiled' = spoilt \union SpoilsInsert(tb, res)
            /\ refused' = IF res.rc # "BUFFER_FULL" \/ LastGarbled(tb) THEN NoRefusal
                          ELSE [length |-> r.length, faults |-> faults,
                                reusable |-> FitsLast(tb, r)
                                             /\ tb.pages[tb.lastPage].freeList # <<>>]
BY DEF InsertStep, WithInserted

LEMMA InsertStepKeeps ==
  ASSUME NEW tb, NEW r \in Records, NEW faults, NEW kept, NEW spoilt,
         Good(tb, kept, spoilt), InsertStep(tb, r, faults, kept, spoilt)
  PROVE  TInv'
<1>1. PICK res \in Insert(tb, r, faults) :
        /\ table' = res.table
        /\ records' = IF res.rc = "OK"
                      THEN Followed(WithInserted(kept, res, r), res.table)
                      ELSE WithInserted(kept, res, r)
        /\ spoiled' = spoilt \union SpoilsInsert(tb, res)
  BY InsertStepCases
<1>2. Good(res.table, WithInserted(kept, res, r), spoilt \union SpoilsInsert(tb, res))
  BY InsertKeeps
<1>3. Good(res.table, Followed(WithInserted(kept, res, r), res.table),
           spoilt \union SpoilsInsert(tb, res))
  BY <1>2, FollowedKeeps
<1> QED
  BY <1>1, <1>2, <1>3 DEF TInv

\* The first half of an update.
LEMMA UpdateCases ==
  ASSUME TInv, NEW p \in Pages, NEW s \in Cells, NEW r, NEW faults,
         UpdateRecord(p, s, r, faults)
  PROVE  \E res \in Delete(table, p, s, {}) :
            /\ res.rc = "OK"
            /\ InsertStep(res.table, r, faults, Without(p, s),
                          spoiled \union SpoilsSlot(p, s, "OK"))
            /\ Good(res.table, Without(p, s), spoiled \union SpoilsSlot(p, s, "OK"))
<1>1. PICK res \in Delete(table, p, s, {}) :
        /\ res.rc = "OK"
        /\ InsertStep(res.table, r, faults, Without(p, s),
                      spoiled \union SpoilsSlot(p, s, "OK"))
  BY DEF UpdateRecord
<1>2. Good(res.table, Without(p, s), spoiled \union SpoilsSlot(p, s, "OK"))
  BY <1>1, DeleteKeeps
<1> QED
  BY <1>1, <1>2

LEMMA StepTable == TInv /\ [Next]_vars => TInv'
<1> SUFFICES ASSUME TInv, [Next]_vars PROVE TInv'
  OBVIOUS
<1>1. ASSUME NEW r \in Records, NEW faults, InsertRecord(r, faults) PROVE TInv'
  BY <1>1, InsertStepKeeps DEF InsertRecord, TInv
<1>2. ASSUME NEW p \in Pages, NEW s \in Cells, NEW faults, DeleteRecord(p, s, faults)
      PROVE  TInv'
  <2>1. PICK res \in Delete(table, p, s, faults) :
          /\ table' = res.table
          /\ records' = IF res.rc = "OK" THEN Without(p, s) ELSE records
          /\ spoiled' = spoiled \union SpoilsSlot(p, s, res.rc)
    BY <1>2 DEF DeleteRecord
  <2>2. Good(res.table, IF res.rc = "OK" THEN Without(p, s) ELSE records,
             spoiled \union SpoilsSlot(p, s, res.rc))
    BY DeleteKeeps
  <2> QED
    BY <2>1, <2>2 DEF TInv
<1>3. ASSUME NEW p \in Pages, NEW s \in Cells, NEW r \in Records, NEW faults,
             UpdateRecord(p, s, r, faults)
      PROVE  TInv'
  BY <1>3, UpdateCases, InsertStepKeeps
<1>4. ASSUME NEW stop, VacuumTable(stop) PROVE TInv'
  <2>1. PICK res \in Vacuum(table, stop) :
          /\ table' = res.table
          /\ records' = Followed(records, res.table)
          /\ spoiled' = spoiled \union SpoilsVacuum(table, res.table)
    BY <1>4 DEF VacuumTable
  <2>2. Good(res.table, records, spoiled \union SpoilsVacuum(table, res.table))
    BY VacuumKeeps
  <2>3. Good(res.table, Followed(records, res.table),
             spoiled \union SpoilsVacuum(table, res.table))
    BY <2>2, FollowedKeeps
  <2> QED
    BY <2>1, <2>3 DEF TInv
<1>5. CASE Restart
  <2>1. /\ table' = [table EXCEPT !.firstPage = NoPage, !.lastPage = NoPage]
        /\ records' = records /\ spoiled' = spoiled
    BY <1>5 DEF Restart
  <2> QED
    BY <2>1, RestartKeeps DEF TInv
<1>6. CASE UNCHANGED vars
  BY <1>6 DEF vars, TInv
<1> QED
  BY <1>1, <1>2, <1>3, <1>4, <1>5, <1>6 DEF Next

-----------------------------------------------------------------------------
\* The theorems.

\* On a page that no step has spoilt, slots and data are what the code takes them
\* for, whatever inserts, deletions, updates, vacuums, restarts and errors came before.
THEOREM TableInvariant == Spec => []TInv
<1>1. Init => TInv
  BY InitTable
<1>2. TInv /\ [Next]_vars => TInv'
  BY StepTable
<1> QED
  BY <1>1, <1>2, PTL DEF Spec

\* A record that was inserted and not deleted is read back as it was, on every page
\* that is not spoilt (table_manager.cpp:76-137, 277-284).
THEOREM KeptRecordsRead == Spec => []RecordsKept
<1>1. TInv => RecordsKept
  <2> SUFFICES ASSUME TInv, NEW q \in records, q.page \notin spoiled PROVE Reads(q)
    BY DEF RecordsKept
  <2> DEFINE pg == table.pages[q.page]
             c  == pg.cell[q.slot]
  <2>1. q.page \in Pages /\ q \in On(records, q.page)
    BY TableAssumption DEF TInv, Good, Pages, On
  <2>2. IsPage(pg) /\ Stored(pg, q)
    BY <2>1, SMTT(30) DEF TInv, Good, GoodPage
  <2>3. IsSlot(c) /\ c \in Slots
    BY <2>2, SlotIsSlot DEF Stored
  <2>4. q.slot < TotalSlots(pg)
    <3>1. /\ q.slot \in 0 .. pg.recordCount - 1
          /\ pg.recordCount \in Int
          /\ pg.deletedCount \in Nat
      <4> HIDE DEF pg
      <4> QED
        BY <2>2, TableAssumption DEF IsPage, Stored
    <3> HIDE DEF pg
    <3> QED
      BY <3>1 DEF TotalSlots
  <2>5. c.offset \in Int /\ c.length \in Int
    BY <2>3 DEF Slots
  <2>6. Inside(c.offset, c.length)
    <3>1. c.offset + c.length <= pg.freeOffset
      BY <2>2 DEF Stored
    <3>2. pg.freeOffset \in Int /\ pg.freeOffset <= PageSize /\ PageSize \in Int
      BY <2>2, TableAssumption, SMTT(30) DEF IsPage
    <3> HIDE DEF pg, c
    <3> QED
      BY <2>5, <3>1, <3>2, SMTT(30) DEF Inside
  <2>7. /\ ~c.isDeleted
        /\ c.length = q.record.length
        /\ \A k \in 0 .. c.length - 1 : pg.cell[c.offset + k] = Data(q.record, k)
    BY <2>2, ZenonT(30) DEF Stored
  <2> HIDE DEF pg
  <2> QED
    BY <2>3, <2>4, <2>6, <2>7, ZenonT(30) DEF Reads, pg
<1> QED
  BY <1>1, TableInvariant, PTL

\* There an entry of the free list is a slot of a deleted record, and in it once
\* (table_manager.cpp:187-189, 414-432).
THEOREM FreeSlotsAreDeleted == Spec => []FreeSlotsDeleted
<1>1. TInv => FreeSlotsDeleted
  <2> SUFFICES ASSUME TInv, NEW p \in Pages \ spoiled,
                      NEW pg, pg = table.pages[p]
               PROVE  /\ \A i \in DOMAIN pg.freeList :
                            LET c == pg.cell[pg.freeList[i]] IN IsSlot(c) /\ c.isDeleted
                      /\ \A i, j \in DOMAIN pg.freeList :
                            pg.freeList[i] = pg.freeList[j] => i = j
                      /\ \A q \in records : q.page = p => q.slot \notin ToSet(pg.freeList)
    BY DEF FreeSlotsDeleted
  <2>1. Free(pg, On(records, p))
    BY DEF TInv, Good, GoodPage
  <2>2. \A i \in DOMAIN pg.freeList :
          LET c == pg.cell[pg.freeList[i]] IN IsSlot(c) /\ c.isDeleted
    BY <2>1, SlotIsSlot DEF Free
  <2>3. ASSUME NEW q \in records, q.page = p PROVE q.slot \notin ToSet(pg.freeList)
    BY <2>1, <2>3 DEF Free, On, ToSet
  <2> QED
    BY <2>1, <2>2, <2>3 DEF Free
<1> QED
  BY <1>1, TableInvariant, PTL

-----------------------------------------------------------------------------
\* Leaving a page, and refusals.

\* The state property needs the page on which a call left its bounds.
LEMMA InsertIntoInside ==
  ASSUME NEW tb, NEW recs, NEW sp, Good(tb, recs, sp),
         NEW p \in Pages, NEW r \in Records,
         NEW res \in InsertInto(tb, p, r), res.rc = "undefined"
  PROVE  res.table = tb /\ (p \in sp \/ tb.pages[p].deletedCount > 0)
<1> DEFINE pg == tb.pages[p]
<1>1. \E rc \in {"BUFFER_FULL", "undefined"} : res = Failed(tb, rc)
  <2>1. \A t2, s : Done(t2, "OK", p, s).rc # "undefined"
    BY DoneFields
  <2>2. \A i : Reuse(tb, p, r, i).rc # "undefined"
    BY <2>1 DEF Reuse
  <2>3. HasRoom(pg, 1 + r.length) /\ ~(TotalSlots(pg) >= PageSize)
          => Extend(tb, p, r).rc # "undefined"
    BY <2>1 DEF Extend
  <2> HIDE DEF pg
  <2> QED
    BY <2>1, <2>2, <2>3, InsertIntoCases DEF pg
<1>2. res.table = tb /\ res = Failed(tb, "undefined")
  BY <1>1, DoneFields DEF Failed
<1>3. ASSUME p \notin sp, ~(pg.deletedCount > 0) PROVE FALSE
  <2>1. IsPage(pg)
    BY <1>3 DEF Good, GoodPage
  <2>2. ~IsGarbled(pg)
    BY <2>1, NotGarbled
  <2>3. r.length \in Nat \ {0} /\ PageSize \in Nat \ {0}
    BY RecordLength, TableAssumption
  <2> HIDE DEF pg
  <2>4. TotalSlots(pg) = pg.recordCount
    BY <1>3, <2>1 DEF IsPage, TotalSlots
  <2>5. HasRoom(pg, 1 + r.length) => ~(TotalSlots(pg) >= PageSize)
    BY <2>1, <2>3, <2>4 DEF IsPage, HasRoom
  <2>6. \A t2, s : Done(t2, "OK", p, s).rc # "undefined"
    BY DoneFields
  <2>7. Failed(tb, "BUFFER_FULL").rc # "undefined"
    BY DoneFields DEF Failed
  <2>8. Extend(tb, p, r).rc # "undefined"
    BY <2>5, <2>6, <2>7 DEF Extend, pg
  <2>9. \A i : Reuse(tb, p, r, i).rc # "undefined"
    BY <2>6 DEF Reuse
  <2>10. \/ \E i \in FirstReusable(pg, r.length) : res = Reuse(tb, p, r, i)
         \/ res = Extend(tb, p, r)
    BY <2>2 DEF InsertInto, pg
  <2> QED
    BY <2>8, <2>9, <2>10
<1> QED
  BY <1>2, <1>3

LEMMA InsertInside ==
  ASSUME NEW tb, NEW recs, NEW sp, Good(tb, recs, sp),
         NEW r \in Records, NEW faults, NEW res \in Insert(tb, r, faults),
         res.rc = "undefined"
  PROVE  \E p \in Pages : p \in sp \/ res.table.pages[p].deletedCount > 0
<1>1. CASE tb.lastPage # NoPage /\ res \in InsertInto(tb, tb.lastPage, r)
  <2>1. tb.lastPage \in Pages
    BY <1>1, TableAssumption DEF Good, NoPage, Pages
  <2> QED
    BY <1>1, <2>1, InsertIntoInside
<1>2. CASE res \in InsertAfresh(tb, r, faults)
  <2>1. tb.allocated < MaxPages /\ res \in InsertInto(NewPage(tb), tb.allocated, r)
    <3>1. \A t2 : /\ Failed(t2, "FILE_NOT_FOUND").rc # "undefined"
                  /\ Failed(t2, "BUFFER_FULL").rc # "undefined"
      BY DoneFields DEF Failed
    <3> QED
      BY <1>2, <3>1, AfreshCases
  <2>2. Good(NewPage(tb), recs, sp)
    BY <2>1, NewPageKeeps
  <2>3. tb.allocated \in Pages
    BY <2>1, TableAssumption DEF Good, Pages
  <2> QED
    BY <2>1, <2>2, <2>3, InsertIntoInside
<1> QED
  BY <1>1, <1>2, InsertCases

LEMMA DeleteInside ==
  ASSUME TInv, NEW p \in Pages, NEW s \in Cells, NEW faults,
         NEW res \in Delete(table, p, s, faults), res.rc = "undefined"
  PROVE  /\ res.table = table
         /\ p \in spoiled \/ table.pages[p].deletedCount > 0
<1> DEFINE pg == table.pages[p]
           c  == pg.cell[s]
<1>0. ~(s >= PageSize)
  BY TableAssumption DEF Cells
<1>1. /\ \A t2 : Done(t2, "OK", p, s).rc # "undefined"
      /\ \A rc : rc # "undefined" => Failed(table, rc).rc # "undefined"
      /\ Failed(table, "undefined").table = table
  BY DoneFields DEF Failed
<1>2. /\ res = Failed(table, "undefined")
      /\ IsGarbled(pg) \/ (~(s >= TotalSlots(pg)) /\ ~IsInside(c))
  BY <1>0, <1>1 DEF Delete
<1>3. p \notin spoiled => pg.deletedCount > 0
  <2> SUFFICES ASSUME p \notin spoiled, ~(pg.deletedCount > 0) PROVE FALSE
    OBVIOUS
  <2>1. IsPage(pg) /\ Directory(pg)
    BY DEF TInv, Good, GoodPage
  <2>2. pg.deletedCount = 0 /\ pg.recordCount \in Int /\ pg.freeOffset \in 0 .. PageSize
    BY <2>1, TableAssumption DEF IsPage
  <2>3. ~(s >= TotalSlots(pg)) /\ ~IsInside(c)
    BY <1>2, <2>1, NotGarbled
  <2>4. s \in 0 .. pg.recordCount - 1
    BY <2>2, <2>3, TableAssumption DEF TotalSlots, Cells
  <2>5. c \in Slots /\ c.offset + c.length <= pg.freeOffset
    BY <2>1, <2>2, <2>4 DEF Directory
  <2>6. IsSlot(c) /\ c.offset \in Int /\ c.length \in Int
    BY <2>5, SlotIsSlot DEF Slots
  <2>7. ~(c.offset + c.length <= PageSize)
    BY <2>3, <2>6 DEF IsInside, Inside
  <2> HIDE DEF c, pg
  <2> QED
    BY <2>2, <2>5, <2>6, <2>7, TableAssumption
<1> QED
  BY <1>1, <1>2, <1>3

\* The table leaves a page's buffer only after a deletion from some page.
THEOREM InsideUntilDeletion == Spec => []InsideWithoutDeletion
<1>1. Init => InsideWithoutDeletion
  BY DEF Init, InsideWithoutDeletion
<1>2. TInv /\ InsideWithoutDeletion /\ [Next]_vars => InsideWithoutDeletion'
  <2> SUFFICES ASSUME TInv, InsideWithoutDeletion, [Next]_vars PROVE InsideWithoutDeletion'
    OBVIOUS
  <2>1. ASSUME NEW tb, NEW r \in Records, NEW faults, NEW kept, NEW spoilt,
               Good(tb, kept, spoilt), InsertStep(tb, r, faults, kept, spoilt)
        PROVE  InsideWithoutDeletion'
    <3>1. PICK res \in Insert(tb, r, faults) :
            /\ table' = res.table
            /\ undefined' = (res.rc = "undefined")
            /\ spoilt \subseteq spoiled'
      BY <2>1, InsertStepCases
    <3>2. res.rc = "undefined" =>
            \E p \in Pages : p \in spoilt \/ res.table.pages[p].deletedCount > 0
      BY <2>1, InsertInside
    <3> QED
      BY <3>1, <3>2 DEF InsideWithoutDeletion
  <2>2. ASSUME NEW r \in Records, NEW faults, InsertRecord(r, faults)
        PROVE  InsideWithoutDeletion'
    BY <2>1, <2>2 DEF InsertRecord, TInv
  <2>3. ASSUME NEW p \in Pages, NEW s \in Cells, NEW faults, DeleteRecord(p, s, faults)
        PROVE  InsideWithoutDeletion'
    <3>1. PICK res \in Delete(table, p, s, faults) :
            /\ table' = res.table
            /\ undefined' = (res.rc = "undefined")
            /\ spoiled \subseteq spoiled'
      BY <2>3 DEF DeleteRecord
    <3>2. res.rc = "undefined" =>
            res.table = table /\ (p \in spoiled \/ table.pages[p].deletedCount > 0)
      BY DeleteInside
    <3> QED
      BY <3>1, <3>2 DEF InsideWithoutDeletion
  <2>4. ASSUME NEW p \in Pages, NEW s \in Cells, NEW r \in Records, NEW faults,
               UpdateRecord(p, s, r, faults)
        PROVE  InsideWithoutDeletion'
    BY <2>1, <2>4, UpdateCases
  <2>5. ASSUME NEW stop \in table.firstPage .. table.allocated, VacuumTable(stop)
        PROVE  InsideWithoutDeletion'
    <3>1. PICK res \in Vacuum(table, stop) :
            /\ table' = res.table
            /\ undefined' = (res.rc = "undefined")
            /\ table.firstPage # NoPage
            /\ spoiled \subseteq spoiled'
      BY <2>5 DEF VacuumTable
    <3>2. CASE res = Failed(table, "undefined")
                /\ \E p \in table.firstPage .. stop - 1 : Fate(table.pages[p]) # "known"
      <4>1. PICK p \in table.firstPage .. stop - 1 : Fate(table.pages[p]) # "known"
        BY <3>2
      <4>2. p \in Pages
        BY <3>1, TableAssumption DEF TInv, Good, Pages, NoPage
      <4>3. res.table = table
        BY <3>2, DoneFields DEF Failed
      <4>4. p \in spoiled \/ table.pages[p].deletedCount > 0
        <5> SUFFICES ASSUME p \notin spoiled PROVE table.pages[p].deletedCount > 0
          OBVIOUS
        <5>1. IsPage(table.pages[p])
          BY <4>2 DEF TInv, Good, GoodPage
        <5>2. table.pages[p].deletedCount # 0
          BY <4>1, <5>1, NotGarbled DEF Fate
        <5>3. table.pages[p].deletedCount \in Nat
          BY <5>1 DEF IsPage
        <5> QED
          BY <5>2, <5>3
      <4> QED
        BY <3>1, <4>2, <4>3, <4>4 DEF InsideWithoutDeletion
    <3>3. CASE res = Failed([table EXCEPT !.pages = Vacuumed(table, stop)], "BLOCK_NOT_FOUND")
      <4>1. res.rc # "undefined"
        BY <3>3, DoneFields DEF Failed
      <4> QED
        BY <3>1, <4>1 DEF InsideWithoutDeletion
    <3> QED
      BY <3>2, <3>3, VacuumCases
  <2>6. CASE Restart
    BY <2>6 DEF Restart, InsideWithoutDeletion
  <2>7. CASE UNCHANGED vars
    BY <2>7 DEF vars, InsideWithoutDeletion
  <2> QED
    BY <2>2, <2>3, <2>4, <2>5, <2>6, <2>7 DEF Next
<1> QED
  BY <1>1, <1>2, TableInvariant, PTL DEF Spec

LEMMA RefusedInto ==
  ASSUME NEW tb, NEW p, NEW r, NEW res \in InsertInto(tb, p, r),
         NEW pg, pg = tb.pages[p], ~IsGarbled(pg), res.rc = "BUFFER_FULL"
  PROVE  ~HasRoom(pg, 1 + r.length)
<1>1. \A t2, s : Done(t2, "OK", p, s).rc # "BUFFER_FULL"
  BY DoneFields
<1>2. Failed(tb, "undefined").rc # "BUFFER_FULL"
  BY DoneFields DEF Failed
<1>3. HasRoom(pg, 1 + r.length) => Extend(tb, p, r).rc # "BUFFER_FULL"
  BY <1>1, <1>2 DEF Extend
<1>4. \A i : Reuse(tb, p, r, i).rc # "BUFFER_FULL"
  BY <1>1 DEF Reuse
<1>5. \/ \E i \in FirstReusable(pg, r.length) : res = Reuse(tb, p, r, i)
      \/ res = Extend(tb, p, r)
  BY DEF InsertInto
<1> QED
  BY <1>3, <1>4, <1>5

\* Without errors a record is refused only if no page could hold it, or because
\* a free slot that is too short kept the room for a new one from being counted
\* (table_manager.cpp:93-96, 374-378).
THEOREM RefusalsExplained == Spec => []RefusalExplained
<1>1. Init => RefusalExplained
  BY DEF Init, RefusalExplained
<1>2. TInv /\ RefusalExplained /\ [Next]_vars => RefusalExplained'
  <2> SUFFICES ASSUME TInv, RefusalExplained, [Next]_vars PROVE RefusalExplained'
    OBVIOUS
  <2>1. ASSUME NEW tb, NEW r \in Records, NEW faults, NEW kept, NEW spoilt,
               Good(tb, kept, spoilt), InsertStep(tb, r, faults, kept, spoilt)
        PROVE  RefusalExplained'
    <3> DEFINE pg  == tb.pages[tb.lastPage]
               again == FitsLast(tb, r) /\ pg.freeList # <<>>
               refusal == [length |-> r.length, faults |-> faults, reusable |-> again]
    <3>1. r.length \in Nat /\ PageSize \in Nat
      BY RecordLength, TableAssumption
    <3>2. PICK res \in Insert(tb, r, faults) :
            refused' = IF res.rc # "BUFFER_FULL" \/ LastGarbled(tb) THEN NoRefusal ELSE refusal
      BY <2>1, InsertStepCases
    <3>3. ASSUME res.rc = "BUFFER_FULL", ~LastGarbled(tb), faults = {}
          PROVE  r.length + 1 > PageSize \/ again
      <4>1. CASE /\ tb.lastPage # NoPage
                 /\ res \in InsertInto(tb, tb.lastPage, r)
                 /\ ~IsGarbled(pg) => FitsLast(tb, r)
        <5>1. ~IsGarbled(pg)
          BY <3>3, <4>1 DEF LastGarbled
        <5>2. ~HasRoom(pg, 1 + r.length)
          BY <3>3, <4>1, <5>1, RefusedInto
        <5>3. FitsLast(tb, r) /\ pg.freeList # <<>>
          BY <4>1, <5>1, <5>2 DEF FitsLast
        <5> QED
          BY <5>3
      <4>2. CASE res \in InsertAfresh(tb, r, faults)
        <5>1. tb.allocated < MaxPages /\ res \in InsertInto(NewPage(tb), tb.allocated, r)
          <6>1. Failed(tb, "FILE_NOT_FOUND").rc # "BUFFER_FULL"
            BY DoneFields DEF Failed
          <6> QED
            BY <2>1, <3>3, <4>2, <6>1, AfreshCases
        <5>2. NewPage(tb).pages[tb.allocated] = EmptyPage
          BY <2>1, <5>1, NewPageKeeps
        <5>3. ~HasRoom(EmptyPage, 1 + r.length)
          BY <3>3, <5>1, <5>2, EmptyPageFields, RefusedInto
        <5> QED
          BY <3>1, <5>3, EmptyPageFields DEF HasRoom
      <4> QED
        BY <4>1, <4>2, InsertCases
    <3>4. /\ refusal.length = r.length /\ refusal.faults = faults
          /\ refusal.reusable = again
      OBVIOUS
    <3> HIDE DEF refusal, again
    <3> QED
      BY <3>2, <3>3, <3>4 DEF RefusalExplained
  <2>2. ASSUME NEW r \in Records, NEW faults, InsertRecord(r, faults)
        PROVE  RefusalExplained'
    BY <2>1, <2>2 DEF InsertRecord, TInv
  <2>3. ASSUME NEW p \in Pages, NEW s \in Cells, NEW r \in Records, NEW faults,
               UpdateRecord(p, s, r, faults)
        PROVE  RefusalExplained'
    BY <2>1, <2>3, UpdateCases
  <2>4. CASE \/ \E p \in Pages, s \in Cells, faults \in SUBSET (Faults \intersect {"full"}) :
                  DeleteRecord(p, s, faults)
             \/ \E stop \in table.firstPage .. table.allocated : VacuumTable(stop)
             \/ Restart
    BY <2>4 DEF DeleteRecord, VacuumTable, Restart, RefusalExplained
  <2>5. CASE UNCHANGED vars
    BY <2>5 DEF vars, RefusalExplained
  <2> QED
    BY <2>2, <2>3, <2>4, <2>5 DEF Next
<1> QED
  BY <1>1, <1>2, TableInvariant, PTL DEF Spec

-----------------------------------------------------------------------------
\* Types, on every page: also on those that a step has spoilt.

SlotCells == [kind : {"slot"}, offset : Nat, length : 0 .. PageSize, isDeleted : BOOLEAN]
DataCells == [kind : {"data"}, content : Contents, length : Lengths, part : Cells,
              isDeleted : BOOLEAN, altered : BOOLEAN]

LEMMA CellKinds ==
  ASSUME NEW c \in Cell
  PROVE  \/ c \in SlotCells /\ c.kind = "slot"
         \/ c \in DataCells /\ c.kind = "data"
BY DEF Cell, SlotCells, DataCells

LEMMA SlotCell ==
  ASSUME NEW o \in Nat, NEW l \in 0 .. PageSize, NEW d \in BOOLEAN
  PROVE  /\ Slot(o, l, d) \in Cell
         /\ Slot(o, l, d).offset = o
         /\ Slot(o, l, d).length = l
         /\ Slot(o, l, d).isDeleted = d
BY DEF Slot, Cell

LEMMA MarkKnown == \A r : (r.content \in LooksDeleted) \in BOOLEAN
OBVIOUS

LEMMA DataCell ==
  ASSUME NEW r \in Records, NEW k \in Cells
  PROVE  Data(r, k) \in Cell
<1> DEFINE d == r.content \in LooksDeleted
           c == [kind |-> "data", content |-> r.content, length |-> r.length, part |-> k,
                 isDeleted |-> d, altered |-> FALSE]
<1>1. d \in BOOLEAN
  BY MarkKnown
<1>2. Data(r, k) = c
  BY DEF Data
<1> HIDE DEF d
<1>3. c \in Cell
  BY <1>1 DEF Cell, Records
<1> QED
  BY <1>2, <1>3

LEMMA ZerosCell == Zeros \in Cell
<1>1. 0 \in Nat /\ 0 \in 0 .. PageSize /\ FALSE \in BOOLEAN
  BY TableAssumption
<1> QED
  BY <1>1, SlotCell DEF Zeros

\* What is stored into a cell leaves a cell.
LEMMA StoredCell ==
  ASSUME NEW c \in Cell
  PROVE  /\ IsSlot(c) => /\ c.offset \in Nat
                         /\ c.length \in 0 .. PageSize
         /\ Raised(c) \in Cell
         /\ \A o \in Nat : WithOffset(c, o) \in Cell
         /\ Marked(c) \in Cell
<1>1. CASE c \in SlotCells /\ c.kind = "slot"
  <2>1. IsSlot(c) /\ c.offset \in Nat /\ c.length \in 0 .. PageSize
    BY <1>1 DEF IsSlot, SlotCells
  <2>2. \A o \in Nat : [c EXCEPT !.offset = o] \in SlotCells
    BY <1>1 DEF SlotCells
  <2>3. \A d \in BOOLEAN : [c EXCEPT !.isDeleted = d] \in SlotCells
    BY <1>1 DEF SlotCells
  <2>4. SlotCells \subseteq Cell
    BY DEF SlotCells, Cell
  <2>5. c.offset + 1 \in Nat
    BY <2>1
  <2>6. Raised(c) = [c EXCEPT !.offset = c.offset + 1]
    BY <2>1 DEF Raised
  <2>7. \A o \in Nat : WithOffset(c, o) = [c EXCEPT !.offset = o]
    BY <2>1 DEF WithOffset
  <2>8. Marked(c) = [c EXCEPT !.isDeleted = TRUE]
    BY <2>1 DEF Marked
  <2>9. [c EXCEPT !.isDeleted = TRUE] \in SlotCells
    BY <2>3
  <2> QED
    BY <2>1, <2>2, <2>4, <2>5, <2>6, <2>7, <2>8, <2>9
<1>2. CASE c \in DataCells /\ c.kind = "data"
  <2>1. ~IsSlot(c)
    BY <1>2 DEF IsSlot
  <2>2. [c EXCEPT !.altered = TRUE] \in DataCells
    BY <1>2 DEF DataCells
  <2>3. [c EXCEPT !.isDeleted = TRUE, !.altered = TRUE] \in DataCells
    BY <1>2 DEF DataCells
  <2>4. DataCells \subseteq Cell
    BY DEF DataCells, Cell
  <2> QED
    BY <2>1, <2>2, <2>3, <2>4 DEF Raised, WithOffset, Marked
<1> QED
  BY <1>1, <1>2, CellKinds

-----------------------------------------------------------------------------
TypedPage(pg) ==
    /\ pg = Page(pg.freeOffset, pg.recordCount, pg.deletedCount, pg.freeList, pg.cell)
    /\ pg.freeOffset \in Nat
    /\ pg.recordCount \in Nat
    /\ pg.deletedCount \in Nat
    /\ pg.freeList \in Seq(Cells)
    /\ Len(pg.freeList) <= MaxFree
    /\ pg.cell \in [Cells -> Cell]

LEMMA TypedByFields ==
  ASSUME NEW o \in Nat, NEW n \in Nat, NEW d \in Nat,
         NEW f \in Seq(Cells), Len(f) <= MaxFree, NEW c \in [Cells -> Cell]
  PROVE  TypedPage(Page(o, n, d, f, c))
<1> DEFINE pg == Page(o, n, d, f, c)
<1>1. /\ pg.freeOffset = o /\ pg.recordCount = n /\ pg.deletedCount = d
      /\ pg.freeList = f /\ pg.cell = c
  BY PageFields
<1>2. pg = Page(pg.freeOffset, pg.recordCount, pg.deletedCount, pg.freeList, pg.cell)
  BY <1>1
<1> HIDE DEF pg
<1>3. TypedPage(pg)
  BY <1>1, <1>2 DEF TypedPage
<1> QED
  BY <1>3 DEF pg

\* A page is garbled, or typed and not garbled.
PageTyped(pg) == pg = Garbled \/ TypedPage(pg)

LEMMA GarbledFields ==
  /\ IsGarbled(Garbled)
  /\ Garbled.freeOffset = 0 /\ Garbled.recordCount = 0
  /\ Garbled.deletedCount = 0 /\ Garbled.freeList = <<>>
<1>1. Garbled.cell = <<>>
  BY DEF Garbled, EmptyPage
<1>2. DOMAIN <<>> = {}
  OBVIOUS
<1> QED
  BY <1>1, <1>2 DEF IsGarbled, Garbled, EmptyPage

LEMMA TypedIfNotGarbled ==
  ASSUME NEW pg, PageTyped(pg), ~IsGarbled(pg)
  PROVE  TypedPage(pg)
BY GarbledFields DEF PageTyped

LEMMA EmptyTyped == TypedPage(EmptyPage)
<1> DEFINE c == [x \in Cells |-> Zeros]
<1>1. EmptyPage = Page(0, 0, 0, <<>>, c)
  BY DEF EmptyPage, Page
<1>2. c \in [Cells -> Cell]
  BY ZerosCell
<1> HIDE DEF c
<1>3. 0 \in Nat /\ <<>> \in Seq(Cells) /\ Len(<<>>) <= MaxFree
  BY TableAssumption
<1> QED
  BY <1>1, <1>2, <1>3, TypedByFields

\* A record is put where it fits.
LEMMA PutTyped ==
  ASSUME NEW pg, TypedPage(pg), NEW s, NEW r \in Records,
         pg.freeOffset + r.length <= PageSize
  PROVE  TypedPage(Put(pg, s, r))
<1> DEFINE o == pg.freeOffset
           c == PutCells(pg, s, r)
<1>1. o \in Nat /\ r.length \in Nat \ {0} /\ PageSize \in Nat
  BY RecordLength, TableAssumption DEF TypedPage
<1>2. r.length \in 0 .. PageSize /\ o + r.length \in Nat /\ FALSE \in BOOLEAN
  BY <1>1
<1>3. ASSUME NEW x \in Cells
      PROVE  c[x] \in Cell
  <2>1. CASE x \in o .. o + r.length - 1
    <3>1. x - o \in Cells
      BY <1>1, <2>1 DEF Cells
    <3> QED
      BY <2>1, <3>1, DataCell DEF PutCells
  <2>2. CASE x \notin o .. o + r.length - 1 /\ x = s
    <3>1. c[x] = Slot(o, r.length, FALSE)
      BY <2>2 DEF PutCells
    <3>2. Slot(o, r.length, FALSE) \in Cell
      BY <1>1, <1>2, SlotCell
    <3> QED
      BY <3>1, <3>2
  <2>3. CASE x \notin o .. o + r.length - 1 /\ x # s
    <3>1. c[x] = pg.cell[x]
      BY <2>3 DEF PutCells
    <3> QED
      BY <3>1 DEF TypedPage
  <2> QED
    BY <2>1, <2>2, <2>3
<1>4. c \in [Cells -> Cell]
  <2>1. c = [x \in Cells |-> c[x]]
    BY DEF PutCells
  <2> HIDE DEF c
  <2> QED
    BY <1>3, <2>1
<1>5. Put(pg, s, r) = Page(o + r.length, pg.recordCount + 1, pg.deletedCount, pg.freeList, c)
  BY PutFields DEF TypedPage
<1>6. pg.recordCount + 1 \in Nat
  BY DEF TypedPage
<1> HIDE DEF c
<1>7. pg.deletedCount \in Nat /\ pg.freeList \in Seq(Cells) /\ Len(pg.freeList) <= MaxFree
  BY DEF TypedPage
<1> QED
  BY <1>2, <1>4, <1>5, <1>6, <1>7, TypedByFields

\* Cells move up by one, and what is taken for a slot is redirected.
LEMMA MoveUpTyped ==
  ASSUME NEW pg, TypedPage(pg), pg.freeOffset + 1 <= PageSize
  PROVE  TypedPage(MoveUp(pg)) /\ MoveUp(pg).freeOffset = pg.freeOffset + 1
<1> DEFINE o == pg.freeOffset
           t == TotalSlots(pg)
           c == MoveUpCells(pg)
<1>1. o \in Nat /\ PageSize \in Nat /\ t \in Nat
  BY TableAssumption DEF TypedPage, TotalSlots
<1>2. o + 1 \in Nat
  BY <1>1
<1>3. ASSUME NEW x \in Cells
      PROVE  c[x] \in Cell
  <2>1. pg.cell[x] \in Cell
    BY DEF TypedPage
  <2>2. CASE x < t /\ pg.cell[x].isDeleted
    BY <2>1, <2>2 DEF MoveUpCells
  <2>3. CASE x < t /\ ~pg.cell[x].isDeleted
    <3>1. c[x] = Raised(pg.cell[x])
      BY <2>3 DEF MoveUpCells
    <3> QED
      BY <2>1, <3>1, StoredCell
  <2>4. CASE ~(x < t) /\ x \in t + 1 .. o
    <3>1. x - 1 \in Cells
      BY <1>1, <2>4 DEF Cells
    <3>2. c[x] = pg.cell[x - 1]
      BY <2>4 DEF MoveUpCells
    <3> QED
      BY <3>1, <3>2 DEF TypedPage
  <2>5. CASE ~(x < t) /\ x \notin t + 1 .. o
    BY <2>1, <2>5 DEF MoveUpCells
  <2> QED
    BY <2>2, <2>3, <2>4, <2>5
<1>4. c \in [Cells -> Cell]
  <2>1. c = [x \in Cells |-> c[x]]
    BY DEF MoveUpCells
  <2> HIDE DEF c
  <2> QED
    BY <1>3, <2>1
<1>5. MoveUp(pg) = Page(o + 1, pg.recordCount, pg.deletedCount, pg.freeList, c)
  BY MoveUpFields DEF TypedPage
<1> HIDE DEF c
<1>6. TypedPage(MoveUp(pg))
  <2>1. /\ pg.recordCount \in Nat /\ pg.deletedCount \in Nat
        /\ pg.freeList \in Seq(Cells) /\ Len(pg.freeList) <= MaxFree
    BY DEF TypedPage
  <2> QED
    BY <1>2, <1>4, <1>5, <2>1, TypedByFields
<1> QED
  BY <1>5, <1>6, PageFields

LEMMA DeletedTyped ==
  ASSUME NEW pg, TypedPage(pg), NEW s \in Cells
  PROVE  TypedPage(Deleted(pg, s))
<1> DEFINE f == IF Len(pg.freeList) < MaxFree THEN Append(pg.freeList, s) ELSE pg.freeList
           z == Marked(pg.cell[s])
           c == [x \in Cells |-> IF x = s THEN z ELSE pg.cell[x]]
<1>1. z \in Cell
  <2>1. pg.cell[s] \in Cell
    BY DEF TypedPage
  <2> QED
    BY <2>1, StoredCell
<1> HIDE DEF z
<1>2. c \in [Cells -> Cell]
  BY <1>1 DEF TypedPage
<1>3. f \in Seq(Cells) /\ Len(f) <= MaxFree
  <2>1. pg.freeList \in Seq(Cells) /\ Len(pg.freeList) <= MaxFree
    BY DEF TypedPage
  <2> QED
    BY <2>1, TableAssumption
<1>4. pg.cell = [x \in Cells |-> pg.cell[x]]
  BY DEF TypedPage
<1>5. Deleted(pg, s) = Page(pg.freeOffset, pg.recordCount, pg.deletedCount + 1, f, c)
  BY <1>4, DeletedFields DEF TypedPage, z
<1>6. pg.deletedCount + 1 \in Nat
  BY DEF TypedPage
<1> HIDE DEF c, f
<1>7. pg.freeOffset \in Nat /\ pg.recordCount \in Nat
  BY DEF TypedPage
<1> QED
  BY <1>2, <1>3, <1>5, <1>6, <1>7, TypedByFields

\* An entry of the free list is taken.
LEMMA ReuseTyped ==
  ASSUME NEW pg, TypedPage(pg), NEW i \in 1 .. Len(pg.freeList)
  PROVE  LET pg1 == [pg EXCEPT !.freeList = RemoveAt(@, i)]
         IN  TypedPage(pg1) /\ pg1.freeOffset = pg.freeOffset
<1> DEFINE f   == RemoveAt(pg.freeList, i)
           pg1 == [pg EXCEPT !.freeList = f]
<1>1. f \in Seq(Cells) /\ Len(f) <= MaxFree
  <2>1. pg.freeList \in Seq(Cells) /\ Len(pg.freeList) \in Nat /\ Len(pg.freeList) <= MaxFree
    BY DEF TypedPage
  <2>2. f \in Seq(Cells) /\ Len(f) = Len(pg.freeList) - 1
    BY <2>1, Removed
  <2> QED
    BY <2>1, <2>2, TableAssumption
<1> HIDE DEF f
<1>2. pg1 = Page(pg.freeOffset, pg.recordCount, pg.deletedCount, f, pg.cell)
  BY SetList DEF TypedPage
<1> HIDE DEF pg1
<1>3. TypedPage(pg1)
  <2>1. /\ pg.freeOffset \in Nat /\ pg.recordCount \in Nat /\ pg.deletedCount \in Nat
        /\ pg.cell \in [Cells -> Cell]
    BY DEF TypedPage
  <2>2. TypedPage(Page(pg.freeOffset, pg.recordCount, pg.deletedCount, f, pg.cell))
    BY <1>1, <2>1, TypedByFields
  <2> QED
    BY <1>2, <2>2
<1>4. pg1.freeOffset = pg.freeOffset
  BY <1>2, PageFields
<1> QED
  BY <1>3, <1>4 DEF pg1, f

-----------------------------------------------------------------------------
\* vacuum of a page, turn by turn.

Loops == [cell : [Cells -> Cell], freeOffset : Nat, valid : Nat,
          fate : {"known", "outside", "unknown"}]

LEMMA LoopStops ==
  ASSUME NEW acc \in Loops, NEW fate \in {"outside", "unknown"}
  PROVE  [acc EXCEPT !.fate = fate] \in Loops
BY DEF Loops

LEMMA MoveTyped ==
  ASSUME NEW acc \in Loops, NEW i \in Nat
  PROVE  MoveRecord(acc, i) \in Loops
<1> DEFINE s == acc.cell[i]
           o == acc.freeOffset
           moved == [x \in Cells |-> IF x \in o .. o + s.length - 1
                                     THEN acc.cell[s.offset + x - o] ELSE acc.cell[x]]
           new == [moved EXCEPT ![i] = WithOffset(@, o)]
           res == [cell |-> new, freeOffset |-> o + moved[i].length,
                   valid |-> acc.valid + 1, fate |-> "known"]
           go == /\ IsSlot(s)
                 /\ Inside(s.offset, s.length) /\ Inside(o, s.length)
                 /\ IsSlot(moved[i])
<1>1. \/ MoveRecord(acc, i) = acc
      \/ \E fate \in {"outside", "unknown"} : MoveRecord(acc, i) = [acc EXCEPT !.fate = fate]
      \/ MoveRecord(acc, i) = res /\ go /\ ~(i >= PageSize)
  <2> HIDE DEF moved, res, new
  <2> QED
    BY ZenonT(40) DEF MoveRecord, moved, res, new
<1>2. CASE go /\ ~(i >= PageSize)
  <2>1. i \in Cells /\ PageSize \in Nat
    BY <1>2, TableAssumption DEF Cells
  <2>2. acc.cell \in [Cells -> Cell] /\ acc.valid + 1 \in Nat /\ o \in Nat
    BY DEF Loops
  <2>3. s.offset \in Nat /\ s.length \in 0 .. PageSize
    BY <1>2, <2>1, <2>2, StoredCell
  <2>4. Inside(s.offset, s.length)
    BY <1>2
  <2> HIDE DEF s, o
  <2>5. moved \in [Cells -> Cell]
    <3>1. ASSUME NEW x \in Cells
          PROVE  moved[x] \in Cell
      <4>1. CASE x \in o .. o + s.length - 1
        <5>1. s.offset + x - o \in Cells
          BY <2>1, <2>2, <2>3, <2>4, <4>1 DEF Inside, Cells
        <5> QED
          BY <2>2, <4>1, <5>1
      <4>2. CASE x \notin o .. o + s.length - 1
        BY <2>2, <4>2
      <4> QED
        BY <4>1, <4>2
    <3> QED
      BY <3>1
  <2>6. IsSlot(moved[i])
    BY <1>2
  <2> HIDE DEF moved
  <2>7. moved[i].length \in 0 .. PageSize
    BY <2>1, <2>5, <2>6, StoredCell
  <2>8. new \in [Cells -> Cell]
    <3> DEFINE z == WithOffset(moved[i], o)
    <3>1. z \in Cell
      BY <2>1, <2>2, <2>5, StoredCell
    <3>2. new = [moved EXCEPT ![i] = z]
      OBVIOUS
    <3> HIDE DEF z
    <3> QED
      BY <2>5, <3>1, <3>2
  <2>9. o + moved[i].length \in Nat
    BY <2>1, <2>2, <2>7
  <2> HIDE DEF new
  <2> QED
    BY <1>1, <1>2, <2>2, <2>8, <2>9, LoopStops DEF Loops
<1> QED
  BY <1>1, <1>2, LoopStops

\* The turns of the loop from acc0, up to the last one.
IsTurns(f, acc0, last) ==
    f = [n \in 0 .. last |-> IF n = 0 THEN acc0 ELSE MoveRecord(f[n - 1], n - 1)]

LEMMA TurnsExist ==
  ASSUME NEW acc0, NEW last \in Nat
  PROVE  \E f : IsTurns(f, acc0, last)
<1> DEFINE Bad == {m \in 1 .. last : ~ \E f : IsTurns(f, acc0, m)}
<1>1. \E f : IsTurns(f, acc0, 0)
  <2> DEFINE f == [n \in 0 .. 0 |-> acc0]
  <2>1. f = [n \in 0 .. 0 |-> IF n = 0 THEN acc0 ELSE MoveRecord(f[n - 1], n - 1)]
    OBVIOUS
  <2> HIDE DEF f
  <2> QED
    BY <2>1 DEF IsTurns
<1>2. ASSUME NEW m \in Nat, \E f : IsTurns(f, acc0, m)
      PROVE  \E f : IsTurns(f, acc0, m + 1)
  <2>1. PICK f : IsTurns(f, acc0, m)
    BY <1>2
  <2> DEFINE g == [n \in 0 .. m + 1 |->
                    IF n = 0 THEN acc0 ELSE MoveRecord(f[n - 1], n - 1)]
  <2>2. ASSUME NEW n \in 0 .. m
        PROVE  f[n] = g[n]
    <3>1. f[n] = IF n = 0 THEN acc0 ELSE MoveRecord(f[n - 1], n - 1)
      BY <2>1 DEF IsTurns
    <3> QED
      BY <3>1
  <2>3. ASSUME NEW n \in 0 .. m + 1
        PROVE  g[n] = IF n = 0 THEN acc0 ELSE MoveRecord(g[n - 1], n - 1)
    <3>1. CASE n = 0
      BY <3>1
    <3>2. CASE n # 0
      <4>1. n - 1 \in 0 .. m
        BY <3>2
      <4>2. g[n] = MoveRecord(f[n - 1], n - 1)
        BY <3>2
      <4> HIDE DEF g
      <4>3. f[n - 1] = g[n - 1]
        BY <2>2, <4>1
      <4> QED
        BY <3>2, <4>2, <4>3
    <3> QED
      BY <3>1, <3>2
  <2>4. g = [n \in 0 .. m + 1 |-> g[n]]
    OBVIOUS
  <2> HIDE DEF g
  <2>5. g = [n \in 0 .. m + 1 |-> IF n = 0 THEN acc0 ELSE MoveRecord(g[n - 1], n - 1)]
    BY <2>3, <2>4
  <2> QED
    BY <2>5 DEF IsTurns
<1>3. Bad = {}
  <2> SUFFICES ASSUME Bad # {} PROVE FALSE
    OBVIOUS
  <2>1. PICK k \in Bad : \A m \in Bad : k <= m
    BY Least
  <2>2. k \in 1 .. last /\ ~ \E f : IsTurns(f, acc0, k)
    OBVIOUS
  <2>3. k - 1 \in Nat /\ (k - 1) + 1 = k
    BY <2>2
  <2>4. \E f : IsTurns(f, acc0, k - 1)
    <3>1. CASE k = 1
      BY <1>1, <3>1
    <3>2. CASE k # 1
      <4>1. k - 1 \in 1 .. last /\ ~(k <= k - 1)
        BY <2>2, <3>2
      <4> QED
        BY <2>1, <4>1
    <3> QED
      BY <3>1, <3>2
  <2>5. \E f : IsTurns(f, acc0, (k - 1) + 1)
    BY <1>2, <2>3, <2>4
  <2> QED
    BY <2>2, <2>3, <2>5
<1> QED
  BY <1>1, <1>3

\* Of every turn.
LEMMA TurnsTyped ==
  ASSUME NEW f, NEW acc0 \in Loops, NEW last \in Nat, IsTurns(f, acc0, last)
  PROVE  f[last] \in Loops
<1> DEFINE Right(m) == f[m] \in Loops
           Bad == {m \in 1 .. last : ~Right(m)}
<1>1. Right(0)
  BY DEF IsTurns
<1>2. ASSUME NEW m \in 1 .. last, Right(m - 1)
      PROVE  Right(m)
  <2>1. f[m] = MoveRecord(f[m - 1], m - 1)
    BY DEF IsTurns
  <2>2. m - 1 \in Nat
    OBVIOUS
  <2> QED
    BY <1>2, <2>1, <2>2, MoveTyped
<1> HIDE DEF Right
<1>3. Bad = {}
  <2> SUFFICES ASSUME Bad # {} PROVE FALSE
    OBVIOUS
  <2>1. PICK k \in Bad : \A m \in Bad : k <= m
    BY Least
  <2>2. k \in 1 .. last /\ ~Right(k)
    OBVIOUS
  <2>3. Right(k - 1)
    <3>1. CASE k = 1
      BY <1>1, <3>1
    <3>2. CASE k # 1
      <4>1. k - 1 \in 1 .. last /\ ~(k <= k - 1)
        BY <2>2, <3>2
      <4> QED
        BY <2>1, <4>1
    <3> QED
      BY <3>1, <3>2
  <2> QED
    BY <1>2, <2>2, <2>3
<1>4. Right(last)
  BY <1>1, <1>3
<1> QED
  BY <1>4 DEF Right

LEMMA PackedTyped ==
  ASSUME NEW pg, TypedPage(pg)
  PROVE  Packed(pg) \in Loops
<1> DEFINE acc0 == [cell |-> pg.cell, freeOffset |-> pg.recordCount, valid |-> 0,
                    fate |-> "known"]
           t == TotalSlots(pg)
           f == CHOOSE f : f = [n \in 0 .. t |-> IF n = 0 THEN acc0
                                                 ELSE MoveRecord(f[n - 1], n - 1)]
<1>1. Packed(pg) = f[t]
  BY DEF Packed
<1>2. t \in Nat
  BY DEF TypedPage, TotalSlots
<1>3. acc0 \in Loops
  BY DEF TypedPage, Loops
<1> HIDE DEF acc0, t
<1>4. IsTurns(f, acc0, t)
  <2>1. PICK g : IsTurns(g, acc0, t)
    BY <1>2, TurnsExist
  <2>2. f = [n \in 0 .. t |-> IF n = 0 THEN acc0 ELSE MoveRecord(f[n - 1], n - 1)]
    BY <2>1 DEF IsTurns
  <2> HIDE DEF f
  <2> QED
    BY <2>2 DEF IsTurns
<1> HIDE DEF f
<1> QED
  BY <1>1, <1>2, <1>3, <1>4, TurnsTyped

LEMMA VacuumedTyped ==
  ASSUME NEW pg, PageTyped(pg)
  PROVE  PageTyped(VacuumPage(pg))
<1> DEFINE v == Packed(pg)
<1>1. CASE Fate(pg) = "unknown"
  BY <1>1 DEF VacuumPage, PageTyped
<1>2. CASE Fate(pg) # "unknown"
  <2>1. TypedPage(pg)
    BY <1>2, TypedIfNotGarbled DEF Fate
  <2>2. CASE pg.deletedCount = 0
    BY <1>2, <2>1, <2>2 DEF VacuumPage, PageTyped
  <2>3. CASE pg.deletedCount # 0
    <3>1. VacuumPage(pg) = Page(v.freeOffset, v.valid, 0, <<>>, v.cell)
      BY <1>2, <2>3 DEF VacuumPage, Page
    <3>2. v.freeOffset \in Nat /\ v.valid \in Nat /\ v.cell \in [Cells -> Cell]
      BY <2>1, PackedTyped DEF Loops
    <3>3. 0 \in Nat /\ <<>> \in Seq(Cells) /\ Len(<<>>) <= MaxFree
      BY TableAssumption
    <3> HIDE DEF v
    <3> QED
      BY <3>1, <3>2, <3>3, TypedByFields DEF PageTyped
  <2> QED
    BY <2>2, <2>3
<1> QED
  BY <1>1, <1>2

-----------------------------------------------------------------------------
\* The table, its pages typed.

Typed(tb) ==
    /\ \A p \in Pages : PageTyped(tb.pages[p])
    /\ tb.firstPage <= tb.lastPage

LEMMA StoreTyped ==
  ASSUME NEW tb, NEW recs, NEW sp, Good(tb, recs, sp), Typed(tb),
         NEW p \in Pages, NEW pg, TypedPage(pg)
  PROVE  Typed([tb EXCEPT !.pages[p] = pg])
<1> DEFINE tb2 == [tb EXCEPT !.pages[p] = pg]
<1>1. tb2 = Table(Changed(tb.pages, p, pg), tb.allocated, tb.firstPage, tb.lastPage)
  BY StoreFields DEF Good
<1>2. /\ tb2.pages = Changed(tb.pages, p, pg)
      /\ tb2.firstPage = tb.firstPage /\ tb2.lastPage = tb.lastPage
  <2> HIDE DEF tb2
  <2> QED
    BY <1>1, TableFields
<1>3. \A x \in Pages : PageTyped(Changed(tb.pages, p, pg)[x])
  BY DEF Typed, Changed, PageTyped
<1> HIDE DEF tb2
<1>4. Typed(tb2)
  BY <1>2, <1>3 DEF Typed
<1> QED
  BY <1>4 DEF tb2

\* What an insert leaves and returns.
Inserted(res) ==
    /\ Typed(res.table)
    /\ res.page = NoPage \/ res.page \in Pages
    /\ res.rc = "OK" => res.page \in Pages /\ res.slot \in Cells

LEMMA RefusedTyped ==
  ASSUME NEW tb, Typed(tb), NEW rc, rc # "OK"
  PROVE  Inserted(Failed(tb, rc))
<1>1. /\ Failed(tb, rc).table = tb /\ Failed(tb, rc).rc = rc
      /\ Failed(tb, rc).page = NoPage
  BY DoneFields DEF Failed
<1> QED
  BY <1>1 DEF Inserted

LEMMA InsertIntoTyped ==
  ASSUME NEW tb, NEW recs, NEW sp, Good(tb, recs, sp), Typed(tb),
         NEW p \in Pages, NEW r \in Records,
         NEW pg, pg = tb.pages[p],
         ~IsGarbled(pg) /\ pg.freeList # <<>> => HasRoom(pg, r.length),
         NEW res \in InsertInto(tb, p, r)
  PROVE  Inserted(res)
<1> DEFINE t == TotalSlots(pg)
<1>1. ~IsGarbled(pg) => TypedPage(pg)
  BY TypedIfNotGarbled DEF Typed
<1>2. r.length \in Nat \ {0} /\ PageSize \in Nat
  BY RecordLength, TableAssumption
<1>3. CASE \E rc \in {"BUFFER_FULL", "undefined"} : res = Failed(tb, rc)
  BY <1>3, RefusedTyped
<1>4. CASE \E s \in Cells : res = Done(tb, "OK", p, s)
  <2>1. PICK s \in Cells : res = Done(tb, "OK", p, s)
    BY <1>4
  <2>2. res.table = tb /\ res.page = p /\ res.slot = s
    BY <2>1, DoneFields
  <2> QED
    BY <2>2 DEF Inserted
<1>5. CASE ~IsGarbled(pg) /\ \E i \in FirstReusable(pg, r.length) : res = Reuse(tb, p, r, i)
  <2>1. PICK i \in FirstReusable(pg, r.length) : res = Reuse(tb, p, r, i)
    BY <1>5
  <2> DEFINE s   == pg.freeList[i]
             pg1 == [pg EXCEPT !.freeList = RemoveAt(@, i)]
             pg2 == Put(pg1, s, r)
             tb2 == [tb EXCEPT !.pages[p] = pg2]
  <2>2. res = Done(tb2, "OK", p, s)
    BY <2>1 DEF Reuse
  <2>3. i \in 1 .. Len(pg.freeList) /\ pg.freeList \in Seq(Cells) /\ pg.freeList # <<>>
    BY <1>1, <1>5, ReusedEntry DEF TypedPage
  <2>4. s \in Cells
    BY <2>3
  <2>5. TypedPage(pg1) /\ pg1.freeOffset = pg.freeOffset
    BY <1>1, <1>5, <2>3, ReuseTyped
  <2>6. pg1.freeOffset + r.length <= PageSize
    BY <1>5, <2>3, <2>5 DEF HasRoom
  <2> HIDE DEF pg1, s
  <2>7. TypedPage(pg2)
    BY <2>5, <2>6, PutTyped
  <2> HIDE DEF pg2
  <2>8. Typed(tb2)
    BY <2>7, StoreTyped
  <2> HIDE DEF tb2
  <2>9. res.table = tb2 /\ res.page = p /\ res.slot = s
    BY <2>2, DoneFields
  <2> QED
    BY <2>4, <2>8, <2>9 DEF Inserted
<1>6. CASE /\ ~IsGarbled(pg) /\ res = Extend(tb, p, r)
           /\ HasRoom(pg, 1 + r.length) /\ ~(t >= PageSize)
  <2> DEFINE pg1 == MoveUp(pg)
             pg2 == Put(pg1, t, r)
             tb2 == [tb EXCEPT !.pages[p] = pg2]
  <2>1. res = Done(tb2, "OK", p, t)
    BY <1>6 DEF Extend
  <2>2. pg.freeOffset \in Nat /\ t \in Nat
    BY <1>1, <1>6 DEF TypedPage, TotalSlots
  <2>3. /\ pg.freeOffset + 1 <= PageSize
        /\ (pg.freeOffset + 1) + r.length <= PageSize
        /\ t \in Cells
    BY <1>2, <1>6, <2>2 DEF HasRoom, Cells
  <2>4. TypedPage(pg1) /\ pg1.freeOffset = pg.freeOffset + 1
    BY <1>1, <1>6, <2>3, MoveUpTyped
  <2> HIDE DEF pg1, t
  <2>5. TypedPage(pg2)
    BY <2>3, <2>4, PutTyped
  <2> HIDE DEF pg2
  <2>6. Typed(tb2)
    BY <2>5, StoreTyped
  <2> HIDE DEF tb2
  <2>7. res.table = tb2 /\ res.page = p /\ res.slot = t
    BY <2>1, DoneFields
  <2> QED
    BY <2>3, <2>6, <2>7 DEF Inserted
<1> QED
  BY <1>3, <1>4, <1>5, <1>6, InsertIntoCases

LEMMA InsertTyped ==
  ASSUME NEW tb, NEW recs, NEW sp, Good(tb, recs, sp), Typed(tb),
         NEW r \in Records, NEW faults, NEW res \in Insert(tb, r, faults)
  PROVE  Inserted(res)
<1> DEFINE last == tb.lastPage
           pg == tb.pages[last]
<1>1. ASSUME last # NoPage, res \in InsertInto(tb, last, r),
             ~IsGarbled(pg) => FitsLast(tb, r)
      PROVE  Inserted(res)
  <2>1. last \in Pages
    BY <1>1, TableAssumption DEF Good, NoPage, Pages
  <2>2. ~IsGarbled(pg) /\ pg.freeList # <<>> => HasRoom(pg, r.length)
    BY <1>1 DEF FitsLast
  <2> HIDE DEF last
  <2> QED
    BY <1>1, <2>1, <2>2, InsertIntoTyped
<1>2. ASSUME res \in InsertAfresh(tb, r, faults)
      PROVE  Inserted(res)
  <2>1. CASE res = Failed(tb, "FILE_NOT_FOUND")
    BY <2>1, RefusedTyped
  <2>2. CASE res = Failed([tb EXCEPT !.allocated = @ + 1], "BUFFER_FULL")
    <3> DEFINE a == tb.allocated + 1
               tb2 == [tb EXCEPT !.allocated = a]
    <3>1. res = Failed(tb2, "BUFFER_FULL")
      BY <2>2
    <3>2. tb2 = Table(tb.pages, a, tb.firstPage, tb.lastPage)
      BY SetAllocated DEF Good
    <3>3. /\ tb2.pages = tb.pages /\ tb2.firstPage = tb.firstPage
          /\ tb2.lastPage = tb.lastPage
      BY <3>2, TableFields
    <3> HIDE DEF tb2
    <3>4. Typed(tb2)
      BY <3>3 DEF Typed
    <3> QED
      BY <3>1, <3>4, RefusedTyped
  <2>3. CASE /\ tb.allocated < MaxPages
             /\ res \in InsertInto(NewPage(tb), tb.allocated, r)
    <3> DEFINE tb2 == NewPage(tb)
               p   == tb.allocated
               ps  == Changed(tb.pages, p, EmptyPage)
               f   == IF tb.firstPage = NoPage THEN p ELSE tb.firstPage
    <3>1. res \in InsertInto(tb2, p, r)
      BY <2>3
    <3>2. Good(tb2, recs, sp) /\ tb2.pages[p] = EmptyPage
      BY <2>3, NewPageKeeps
    <3>3. p \in Pages /\ f <= p
      BY <2>3, TableAssumption DEF Good, Pages, NoPage
    <3>4. tb2 = Table(ps, p + 1, f, p)
      BY <2>3, NewPageFields
    <3>5. tb2.pages = ps /\ tb2.firstPage = f /\ tb2.lastPage = p
      BY <3>4, TableFields
    <3>6. \A x \in Pages : PageTyped(ps[x])
      BY EmptyTyped DEF Typed, Changed, PageTyped
    <3> HIDE DEF tb2, ps, f
    <3>7. Typed(tb2)
      BY <3>3, <3>5, <3>6 DEF Typed
    <3> HIDE DEF p
    <3> QED
      BY <3>1, <3>2, <3>3, <3>7, EmptyPageFields, InsertIntoTyped
  <2> QED
    BY <1>2, <2>1, <2>2, <2>3, AfreshCases
<1> QED
  BY <1>1, <1>2, InsertCases

\* deleteRecord, and the first half of updateRecord.
LEMMA DeleteTyped ==
  ASSUME TInv, Typed(table), NEW p \in Pages, NEW s \in Cells, NEW faults,
         NEW res \in Delete(table, p, s, faults)
  PROVE  Typed(res.table)
<1> DEFINE pg  == table.pages[p]
           pg2 == Deleted(pg, s)
           tb2 == [table EXCEPT !.pages[p] = pg2]
<1>1. CASE (\E rc : res = Failed(table, rc)) \/ res = Done(table, "OK", p, s)
  <2>1. res.table = table
    BY <1>1, DoneFields DEF Failed
  <2> QED
    BY <2>1
<1>2. CASE ~IsGarbled(pg) /\ res = Done(tb2, "OK", p, s)
  <2>1. TypedPage(pg2)
    BY <1>2, TypedIfNotGarbled, DeletedTyped DEF Typed
  <2> HIDE DEF pg2
  <2>2. Typed(tb2)
    BY <2>1, StoreTyped DEF TInv
  <2> HIDE DEF tb2
  <2> QED
    BY <1>2, <2>2, DoneFields
<1> QED
  BY <1>1, <1>2, DeleteCases

\* vacuum
LEMMA VacuumTyped ==
  ASSUME TInv, Typed(table), NEW stop, NEW res \in Vacuum(table, stop)
  PROVE  Typed(res.table)
<1> DEFINE ps  == Vacuumed(table, stop)
           tb2 == [table EXCEPT !.pages = ps]
<1>1. CASE res = Failed(table, "undefined")
  BY <1>1, DoneFields DEF Failed
<1>2. CASE res = Failed(tb2, "BLOCK_NOT_FOUND")
  <2>1. \A p \in Pages : PageTyped(ps[p])
    BY VacuumedTyped DEF Typed, Vacuumed
  <2>2. tb2.pages = ps /\ tb2.firstPage = table.firstPage /\ tb2.lastPage = table.lastPage
    BY VacuumedFields DEF TInv
  <2> HIDE DEF ps, tb2
  <2>3. Typed(tb2)
    BY <2>1, <2>2 DEF Typed
  <2> QED
    BY <1>2, <2>3, DoneFields DEF Failed
<1> QED
  BY <1>1, <1>2, VacuumCases

LEMMA RestartTyped ==
  ASSUME TInv, Typed(table)
  PROVE  Typed([table EXCEPT !.firstPage = NoPage, !.lastPage = NoPage])
<1> DEFINE t2 == [table EXCEPT !.firstPage = NoPage, !.lastPage = NoPage]
<1>1. t2.pages = table.pages /\ t2.firstPage = NoPage /\ t2.lastPage = NoPage
  <2>1. table = Table(table.pages, table.allocated, table.firstPage, table.lastPage)
    BY DEF TInv, Good
  <2>2. /\ DOMAIN table = {"pages", "allocated", "firstPage", "lastPage"}
    BY <2>1 DEF Table
  <2> QED
    BY <2>2
<1>2. NoPage <= NoPage
  BY DEF NoPage
<1> HIDE DEF t2
<1>3. Typed(t2)
  BY <1>1, <1>2 DEF Typed
<1> QED
  BY <1>3 DEF t2

-----------------------------------------------------------------------------
\* Types, all together.

TypedRecords(recs) ==
    \A q \in recs : q.page \in Pages /\ q.slot \in Cells /\ q.record \in Records

TypeInv ==
    /\ Typed(table)
    /\ undefined \in BOOLEAN
    /\ TypedRecords(records)
    /\ spoiled \subseteq Pages

LEMMA InitTyped == Init => TypeInv
<1> SUFFICES ASSUME Init PROVE TypeInv
  OBVIOUS
<1>1. \A p \in Pages : table.pages[p] = EmptyPage
  BY DEF Init
<1>2. table.firstPage = NoPage /\ table.lastPage = NoPage /\ NoPage <= NoPage
  BY DEF Init, NoPage
<1>3. undefined \in BOOLEAN /\ records = {} /\ spoiled = {}
  BY DEF Init
<1> QED
  BY <1>1, <1>2, <1>3, EmptyTyped DEF TypeInv, Typed, TypedRecords, PageTyped

LEMMA WithoutTyped ==
  ASSUME TypedRecords(records), NEW p, NEW s
  PROVE  TypedRecords(Without(p, s))
BY DEF TypedRecords, Without

LEMMA FollowedTyped ==
  ASSUME NEW recs, TypedRecords(recs), NEW tb
  PROVE  TypedRecords(Followed(recs, tb))
BY DEF TypedRecords, Followed

LEMMA InsertStepTyped ==
  ASSUME NEW tb, NEW r \in Records, NEW faults, NEW kept, NEW spoilt \in SUBSET Pages,
         Good(tb, kept, spoilt), Typed(tb), TypedRecords(kept),
         InsertStep(tb, r, faults, kept, spoilt)
  PROVE  TypeInv'
<1>1. PICK res \in Insert(tb, r, faults) :
        /\ table' = res.table
        /\ undefined' = (res.rc = "undefined")
        /\ records' = IF res.rc = "OK"
                      THEN Followed(WithInserted(kept, res, r), res.table)
                      ELSE WithInserted(kept, res, r)
        /\ spoiled' = spoilt \union SpoilsInsert(tb, res)
  BY InsertStepCases
<1>2. Inserted(res)
  BY InsertTyped
<1> DEFINE q == [page |-> res.page, slot |-> res.slot, record |-> r]
<1>3. q.page = res.page /\ q.slot = res.slot /\ q.record = r
  OBVIOUS
<1>4. WithInserted(kept, res, r) = IF res.rc = "OK" THEN kept \union {q} ELSE kept
  BY DEF WithInserted
<1> HIDE DEF q
<1>5. TypedRecords(WithInserted(kept, res, r))
  BY <1>2, <1>3, <1>4 DEF TypedRecords, Inserted
<1>6. TypedRecords(records')
  BY <1>1, <1>5, FollowedTyped
<1>7. spoiled' \subseteq Pages
  BY <1>1, <1>2 DEF SpoilsInsert, Inserted
<1>8. undefined' \in BOOLEAN
  BY <1>1
<1>9. Typed(table')
  BY <1>1, <1>2 DEF Inserted
<1> QED
  BY <1>6, <1>7, <1>8, <1>9 DEF TypeInv

LEMMA StepTyped == TInv /\ TypeInv /\ [Next]_vars => TypeInv'
<1> SUFFICES ASSUME TInv, TypeInv, [Next]_vars PROVE TypeInv'
  OBVIOUS
<1>1. Typed(table) /\ TypedRecords(records) /\ spoiled \subseteq Pages
  BY DEF TypeInv
<1>2. ASSUME NEW r \in Records, NEW faults, InsertRecord(r, faults) PROVE TypeInv'
  BY <1>1, <1>2, InsertStepTyped DEF InsertRecord, TInv
<1>3. ASSUME NEW p \in Pages, NEW s \in Cells, NEW faults, DeleteRecord(p, s, faults)
      PROVE  TypeInv'
  <2>1. PICK res \in Delete(table, p, s, faults) :
          /\ table' = res.table
          /\ undefined' = (res.rc = "undefined")
          /\ records' = IF res.rc = "OK" THEN Without(p, s) ELSE records
          /\ spoiled' = spoiled \union SpoilsSlot(p, s, res.rc)
    BY <1>3 DEF DeleteRecord
  <2>2. Typed(table')
    BY <1>1, <2>1, DeleteTyped
  <2>3. TypedRecords(records')
    BY <1>1, <2>1, WithoutTyped
  <2>4. spoiled' \subseteq Pages
    BY <1>1, <2>1 DEF SpoilsSlot
  <2>5. undefined' \in BOOLEAN
    BY <2>1
  <2> QED
    BY <2>2, <2>3, <2>4, <2>5 DEF TypeInv
<1>4. ASSUME NEW p \in Pages, NEW s \in Cells, NEW r \in Records, NEW faults,
             UpdateRecord(p, s, r, faults)
      PROVE  TypeInv'
  <2> DEFINE sp == spoiled \union SpoilsSlot(p, s, "OK")
  <2>1. PICK res \in Delete(table, p, s, {}) :
          /\ InsertStep(res.table, r, faults, Without(p, s), sp)
          /\ Good(res.table, Without(p, s), sp)
    BY <1>4, UpdateCases
  <2>2. Typed(res.table)
    BY <1>1, DeleteTyped
  <2>3. TypedRecords(Without(p, s))
    BY <1>1, WithoutTyped
  <2>4. sp \in SUBSET Pages
    BY <1>1 DEF SpoilsSlot
  <2> HIDE DEF sp
  <2> QED
    BY <2>1, <2>2, <2>3, <2>4, InsertStepTyped
<1>5. ASSUME NEW stop, VacuumTable(stop) PROVE TypeInv'
  <2>1. PICK res \in Vacuum(table, stop) :
          /\ table' = res.table
          /\ undefined' = (res.rc = "undefined")
          /\ records' = Followed(records, res.table)
          /\ spoiled' = spoiled \union SpoilsVacuum(table, res.table)
    BY <1>5 DEF VacuumTable
  <2>2. Typed(table')
    BY <1>1, <2>1, VacuumTyped
  <2>3. TypedRecords(records')
    BY <1>1, <2>1, FollowedTyped
  <2>4. spoiled' \subseteq Pages
    BY <1>1, <2>1 DEF SpoilsVacuum
  <2>5. undefined' \in BOOLEAN
    BY <2>1
  <2> QED
    BY <2>2, <2>3, <2>4, <2>5 DEF TypeInv
<1>6. CASE Restart
  <2>1. /\ table' = [table EXCEPT !.firstPage = NoPage, !.lastPage = NoPage]
        /\ undefined' = undefined /\ records' = records /\ spoiled' = spoiled
    BY <1>6 DEF Restart
  <2> QED
    BY <1>1, <2>1, RestartTyped DEF TypeInv
<1>7. CASE UNCHANGED vars
  BY <1>7 DEF vars, TypeInv
<1> QED
  BY <1>2, <1>3, <1>4, <1>5, <1>6, <1>7 DEF Next

\* A free list is as long as its page's header has room for.
LEMMA ShortList ==
  ASSUME NEW f \in Seq(Cells), Len(f) <= MaxFree
  PROVE  f \in SeqOf(Cells, MaxFree)
<1>1. Len(f) \in 0 .. MaxFree
  BY TableAssumption
<1>2. f \in [1 .. Len(f) -> Cells]
  OBVIOUS
<1> QED
  BY <1>1, <1>2 DEF SeqOf

LEMMA TypeInvIsTypeOK == TInv /\ TypeInv => TypeOK
<1> SUFFICES ASSUME TInv, TypeInv PROVE TypeOK
  OBVIOUS
<1>1. /\ table.allocated \in 0 .. MaxPages
      /\ table.firstPage \in -1 .. table.allocated - 1
      /\ table.lastPage \in table.firstPage .. table.allocated - 1
  BY DEF TInv, Good, TypeInv, Typed
<1>2. ASSUME NEW p \in Pages, NEW pg, pg = table.pages[p]
      PROVE  /\ pg.freeOffset \in Nat
             /\ pg.recordCount \in Nat /\ pg.deletedCount \in Nat
             /\ pg.freeList \in SeqOf(Cells, MaxFree)
             /\ IsGarbled(pg) \/ pg.cell \in [Cells -> Cell]
  <2>1. CASE pg = Garbled
    <3>1. 0 \in Nat /\ <<>> \in Seq(Cells) /\ Len(<<>>) <= MaxFree
      BY TableAssumption
    <3> QED
      BY <2>1, <3>1, GarbledFields, ShortList
  <2>2. CASE TypedPage(pg)
    BY <2>2, ShortList DEF TypedPage
  <2> QED
    BY <1>2, <2>1, <2>2 DEF TypeInv, Typed, PageTyped
<1>3. ASSUME NEW p \in Pages, NEW pg, pg = table.pages[p], p \notin spoiled
      PROVE  /\ pg.freeOffset <= PageSize
             /\ pg.recordCount <= pg.freeOffset
             /\ ~IsGarbled(pg)
  <2>1. IsPage(pg)
    BY <1>3 DEF TInv, Good, GoodPage
  <2> QED
    BY <2>1, NotGarbled, TableAssumption DEF IsPage
<1> QED
  BY <1>1, <1>2, <1>3 DEF TypeOK, TypeInv, TypedRecords

\* On a page whose slots are what the code takes them for, the header counts and
\* points at what is within the page; on any page, also on a spoilt one whose
\* freeOffset has left the page, free lists hold cells of the page and have room, and
\* the cells are slots or data or, once vacuum has moved bytes by numbers it did not
\* know, garbled; the dictionary's page numbers are of allocated pages
\* (table_manager.cpp:84-112, 199-204, 316-340).
THEOREM TableTypes == Spec => []TypeOK
<1>1. Init => TInv /\ TypeInv
  BY InitTable, InitTyped
<1>2. TInv /\ TypeInv /\ [Next]_vars => (TInv /\ TypeInv)'
  BY StepTable, StepTyped
<1>3. TInv /\ TypeInv => TypeOK
  BY TypeInvIsTypeOK
<1> QED
  BY <1>1, <1>2, <1>3, PTL DEF Spec

=============================================================================
