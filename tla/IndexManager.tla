---------------------------- MODULE IndexManager ----------------------------
(***************************************************************************)
(* The index manager (src/src/index_manager.cpp): one B+ tree in the pages *)
(* of one file, and the dictionary's copy of where its root is.  A leaf    *)
(* entry is a record (its key and where it is), an entry of an internal    *)
(* node a key and the child to the right of it.                            *)
(*                                                                         *)
(* createIndex, onRecordInserted and onRecordDeleted change the index      *)
(* between two returns to the caller, so each is one step; the functions   *)
(* they call are operators from an index to an index.  Return codes are    *)
(* left out: every caller ignores them.  A call comes with `call': the     *)
(* caller's copy of the index's root and height, and how many pages the    *)
(* file has when allocBlock begins to fail.  getPage is not refused.       *)
(*                                                                         *)
(* Pins are counted where a function releases by another page's header     *)
(* (lines 699, 732, 862, 893); elsewhere a page is released by the number  *)
(* by which it was pinned, and nothing is left.                            *)
(*                                                                         *)
(* Bounds: MaxPages pages, MaxFailures failed allocations.  Behaviours end *)
(* when a node has more entries than its page has room for.                *)
(***************************************************************************)
EXTENDS Integers, Sequences, SequencesExt, FiniteSets

CONSTANTS
    Records,      \* what the table may hold: records [key, rid]
    Unique,       \* the index is a unique one
    MaxKeys,      \* calcMaxKeys: the entries of a node
    MaxPages,
    MaxFailures,
    CreateWith    \* how many records the table may have when the index is created

\* Pages are numbered from 1, so that the file's nodes are a sequence.
NoPage == 0

ASSUME IndexAssumption ==
    /\ \A r \in Records : r.key \in Int /\ r.rid \in Int
    /\ Unique \in BOOLEAN
    /\ MaxKeys \in Nat \ {0}
    /\ MaxPages \in Nat \ {0}
    /\ MaxFailures \in Nat
    /\ CreateWith \subseteq Nat

VARIABLES
    index,    \* the file's pages, their pins, and the dictionary's entry
    records,  \* the records of the table
    \* The following only observes.
    failures  \* allocations that failed

vars == <<index, records, failures>>

-----------------------------------------------------------------------------
\* initNewIndexRoot: the header of a page without entries.
EmptyNode(kind) ==
    [kind |-> kind, prev |-> NoPage, next |-> NoPage, parent |-> NoPage,
     leftMost |-> NoPage, entries |-> <<>>]

Size(ix) == Len(ix.node)

\* allocBlock fails once the file has call.limit pages.
CanAlloc(ix, call) == Size(ix) < call.limit

\* The next block of the file is made a node of the tree.
NewPage(ix) == Size(ix) + 1
AddPage(ix, nd) ==
    [ix EXCEPT !.node = Append(@, nd), !.pins = Append(@, 0)]

\* updateIndexInfo
UpdateIndexInfo(ix, root, height) == [ix EXCEPT !.info = [root |-> root, height |-> height]]

AtLeastOne(n) == IF n < 1 THEN 1 ELSE n

MinKeys == (MaxKeys + 1) \div 2

\* Mutant: a full node takes one more entry.
HasRoom_Full(nd) == Len(nd.entries) <= MaxKeys

HasRoom(nd) == Len(nd.entries) < MaxKeys

\* A sibling has an entry to give.
Lends(nd, kind) == nd.kind = kind /\ Len(nd.entries) > MinKeys

\* Mutant: a node is too small one entry later.
Underfull_Late(nd) == Len(nd.entries) + 1 < MinKeys

Underfull(nd) == Len(nd.entries) < MinKeys

\* The first entry with a greater key, or the place after the last.
Upper(entries, key) ==
    LET i == SelectInSeq(entries, LAMBDA e : key < e.key)
    IN  IF i = 0 THEN Len(entries) + 1 ELSE i

\* getChildAt, children counted from 0
ChildAt(nd, i) ==
    IF i = 0 THEN nd.leftMost
    ELSE IF i <= Len(nd.entries) THEN nd.entries[i].child ELSE NoPage

\* findChildIndex
FindChildIndex(nd, page) ==
    LET i == SelectInSeq(nd.entries, LAMBDA e : e.child = page)
    IN  IF nd.leftMost = page THEN 0 ELSE IF i = 0 THEN -1 ELSE i

\* findLeaf, from the caller's root
FindLeafFrom(ix, root, key) ==
    LET leaf[page \in DOMAIN ix.node] ==
            LET nd == ix.node[page]
            IN  IF nd.kind = "leaf" THEN page
                ELSE IF nd.entries = <<>> THEN NoPage
                ELSE leaf[ChildAt(nd, Upper(nd.entries, key) - 1)]
    IN  leaf[root]

FindLeaf(ix, call, key) ==
    IF call.info.root = NoPage THEN NoPage ELSE FindLeafFrom(ix, call.info.root, key)

\* Mutant: nothing is done.
SetChildrenParent_Nothing(ix, children, parent) == ix

\* setChildrenParent
SetChildrenParent(ix, children, parent) ==
    LET told[n \in 0 .. Len(children)] ==
            IF n = 0 THEN ix ELSE [told[n - 1] EXCEPT !.node[children[n]].parent = parent]
    IN  told[Len(children)]

ChildrenOf(entries) == [i \in DOMAIN entries |-> entries[i].child]

-----------------------------------------------------------------------------
\* insertIntoParent and splitInternalAndInsert call each other, each time one level
\* up: `right' is a new node to the right of `left', and key is between them.
GoesUp(ix, left, key, right) ==
    [index |-> ix, left |-> left, key |-> key, right |-> right, ended |-> FALSE]
Ended(ix) == [index |-> ix, left |-> NoPage, key |-> 0, right |-> NoPage, ended |-> TRUE]

NewRoot(ix, call, left, key, right) ==
    LET root == [EmptyNode("internal") EXCEPT
                    !.leftMost = left, !.entries = <<[key |-> key, child |-> right]>>]
    IN  UpdateIndexInfo(SetChildrenParent(AddPage(ix, root), <<left, right>>, NewPage(ix)),
                        NewPage(ix), AtLeastOne(call.info.height) + 1)

\* splitInternalAndInsert: the middle entry goes up, its child is the left-most
\* of the new node.  The new node's parent is not set here.
SplitInternalAndInsert(ix, call, page, key, right) ==
    LET nd  == ix.node[page]
        all == InsertAt(nd.entries, Upper(nd.entries, key), [key |-> key, child |-> right])
        mid == Len(all) \div 2
        new == [EmptyNode("internal") EXCEPT
                    !.leftMost = all[mid + 1].child,
                    !.entries  = SubSeq(all, mid + 2, Len(all))]
        cut == [AddPage(ix, new) EXCEPT !.node[page].entries = SubSeq(all, 1, mid)]
    IN  IF ~CanAlloc(ix, call) THEN Ended(ix)
        ELSE GoesUp(SetChildrenParent(cut, ChildrenOf(SubSeq(all, mid + 1, Len(all))), NewPage(ix)),
                    page, all[mid + 1].key, NewPage(ix))

\* insertIntoParent at one level: the parent of `left' gets (key, right), or there is
\* a new root.
AtParent(ix, call, left, key, right) ==
    LET parent == ix.node[left].parent
        nd     == ix.node[parent]
        at     == FindChildIndex(nd, left)
        place  == IF at < 0 THEN 0 ELSE at
    IN  IF parent = NoPage
        THEN Ended(IF CanAlloc(ix, call) THEN NewRoot(ix, call, left, key, right) ELSE ix)
        ELSE IF HasRoom(nd)
        THEN Ended([ix EXCEPT
                !.node[parent].entries = InsertAt(@, place + 1, [key |-> key, child |-> right]),
                !.node[right].parent = parent])
        ELSE SplitInternalAndInsert(ix, call, parent, key, right)

\* insertIntoParent, level by level (of which there are no more than pages).
InsertIntoParent(ix, call, left, key, right) ==
    LET level[n \in 0 .. Size(ix)] ==
            IF n = 0 THEN GoesUp(ix, left, key, right)
            ELSE LET l == level[n - 1]
                 IN  IF l.ended THEN l ELSE AtParent(l.index, call, l.left, l.key, l.right)
    IN  level[Size(ix)].index

\* splitLeafAndInsert: the old right neighbour keeps its `prev'.
SplitLeafAndInsert(ix, call, page, r) ==
    LET nd  == ix.node[page]
        all == InsertAt(nd.entries, Upper(nd.entries, r.key), r)
        mid == Len(all) \div 2
        new == [EmptyNode("leaf") EXCEPT
                    !.entries = SubSeq(all, mid + 1, Len(all)),
                    !.prev = page, !.next = nd.next, !.parent = nd.parent]
        cut == [AddPage(ix, new) EXCEPT
                    !.node[page].entries = SubSeq(all, 1, mid),
                    !.node[page].next = NewPage(ix)]
    IN  IF ~CanAlloc(ix, call) THEN ix
        ELSE InsertIntoParent(cut, call, page, all[mid + 1].key, NewPage(ix))

\* Mutant: uniqueness is not looked at.
Rejects_Never(nd, r) == FALSE

\* A unique index has the key in the leaf where the key belongs.
Rejects(nd, r) == Unique /\ \E i \in DOMAIN nd.entries : nd.entries[i].key = r.key

\* insertKey
InsertKey(ix, call, r) ==
    LET page == FindLeaf(ix, call, r.key)
        nd   == ix.node[page]
    IN  IF page = NoPage \/ Rejects(nd, r) THEN ix
        ELSE IF HasRoom(nd)
        THEN [ix EXCEPT !.node[page].entries = InsertAt(@, Upper(@, r.key), r)]
        ELSE SplitLeafAndInsert(ix, call, page, r)

-----------------------------------------------------------------------------
\* getPage and releasePage on a page of the index.
Pin(ix, page) == [ix EXCEPT !.pins[page] = @ + 1]
Release(ix, page) ==
    IF page # NoPage /\ ix.pins[page] > 0 THEN [ix EXCEPT !.pins[page] = @ - 1] ELSE ix

\* shrinkRootIfNeeded
ShrinkRootIfNeeded(ix, call, page) ==
    LET nd == ix.node[page]
    IN  IF nd.kind = "internal" /\ nd.entries = <<>> /\ nd.leftMost # NoPage
        THEN UpdateIndexInfo([ix EXCEPT !.node[nd.leftMost].parent = NoPage],
                             nd.leftMost, AtLeastOne(call.info.height - 1))
        ELSE ix

\* The last entry of the left sibling becomes the first one of leaf `page'.
BorrowLeft(ix, page, left, parent, k) ==
    LET give == ix.node[left].entries
        e    == Last(give)
    IN  [ix EXCEPT !.node[page].entries = <<e>> \o @,
                   !.node[left].entries = Front(give),
                   !.node[parent].entries[k].key = e.key]

\* Mutant: the parent gets the key that moved.
BorrowRight_OldKey(ix, page, right, parent, k) ==
    LET e == Head(ix.node[right].entries)
    IN  [ix EXCEPT !.node[page].entries = Append(@, e),
                   !.node[right].entries = Tail(ix.node[right].entries),
                   !.node[parent].entries[k].key = e.key]

\* The first entry of the right sibling becomes the last one of leaf `page'.
BorrowRight(ix, page, right, parent, k) ==
    LET rest == Tail(ix.node[right].entries)
    IN  [ix EXCEPT !.node[page].entries = Append(@, Head(ix.node[right].entries)),
                   !.node[right].entries = rest,
                   !.node[parent].entries[k].key = IF rest = <<>> THEN @ ELSE Head(rest).key]

\* Mutant: the chain still leads to the page that was absorbed.
Absorb_KeepNext(ix, page, right) ==
    [ix EXCEPT !.node[page].entries = @ \o ix.node[right].entries]

\* Leaf `page' absorbs the one to its right.
Absorb(ix, page, right) ==
    LET next == ix.node[right].next
        new  == [ix EXCEPT !.node[page].entries = @ \o ix.node[right].entries,
                           !.node[page].next = next]
    IN  IF next = NoPage THEN new ELSE [new EXCEPT !.node[next].prev = page]

\* An entry goes through the parent from the left sibling to internal node `page'.
BorrowInternalLeft(ix, page, left, parent, k) ==
    LET give == ix.node[left].entries
        e    == Last(give)
        sep  == ix.node[parent].entries[k].key
        new  == [ix EXCEPT
                    !.node[page].entries = <<[key |-> sep, child |-> ix.node[page].leftMost]>> \o @,
                    !.node[page].leftMost = e.child,
                    !.node[left].entries = Front(give),
                    !.node[parent].entries[k].key = e.key]
    IN  SetChildrenParent(new, <<e.child>>, page)

BorrowInternalRight(ix, page, right, parent, k) ==
    LET give  == ix.node[right].entries
        e     == Head(give)
        sep   == ix.node[parent].entries[k].key
        moved == ix.node[right].leftMost
        new   == [ix EXCEPT
                     !.node[page].entries = Append(@, [key |-> sep, child |-> moved]),
                     !.node[right].leftMost = e.child,
                     !.node[right].entries = Tail(give),
                     !.node[parent].entries[k].key = e.key]
    IN  SetChildrenParent(new, <<moved>>, page)

\* Mutant: the key between them comes with the node to the right itself.
AbsorbInternal_Child(ix, page, right, parent, k) ==
    LET nd    == ix.node[right]
        moved == <<[key |-> ix.node[parent].entries[k].key, child |-> right]>> \o nd.entries
    IN  SetChildrenParent([ix EXCEPT !.node[page].entries = @ \o moved], ChildrenOf(moved), page)

\* Internal node `page' absorbs the one to its right and the key between them.
AbsorbInternal(ix, page, right, parent, k) ==
    LET nd    == ix.node[right]
        moved == <<[key |-> ix.node[parent].entries[k].key, child |-> nd.leftMost]>> \o nd.entries
    IN  SetChildrenParent([ix EXCEPT !.node[page].entries = @ \o moved], ChildrenOf(moved), page)

\* removeParentEntryAt and rebalanceInternalAfterDelete call each other, each time one
\* level up: entry k of `page' is to go, and on the way back the parents that were pinned
\* are released by what the headers of the pages `by' say then.
Removes(ix, page, k, by) == [index |-> ix, page |-> page, k |-> k, by |-> by]
Ends(ix) == Removes(ix, NoPage, 0, <<>>)

\* rebalanceInternalAfterDelete.  The parent is released by the header of the
\* left sibling, or of the parent itself.
RebalanceInternal(ix, call, page) ==
    LET nd     == ix.node[page]
        parent == nd.parent
        ph     == ix.node[parent]
        i      == FindChildIndex(ph, page)
        left   == IF i > 0 THEN ChildAt(ph, i - 1) ELSE NoPage
        right  == IF i + 1 <= Len(ph.entries) THEN ChildAt(ph, i + 1) ELSE NoPage
        held   == Pin(ix, parent)
    IN  IF parent = NoPage THEN Ends(ShrinkRootIfNeeded(ix, call, page))
        ELSE IF ~Underfull(nd) \/ i < 0 THEN Ends(ix)
        ELSE IF left # NoPage /\ Lends(ix.node[left], "internal")
        THEN Ends(BorrowInternalLeft(ix, page, left, parent, i))
        ELSE IF right # NoPage /\ Lends(ix.node[right], "internal")
        THEN Ends(BorrowInternalRight(ix, page, right, parent, i + 1))
        ELSE IF left # NoPage /\ ix.node[left].kind = "internal"
        THEN Removes(AbsorbInternal(held, left, page, parent, i), parent, i, <<left>>)
        ELSE IF right # NoPage /\ ix.node[right].kind = "internal"
        THEN Removes(AbsorbInternal(held, page, right, parent, i + 1), parent, i + 1, <<parent>>)
        ELSE Ends(ix)

\* removeParentEntryAt at one level: entry k of an internal node goes, and the node may
\* be too small, or a root without entries.
RemoveEntry(ix, call, page, k) ==
    LET new == [ix EXCEPT !.node[page].entries = RemoveAt(@, k)]
    IN  IF ix.node[page].parent = NoPage THEN Ends(ShrinkRootIfNeeded(new, call, page))
        ELSE IF Underfull(new.node[page]) THEN RebalanceInternal(new, call, page)
        ELSE Ends(new)

ReleasedBy(ix, by) ==
    LET back[n \in 0 .. Len(by)] ==
            IF n = 0 THEN ix ELSE Release(back[n - 1], back[n - 1].node[by[n]].parent)
    IN  back[Len(by)]

\* removeParentEntryAt, level by level and back.
RemoveParentEntryAt(ix, call, page, k) ==
    LET level[n \in 0 .. Size(ix)] ==
            IF n = 0 THEN Removes(ix, page, k, <<>>)
            ELSE LET l == level[n - 1]
                     m == RemoveEntry(l.index, call, l.page, l.k)
                 IN  IF l.page = NoPage THEN l ELSE [m EXCEPT !.by = @ \o l.by]
        top == level[Size(ix)]
    IN  ReleasedBy(top.index, top.by)

\* Mutant: the parent is not released.
Merge_NoRelease(ix, call, page, right, parent, k) ==
    RemoveParentEntryAt(Pin(Absorb(ix, page, right), parent), call, parent, k)

\* The parent is released by what the remaining leaf's header says it is by then.
Merge(ix, call, page, right, parent, k) ==
    LET new == RemoveParentEntryAt(Pin(Absorb(ix, page, right), parent), call, parent, k)
    IN  Release(new, new.node[page].parent)

\* rebalanceAfterDelete
RebalanceAfterDelete(ix, call, page) ==
    LET nd     == ix.node[page]
        parent == nd.parent
        ph     == ix.node[parent]
        i      == FindChildIndex(ph, page)
        left   == IF i > 0 THEN ChildAt(ph, i - 1) ELSE NoPage
        right  == IF i + 1 <= Len(ph.entries) THEN ChildAt(ph, i + 1) ELSE NoPage
    IN  IF parent = NoPage \/ ~Underfull(nd) \/ i < 0 THEN ix
        ELSE IF left # NoPage /\ Lends(ix.node[left], "leaf")
        THEN BorrowLeft(ix, page, left, parent, i)
        ELSE IF right # NoPage /\ Lends(ix.node[right], "leaf")
        THEN BorrowRight(ix, page, right, parent, i + 1)
        ELSE IF left # NoPage /\ ix.node[left].kind = "leaf"
        THEN Merge(ix, call, left, page, parent, i)
        ELSE IF right # NoPage /\ ix.node[right].kind = "leaf"
        THEN Merge(ix, call, page, right, parent, i + 1)
        ELSE ix

\* deleteKey: the entry is looked for in one leaf.
DeleteKey(ix, call, r) ==
    LET page == FindLeaf(ix, call, r.key)
        k    == SelectInSeq(ix.node[page].entries, LAMBDA e : e = r)
    IN  IF page = NoPage \/ k = 0 THEN ix
        ELSE RebalanceAfterDelete([ix EXCEPT !.node[page].entries = RemoveAt(@, k)], call, page)

-----------------------------------------------------------------------------
NoIndex == [created |-> FALSE, node |-> <<>>, pins |-> <<>>,
            info |-> [root |-> NoPage, height |-> 0]]

\* A call with the dictionary's current root, in which n allocations succeed.
Call(n) == [info |-> index.info, limit |-> Size(index) + n]

\* No allocation fails: those the bound allows, and one beyond it.
Unlimited == [info |-> index.info, limit |-> MaxPages + 1]

Sound(ix) == \A p \in DOMAIN ix.node : Len(ix.node[p].entries) <= MaxKeys

\* The records of the table in the order of their places.
Scans ==
    {scan \in [1 .. Cardinality(records) -> records] :
        \A i, j \in DOMAIN scan : i < j => scan[i].rid < scan[j].rid}

\* createIndex: the records are inserted as the scan finds them, always
\* from the first root; the dictionary's copy is then set back to it.
Backfilled(scan) ==
    LET first == [root |-> 1, height |-> 1]
        call  == [info |-> first, limit |-> MaxPages + 1]
        empty == [created |-> TRUE, node |-> <<EmptyNode("leaf")>>, pins |-> <<0>>,
                  info |-> first]
        filled[n \in 0 .. Len(scan)] ==
            IF n = 0 THEN empty ELSE InsertKey(filled[n - 1], call, scan[n])
    IN  [filled[Len(scan)] EXCEPT !.info = first]

CreateIndex ==
    /\ ~index.created
    /\ Cardinality(records) \in CreateWith
    /\ \E scan \in Scans : index' = Backfilled(scan)
    /\ Size(index') <= MaxPages
    /\ UNCHANGED <<records, failures>>

\* The block of the root is not allocated: the dictionary has an index without one.
CreateIndexFails ==
    /\ ~index.created
    /\ failures < MaxFailures
    /\ index' = [index EXCEPT !.created = TRUE]
    /\ failures' = failures + 1
    /\ UNCHANGED records

\* A record gets a place that no other has.
Placed(r) == \A s \in records : s.rid # r.rid

\* onRecordInserted
OnRecordInserted(r) ==
    /\ Placed(r) /\ Sound(index)
    /\ records' = records \union {r}
    /\ index' = InsertKey(index, Unlimited, r)
    /\ Size(index') <= MaxPages
    /\ UNCHANGED failures

\* All but the first n of the allocations that this needs fail.
OnRecordInsertedFails(r, n) ==
    /\ Placed(r) /\ Sound(index)
    /\ failures < MaxFailures
    /\ Size(InsertKey(index, Unlimited, r)) > Size(index) + n
    /\ records' = records \union {r}
    /\ index' = InsertKey(index, Call(n), r)
    /\ failures' = failures + 1

\* onRecordDeleted
OnRecordDeleted(r) ==
    /\ r \in records /\ Sound(index)
    /\ records' = records \ {r}
    /\ index' = DeleteKey(index, Unlimited, r)
    /\ UNCHANGED failures

Init == index = NoIndex /\ records = {} /\ failures = 0

Next ==
    \/ CreateIndex
    \/ CreateIndexFails
    \/ \E r \in Records :
        \/ OnRecordInserted(r)
        \/ \E n \in 0 .. 2 : OnRecordInsertedFails(r, n)
        \/ OnRecordDeleted(r)

Spec == Init /\ [][Next]_vars

-----------------------------------------------------------------------------
Created == index.info.root # NoPage

\* The children of a node, from left to right.
Children(nd) ==
    IF nd.kind = "leaf" THEN <<>>
    ELSE <<nd.leftMost>> \o [i \in DOMAIN nd.entries |-> nd.entries[i].child]

\* The pages of each level, from left to right, as many levels as the dictionary
\* says there are.
Level ==
    LET level[n \in 0 .. index.info.height - 1] ==
            IF n = 0 THEN <<index.info.root>>
            ELSE FlattenSeq([i \in DOMAIN level[n - 1] |-> Children(index.node[level[n - 1][i]])])
    IN  level

LeafLevel == Level[index.info.height - 1]
TreePages ==
    IF Created THEN LET level == Level IN UNION {Range(level[n]) : n \in DOMAIN level} ELSE {}
Internals == {p \in TreePages : index.node[p].kind = "internal"}

\* The headers and entries that a page of a file of n pages may have.
Keys == {r.key : r \in Records}
Node(n) ==
    LET Header(kind, entries) ==
            [kind : {kind}, prev : 0 .. n, next : 0 .. n, parent : 0 .. n,
             leftMost : 0 .. n, entries : Seq(entries)]
    IN  Header("leaf", Records) \union Header("internal", [key : Keys, child : 1 .. n])

\* Type invariant: the shape of the nodes, none of which has more entries than
\* there is room for.
TypeOK ==
    /\ records \subseteq Records
    /\ failures \in 0 .. MaxFailures
    /\ index \in [created : BOOLEAN, node : Seq(Node(Size(index))), pins : Seq(Nat),
                  info : [root : 0 .. Size(index), height : Nat]]
    /\ Len(index.pins) = Size(index)
    /\ Sound(index)

\* How many levels there are below a page, by its left-most children.
Depth ==
    LET depth[p \in DOMAIN index.node] ==
            IF index.node[p].kind = "leaf" THEN 0 ELSE depth[index.node[p].leftMost] + 1
    IN  depth

\* All leaves below a node are equally far from it, and what it calls its parent is one level
\* above it: also in trees of many levels, and where an allocation failed, so that
\* searches and the ways up end (index_manager.cpp:133-171, 300-472, 745-904).
Balanced ==
    \A p \in DOMAIN index.node :
        LET nd == index.node[p]
        IN  /\ \A c \in Range(Children(nd)) : Depth[c] + 1 = Depth[p]
            /\ nd.parent # NoPage => Depth[nd.parent] = Depth[p] + 1

\* The leaves from left to right have the entries in the order of their keys,
\* and a search for the key of any of them ends at its leaf: separators agree
\* with what borrowing, splitting and merging did to the leaves
\* (index_manager.cpp:133-171, 632, 662).
Ordered ==
    Created =>
        LET leaves  == LeafLevel
            entries == FlattenSeq([i \in DOMAIN leaves |-> index.node[leaves[i]].entries])
        IN  /\ \A i, j \in DOMAIN entries : i < j => entries[i].key <= entries[j].key
            /\ \A p \in Range(leaves) : \A e \in Range(index.node[p].entries) :
                FindLeafFrom(index, index.info.root, e.key) = p

\* Every leaf is on the last level, and every node of the tree is the parent that
\* its children name, by which splits and merges go up (index_manager.cpp:306,
\* 375).  This holds of trees of up to three levels: the right half of an internal
\* node that splits is never told its parent.
LinksAgree ==
    Created =>
        /\ index.node[index.info.root].parent = NoPage
        /\ \A p \in Range(LeafLevel) : index.node[p].kind = "leaf"
        /\ \A p \in Internals : \A c \in Range(Children(index.node[p])) :
            index.node[c].parent = p

\* From the left-most leaf the chain that showIndex prints (index_manager.cpp:
\* 1023) visits the leaves of the tree and no other, and no leaf of the tree
\* calls one to its right its predecessor, unless an allocation failed.
LeafChain ==
    Created /\ failures = 0 =>
        LET leaves == LeafLevel
        IN  \A i \in DOMAIN leaves :
                LET nd == index.node[leaves[i]]
                IN  /\ nd.next = IF i = Len(leaves) THEN NoPage ELSE leaves[i + 1]
                    /\ \A j \in i .. Len(leaves) : nd.prev # leaves[j]

\* Every node but the root is at least half full, also where an allocation failed:
\* borrowing takes from no sibling what it needs (index_manager.cpp:620, 650, 772, 808).
HalfFull ==
    Created =>
        \A p \in TreePages \ {index.info.root} : Len(index.node[p].entries) >= MinKeys

\* A call that takes no internal node out of the tree leaves the pins as they
\* were: an entry, a split, a borrow, a merge of two leaves.  (One that does
\* leaves the parent pinned: the header by which it is released names another.)
PinsReturned ==
    [][\/ \A p \in DOMAIN index.pins' :
            index.pins'[p] = IF p \in DOMAIN index.pins THEN index.pins[p] ELSE 0
       \/ ~ Internals \subseteq Internals']_vars

\* What is in the leaves of the tree.
Entries ==
    IF Created THEN UNION {Range(index.node[p].entries) : p \in Range(LeafLevel)} ELSE {}

Promise == INSTANCE RecordIndex WITH entries <- Entries, ready <- Created

\* The tree, down to the leaves, is an index of the table's records: nothing
\* is lost by splits, borrows and merges, nothing deleted is found, and a unique
\* index has a key once (index_manager.cpp:173-227, 474-509).
ImplementsIndex == Promise!Spec

-----------------------------------------------------------------------------
\* "Create an index: build a B+ tree and persist it" (index_manager.h:64), "build
\* the index from the data of the existing table" (index_manager.cpp:65): the
\* records of a table with an index are found in it.
RecordsFound == Created /\ ~Unique /\ failures = 0 => records \subseteq Entries

\* What is in the index belongs to a record that was not deleted.
EntriesAreRecords == Entries \subseteq records

\* No page is left pinned between two calls.
NoPinsLeft == \A p \in DOMAIN index.pins : index.pins[p] = 0
=============================================================================
