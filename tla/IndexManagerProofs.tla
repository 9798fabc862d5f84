------------------------ MODULE IndexManagerProofs ------------------------
(***************************************************************************)
(* The shape of the index, for any records, room in a page and number of   *)
(* pages, trees of any height, and whatever allocation fails: every leaf   *)
(* below a page is equally far from it (Balanced), and the nodes have the  *)
(* types and, if the room is even, the sizes they should (TypeOK).         *)
(*                                                                         *)
(* The invariant gives each page a rank, its distance from the leaves.     *)
(* The operators are functions that follow pointers or count levels, for   *)
(* which TLA+ promises nothing unless they are shown to exist: pointers    *)
(* followed change the rank by one each time, so the functions do.         *)
(*                                                                         *)
(* The second half is about the tree below the root: which pages it has,   *)
(* which keys belong where, how the leaves are chained, how full the nodes *)
(* are (Good), and what an insertion does to it.  IndexTreeProofs goes on. *)
(***************************************************************************)
EXTENDS IndexManager, WellFoundedInduction, SequenceTheorems, TLAPS

-----------------------------------------------------------------------------
\* Loops, and functions that follow pointers.

LEMMA Least ==
  ASSUME NEW S \in SUBSET Nat, S # {}
  PROVE  \E x \in S : \A y \in S : x <= y
<1> DEFINE R == OpToRel(<, Nat)
<1>1. \A j, k \in Nat : j < k => <<j, k>> \in R
  BY DEF OpToRel
<1>2. IsWellFoundedOn(R, Nat)
  BY NatLessThanWellFounded
<1> HIDE DEF R
<1>3. PICK x \in S : \A y \in S : ~ (<<y, x>> \in R)
  BY <1>2, WFMin
<1>4. \A y \in S : ~ (y < x)
  BY <1>1, <1>3
<1> QED
  BY <1>4

\* What the first turn of a loop has and each turn keeps, the last one has.
LEMMA LoopKeeps ==
  ASSUME NEW S, NEW last \in Nat, NEW f, f[0] \in S,
         \A m \in 1 .. last : f[m - 1] \in S => f[m] \in S
  PROVE  \A m \in 0 .. last : f[m] \in S
<1> DEFINE Bad == {m \in 1 .. last : f[m] \notin S}
<1>1. Bad = {}
  <2> SUFFICES ASSUME Bad # {} PROVE FALSE
    OBVIOUS
  <2>0. Bad \in SUBSET Nat
    OBVIOUS
  <2>1. PICK k \in Bad : \A m \in Bad : k <= m
    BY <2>0, Least
  <2>2. k \in 1 .. last /\ f[k] \notin S
    OBVIOUS
  <2>3. f[k - 1] \in S
    <3>1. CASE k = 1
      BY <3>1
    <3>2. CASE k # 1
      <4>1. k - 1 \in 1 .. last /\ ~(k <= k - 1)
        BY <2>2, <3>2
      <4> QED
        BY <2>1, <4>1
    <3> QED
      BY <3>1, <3>2
  <2> QED
    BY <2>2, <2>3
<1>2. ASSUME NEW m \in 0 .. last PROVE f[m] \in S
  <2>1. CASE m = 0
    BY <2>1
  <2>2. CASE m # 0
    BY <1>1, <2>2
  <2> QED
    BY <2>1, <2>2
<1> QED
  BY <1>2

\* A loop whose turns stay in S has a value after every turn.
Loops(S, a, last, G) ==
    \E f \in [0 .. last -> S] : f[0] = a /\ \A m \in 1 .. last : f[m] = G[m][f[m - 1]]

LEMMA LoopExists ==
  ASSUME NEW S, NEW a \in S, NEW last \in Nat, NEW G \in [1 .. last -> [S -> S]]
  PROVE  Loops(S, a, last, G)
<1> DEFINE Runs(f, k) ==
             f \in [0 .. k -> S] /\ f[0] = a /\ \A m \in 1 .. k : f[m] = G[m][f[m - 1]]
           Has == {k \in 0 .. last : \E f : Runs(f, k)}
           id == [k \in 0 .. last |-> k]
<1>1. 0 \in Has
  <2> DEFINE f == [m \in 0 .. 0 |-> a]
  <2>1. Runs(f, 0)
    OBVIOUS
  <2>2. 0 \in 0 .. last
    OBVIOUS
  <2> HIDE DEF f, Runs
  <2> QED
    BY <2>1, <2>2
<1>2. ASSUME NEW k \in 1 .. last, k - 1 \in Has PROVE k \in Has
  <2>1. PICK f : Runs(f, k - 1)
    BY <1>2
  <2> DEFINE g == [m \in 0 .. k |-> IF m = k THEN G[k][f[k - 1]] ELSE f[m]]
  <2>2. f[k - 1] \in S
    BY <2>1
  <2>3. G[k][f[k - 1]] \in S
    BY <2>2
  <2>4. g \in [0 .. k -> S]
    BY <2>1, <2>3
  <2>5. \A m \in 0 .. k - 1 : g[m] = f[m]
    OBVIOUS
  <2>6. g[k] = G[k][f[k - 1]]
    OBVIOUS
  <2> HIDE DEF g
  <2>7. ASSUME NEW m \in 1 .. k PROVE g[m] = G[m][g[m - 1]]
    <3>0. m - 1 \in 0 .. k - 1 /\ g[m - 1] = f[m - 1]
      BY <2>5
    <3>1. CASE m = k
      BY <2>6, <3>0, <3>1
    <3>2. CASE m # k
      <4>1. m \in 1 .. k - 1 /\ g[m] = f[m]
        BY <2>5, <3>2
      <4> QED
        BY <2>1, <3>0, <4>1
    <3> QED
      BY <3>1, <3>2
  <2>8. g[0] = a
    BY <2>1, <2>5
  <2> QED
    BY <2>4, <2>7, <2>8
<1>3. \A m \in 0 .. last : id[m] \in Has
  <2> HIDE DEF Has
  <2>1. id[0] \in Has
    BY <1>1
  <2>2. \A m \in 1 .. last : id[m - 1] \in Has => id[m] \in Has
    BY <1>2
  <2> HIDE DEF id
  <2> QED
    BY <2>1, <2>2, LoopKeeps
<1>4. id[last] = last
  OBVIOUS
<1>5. last \in Has
  <2> HIDE DEF Has, id
  <2> QED
    BY <1>3, <1>4
<1>6. PICK f : Runs(f, last)
  BY <1>5
<1> QED
  BY <1>6 DEF Loops

\* What is carried on from page to page, as long as there is one and the rank goes down,
\* is what a page has where it stops.
LEMMA DescentEnds ==
  ASSUME NEW D, NEW rk \in [D -> Nat], NEW stop \in SUBSET D, NEW base, NEW next \in [D -> D],
         \A p \in D \ stop : rk[next[p]] < rk[p],
         NEW f, \A p \in D : f[p] = IF p \in stop THEN base[p] ELSE f[next[p]],
         NEW S, \A p \in stop : base[p] \in S
  PROVE  \A p \in D : f[p] \in S
<1> DEFINE Off == {j \in Nat : \E q \in D : rk[q] = j /\ f[q] \notin S}
<1>1. Off = {}
  <2> SUFFICES ASSUME Off # {} PROVE FALSE
    OBVIOUS
  <2>1. PICK j \in Off : \A i \in Off : j <= i
    BY Least
  <2>2. PICK q \in D : rk[q] = j /\ f[q] \notin S
    OBVIOUS
  <2>3. q \notin stop /\ f[next[q]] \notin S
    BY <2>2
  <2>4. rk[next[q]] < rk[q] /\ next[q] \in D /\ rk[next[q]] \in Nat
    BY <2>3
  <2>5. rk[next[q]] \in Off
    BY <2>3, <2>4
  <2> QED
    BY <2>1, <2>2, <2>4, <2>5
<1>2. \A p \in D : rk[p] \in Nat
  OBVIOUS
<1> QED
  BY <1>1, <1>2

\* It is carried on to every page.
Descends(D, rk, stop, next) ==
    /\ rk \in [D -> Nat] /\ stop \in SUBSET D /\ next \in [D -> D]
    /\ \A p \in D \ stop : rk[next[p]] < rk[p]
Carries(D, stop, base, next, S) ==
    \E f \in [D -> S] : \A p \in D : f[p] = IF p \in stop THEN base[p] ELSE f[next[p]]

LEMMA DescentExists ==
  ASSUME NEW D, NEW rk, NEW stop, NEW base, NEW next, Descends(D, rk, stop, next),
         NEW S, \A p \in stop : base[p] \in S
  PROVE  Carries(D, stop, base, next, S)
<1> USE DEF Descends
<1> DEFINE Low(k) == {p \in D : rk[p] < k}
           Runs(f, k) ==
             f = [p \in Low(k) |-> IF p \in stop THEN base[p] ELSE f[next[p]]]
           Bad == {k \in Nat : ~ \E f : Runs(f, k)}
<1>1. \E f : Runs(f, 0)
  <2>1. Low(0) = {}
    OBVIOUS
  <2> DEFINE g == [p \in {} |-> base[p]]
  <2>2. Runs(g, 0)
    BY <2>1
  <2> QED
    BY <2>2
<1>2. ASSUME NEW k \in Nat, NEW f, Runs(f, k) PROVE \E g : Runs(g, k + 1)
  <2> DEFINE g == [p \in Low(k + 1) |-> IF p \in stop THEN base[p] ELSE f[next[p]]]
  <2>1. ASSUME NEW p \in Low(k) PROVE f[p] = g[p]
    BY <1>2
  <2>2. ASSUME NEW p \in Low(k + 1), p \notin stop PROVE next[p] \in Low(k)
    <3>1. rk[next[p]] < rk[p] /\ next[p] \in D /\ rk[next[p]] \in Nat /\ rk[p] \in Nat
      BY <2>2
    <3> QED
      BY <2>2, <3>1
  <2>3. ASSUME NEW p \in Low(k + 1)
        PROVE  g[p] = IF p \in stop THEN base[p] ELSE g[next[p]]
    BY <2>1, <2>2
  <2>4. g = [p \in Low(k + 1) |-> g[p]]
    OBVIOUS
  <2> HIDE DEF g, Low
  <2>5. g = [p \in Low(k + 1) |-> IF p \in stop THEN base[p] ELSE g[next[p]]]
    BY <2>3, <2>4
  <2> QED
    BY <2>5
<1>3. Bad = {}
  <2> SUFFICES ASSUME Bad # {} PROVE FALSE
    OBVIOUS
  <2>1. PICK k \in Bad : \A m \in Bad : k <= m
    BY Least
  <2>2. k # 0
    <3> HIDE DEF Runs
    <3> QED
      BY <1>1
  <2>3. k - 1 \in Nat /\ ~(k <= k - 1) /\ (k - 1) + 1 = k
    BY <2>2
  <2>4. PICK f : Runs(f, k - 1)
    BY <2>1, <2>3
  <2> HIDE DEF Runs
  <2>5. \E g : Runs(g, k)
    BY <1>2, <2>3, <2>4
  <2> QED
    BY <2>5
<1>4. \A k \in Nat : \E f : Runs(f, k)
  BY <1>3
<1> DEFINE Of(k) == CHOOSE f : Runs(f, k)
           g == [p \in D |-> Of(rk[p] + 1)[p]]
<1>5. ASSUME NEW k \in Nat PROVE Runs(Of(k), k)
  BY <1>4
<1> HIDE DEF Of
\* What is carried on to a page does not depend on how far one goes.
<1>6. ASSUME NEW k \in Nat, NEW m \in Nat, NEW p \in Low(k), p \in Low(m)
      PROVE  Of(k)[p] = Of(m)[p]
  <2> DEFINE Off == {j \in Nat : \E q \in Low(k) : q \in Low(m) /\ rk[q] = j /\ Of(k)[q] # Of(m)[q]}
  <2>1. Off = {}
    <3> SUFFICES ASSUME Off # {} PROVE FALSE
      OBVIOUS
    <3>1. PICK j \in Off : \A i \in Off : j <= i
      BY Least
    <3>2. PICK q \in Low(k) : q \in Low(m) /\ rk[q] = j /\ Of(k)[q] # Of(m)[q]
      OBVIOUS
    <3>3. Of(k)[q] = IF q \in stop THEN base[q] ELSE Of(k)[next[q]]
      BY <1>5, <3>2
    <3>4. Of(m)[q] = IF q \in stop THEN base[q] ELSE Of(m)[next[q]]
      BY <1>5, <3>2
    <3>5. q \notin stop /\ Of(k)[next[q]] # Of(m)[next[q]]
      BY <3>2, <3>3, <3>4
    <3>6. rk[next[q]] < rk[q] /\ next[q] \in D /\ rk[next[q]] \in Nat
      BY <3>5
    <3>7. next[q] \in Low(k) /\ next[q] \in Low(m)
      BY <3>2, <3>6
    <3>8. rk[next[q]] \in Off
      BY <3>5, <3>6, <3>7
    <3> QED
      BY <3>1, <3>2, <3>6, <3>8
  <2>2. rk[p] \in Nat
    OBVIOUS
  <2> QED
    BY <1>6, <2>1, <2>2
<1>7. ASSUME NEW p \in D PROVE g[p] = IF p \in stop THEN base[p] ELSE g[next[p]]
  <2>1. rk[p] + 1 \in Nat /\ p \in Low(rk[p] + 1)
    OBVIOUS
  <2>2. Of(rk[p] + 1)[p] = IF p \in stop THEN base[p] ELSE Of(rk[p] + 1)[next[p]]
    BY <1>5, <2>1
  <2>3. CASE p \in stop
    BY <2>2, <2>3
  <2>4. CASE p \notin stop
    <3>1. rk[next[p]] < rk[p] /\ next[p] \in D /\ rk[next[p]] \in Nat /\ rk[p] \in Nat
      BY <2>4
    <3>2. /\ rk[next[p]] + 1 \in Nat /\ next[p] \in Low(rk[p] + 1)
          /\ next[p] \in Low(rk[next[p]] + 1)
      BY <3>1
    <3>3. Of(rk[p] + 1)[next[p]] = Of(rk[next[p]] + 1)[next[p]]
      BY <1>6, <2>1, <3>2
    <3> QED
      BY <2>2, <2>4, <3>1, <3>3
  <2> QED
    BY <2>3, <2>4
<1>8. g = [p \in D |-> g[p]]
  OBVIOUS
<1> HIDE DEF g
<1>9. \A p \in D : g[p] \in S
  BY <1>7, DescentEnds, SMTT(30)
<1>10. g \in [D -> S]
  BY <1>8, <1>9
<1> QED
  BY <1>7, <1>10 DEF Carries

-----------------------------------------------------------------------------
\* Places in sequences.

LEMMA FirstPlace ==
  ASSUME NEW n \in Nat, NEW I \in SUBSET (1 .. n), I # {}
  PROVE  Min(I) \in I
<1>1. I \in SUBSET Nat
  OBVIOUS
<1>2. PICK x \in I : \A y \in I : x <= y
  BY <1>1, Least
<1> QED
  BY <1>2 DEF Min

LEMMA UpperPlace ==
  ASSUME NEW S, NEW s \in Seq(S), NEW key
  PROVE  Upper(s, key) \in 1 .. Len(s) + 1
<1> DEFINE I == {i \in 1 .. Len(s) : key < s[i].key}
<1>1. Len(s) \in Nat /\ I \in SUBSET (1 .. Len(s))
  OBVIOUS
<1>2. Upper(s, key) = IF I # {}
                      THEN IF Min(I) = 0 THEN Len(s) + 1 ELSE Min(I)
                      ELSE Len(s) + 1
  BY DEF Upper, SelectInSeq
<1> HIDE DEF I
<1>3. I # {} => Min(I) \in 1 .. Len(s)
  BY <1>1, FirstPlace
<1>4. \A m \in 1 .. Len(s) : m # 0 /\ m \in 1 .. Len(s) + 1 /\ m \in 0 .. Len(s)
                             /\ m \in -1 .. Len(s)
  BY <1>1
<1> QED
  BY <1>1, <1>2, <1>3, <1>4

LEMMA ChildPlace ==
  ASSUME NEW S, NEW nd, nd.entries \in Seq(S), NEW page
  PROVE  FindChildIndex(nd, page) \in -1 .. Len(nd.entries)
<1> DEFINE s == nd.entries
           I == {i \in 1 .. Len(s) : s[i].child = page}
<1>1. Len(s) \in Nat /\ I \in SUBSET (1 .. Len(s))
  OBVIOUS
<1>2. FindChildIndex(nd, page) =
        IF nd.leftMost = page THEN 0
        ELSE IF I # {} THEN IF Min(I) = 0 THEN -1 ELSE Min(I) ELSE -1
  BY DEF FindChildIndex, SelectInSeq
<1> HIDE DEF I
<1>3. I # {} => Min(I) \in 1 .. Len(s)
  BY <1>1, FirstPlace
<1>4. \A m \in 1 .. Len(s) : m # 0 /\ m \in 1 .. Len(s) + 1 /\ m \in 0 .. Len(s)
                             /\ m \in -1 .. Len(s)
  BY <1>1
<1> QED
  BY <1>1, <1>2, <1>3, <1>4

LEMMA EntryPlace ==
  ASSUME NEW S, NEW s \in Seq(S), NEW r
  PROVE  SelectInSeq(s, LAMBDA e : e = r) \in 0 .. Len(s)
<1> DEFINE I == {i \in 1 .. Len(s) : s[i] = r}
<1>1. Len(s) \in Nat /\ I \in SUBSET (1 .. Len(s))
  OBVIOUS
<1>2. SelectInSeq(s, LAMBDA e : e = r) = IF I # {} THEN Min(I) ELSE 0
  BY DEF SelectInSeq
<1> HIDE DEF I
<1>3. I # {} => Min(I) \in I
  BY <1>1, FirstPlace
<1> QED
  BY <1>1, <1>2, <1>3

LEMMA ConcatTyped ==
  ASSUME NEW S, NEW s \in Seq(S), NEW t \in Seq(S)
  PROVE  s \o t \in Seq(S) /\ Len(s \o t) = Len(s) + Len(t)
OBVIOUS

LEMMA InsertedSeq ==
  ASSUME NEW S, NEW s \in Seq(S), NEW e \in S, NEW i \in 1 .. Len(s) + 1
  PROVE  InsertAt(s, i, e) \in Seq(S) /\ Len(InsertAt(s, i, e)) = Len(s) + 1
<1> DEFINE a == SubSeq(s, 1, i - 1)
           b == SubSeq(s, i, Len(s))
           c == <<e>>
<1>0. Len(s) \in Nat /\ i \in Int
  OBVIOUS
<1>1. a \in Seq(S) /\ Len(a) = i - 1
  OBVIOUS
<1>2. b \in Seq(S) /\ Len(b) = Len(s) - i + 1
  OBVIOUS
<1>3. c \in Seq(S) /\ Len(c) = 1
  OBVIOUS
<1>4. InsertAt(s, i, e) = (a \o c) \o b
  BY DEF InsertAt
<1> HIDE DEF a, b, c
<1>5. a \o c \in Seq(S) /\ Len(a \o c) = Len(a) + Len(c)
  BY <1>1, <1>3, ConcatTyped
<1>6. Len(a \o c) = i
  BY <1>0, <1>1, <1>3, <1>5
<1>7. (a \o c) \o b \in Seq(S) /\ Len((a \o c) \o b) = Len(a \o c) + Len(b)
  BY <1>2, <1>5, ConcatTyped
<1> QED
  BY <1>0, <1>2, <1>4, <1>6, <1>7

LEMMA RemovedSeq ==
  ASSUME NEW S, NEW s \in Seq(S), NEW i \in 1 .. Len(s)
  PROVE  RemoveAt(s, i) \in Seq(S) /\ Len(RemoveAt(s, i)) = Len(s) - 1
<1> DEFINE a == SubSeq(s, 1, i - 1)
           b == SubSeq(s, i + 1, Len(s))
<1>0. Len(s) \in Nat /\ i \in Int
  OBVIOUS
<1>1. a \in Seq(S) /\ Len(a) = i - 1
  OBVIOUS
<1>2. b \in Seq(S) /\ Len(b) = Len(s) - i
  OBVIOUS
<1>3. RemoveAt(s, i) = a \o b
  BY DEF RemoveAt
<1> HIDE DEF a, b
<1>4. a \o b \in Seq(S) /\ Len(a \o b) = Len(a) + Len(b)
  BY <1>1, <1>2, ConcatProperties
<1> QED
  BY <1>0, <1>1, <1>2, <1>3, <1>4

-----------------------------------------------------------------------------
\* Trees of n pages, of which rk says how far they are from the leaves.  With an even
\* MaxKeys no node has more entries than its page has room for.

Lists(S) == {s \in Seq(S) : MaxKeys % 2 = 0 => Len(s) <= MaxKeys}

Below(n, rk, r) == {q \in 1 .. n : rk[q] + 1 = r}
Above(n, rk, r) == {q \in 1 .. n : rk[q] = r + 1} \union {NoPage}

Kids(n, rk, r) == [key : Keys, child : Below(n, rk, r)]
Ents(n, rk, r) == IF r = 0 THEN Records ELSE Kids(n, rk, r)

Leaves(n, rk) ==
    [kind : {"leaf"}, prev : 0 .. n, next : 0 .. n, parent : Above(n, rk, 0),
     leftMost : 0 .. n, entries : Lists(Records)]
Inner(n, rk, r) ==
    [kind : {"internal"}, prev : 0 .. n, next : 0 .. n, parent : Above(n, rk, r),
     leftMost : Below(n, rk, r), entries : Lists(Kids(n, rk, r))]
NodesAt(n, rk, r) == IF r = 0 THEN Leaves(n, rk) ELSE Inner(n, rk, r)

Infos(n) == [root : 0 .. n, height : Nat]

Tree(ix, n, rk) ==
    /\ n \in Nat /\ rk \in [1 .. n -> Nat]
    /\ ix = [created |-> ix.created, node |-> ix.node, pins |-> ix.pins, info |-> ix.info]
    /\ ix.created = TRUE
    /\ ix.node = [p \in 1 .. n |-> ix.node[p]]
    /\ \A p \in 1 .. n : ix.node[p] \in NodesAt(n, rk, rk[p])
    /\ ix.pins \in [1 .. n -> Nat]
    /\ ix.info \in Infos(n)

LEMMA NodeFields ==
  ASSUME NEW n \in Nat, NEW rk \in [1 .. n -> Nat], NEW r \in Nat, NEW nd \in NodesAt(n, rk, r)
  PROVE  /\ nd.kind = IF r = 0 THEN "leaf" ELSE "internal"
         /\ nd.prev \in 0 .. n /\ nd.next \in 0 .. n
         /\ nd.parent \in Above(n, rk, r)
         /\ r # 0 => nd.leftMost \in Below(n, rk, r)
         /\ nd.leftMost \in 0 .. n
         /\ nd.entries \in Lists(Ents(n, rk, r))
BY DEF NodesAt, Leaves, Inner, Ents, Below

LEMMA NodeStep ==
  ASSUME NEW n \in Nat, NEW rk \in [1 .. n -> Nat], NEW r \in Nat, NEW nd \in NodesAt(n, rk, r)
  PROVE  /\ \A s \in Lists(Ents(n, rk, r)) : [nd EXCEPT !.entries = s] \in NodesAt(n, rk, r)
         /\ \A q \in Above(n, rk, r) : [nd EXCEPT !.parent = q] \in NodesAt(n, rk, r)
         /\ \A q \in 0 .. n : [nd EXCEPT !.next = q] \in NodesAt(n, rk, r)
         /\ \A q \in 0 .. n : [nd EXCEPT !.prev = q] \in NodesAt(n, rk, r)
         /\ r # 0 => \A q \in Below(n, rk, r) : [nd EXCEPT !.leftMost = q] \in NodesAt(n, rk, r)
<1>1. CASE r = 0
  BY <1>1 DEF NodesAt, Leaves, Ents
<1>2. CASE r # 0
  BY <1>2 DEF NodesAt, Inner, Ents
<1> QED
  BY <1>1, <1>2

Put(ix, p, nd) == [ix EXCEPT !.node[p] = nd]

\* A page gets another node of its rank.
LEMMA PutTree ==
  ASSUME NEW n, NEW rk, NEW ix, Tree(ix, n, rk), NEW p \in 1 .. n,
         NEW nd \in NodesAt(n, rk, rk[p])
  PROVE  /\ Tree(Put(ix, p, nd), n, rk)
         /\ Put(ix, p, nd).node[p] = nd
         /\ \A q \in 1 .. n : q # p => Put(ix, p, nd).node[q] = ix.node[q]
         /\ Put(ix, p, nd).pins = ix.pins
         /\ Put(ix, p, nd).info = ix.info
<1> DEFINE new == Put(ix, p, nd)
<1>0. ix = [created |-> ix.created, node |-> ix.node, pins |-> ix.pins, info |-> ix.info]
  BY DEF Tree
<1>1. new = [created |-> ix.created, node |-> [ix.node EXCEPT ![p] = nd],
             pins |-> ix.pins, info |-> ix.info]
  <2>1. PICK c, f, g, h : ix = [created |-> c, node |-> f, pins |-> g, info |-> h]
    BY <1>0
  <2>2. Put(ix, p, nd) = [created |-> c, node |-> [f EXCEPT ![p] = nd], pins |-> g, info |-> h]
    BY <2>1 DEF Put
  <2> QED
    BY <2>1, <2>2
<1>2. new.node = [ix.node EXCEPT ![p] = nd]
  BY <1>1
<1>3. /\ new.created = ix.created /\ new.pins = ix.pins /\ new.info = ix.info
      /\ new = [created |-> new.created, node |-> new.node, pins |-> new.pins,
                info |-> new.info]
  BY <1>1
<1>4. DOMAIN ix.node = 1 .. n
  BY DEF Tree
<1>5. new.node = [q \in 1 .. n |-> new.node[q]]
  BY <1>2, <1>4
<1>6. new.node[p] = nd /\ \A q \in 1 .. n : q # p => new.node[q] = ix.node[q]
  BY <1>2, <1>4
<1> HIDE DEF new
<1>7. Tree(new, n, rk)
  BY <1>3, <1>5, <1>6 DEF Tree
<1> QED
  BY <1>3, <1>6, <1>7 DEF new

WithEntries(ix, p, s) == [ix EXCEPT !.node[p].entries = s]
WithKey(ix, p, k, key) == [ix EXCEPT !.node[p].entries[k].key = key]
WithParent(ix, p, q) == [ix EXCEPT !.node[p].parent = q]
WithNext(ix, p, q) == [ix EXCEPT !.node[p].next = q]
WithPrev(ix, p, q) == [ix EXCEPT !.node[p].prev = q]
WithLeftMost(ix, p, q) == [ix EXCEPT !.node[p].leftMost = q]
WithPins(ix, p, x) == [ix EXCEPT !.pins[p] = x]

LEMMA SetEntries ==
  ASSUME NEW n, NEW rk, NEW ix, Tree(ix, n, rk), NEW p \in 1 .. n,
         NEW s \in Lists(Ents(n, rk, rk[p]))
  PROVE  LET new == WithEntries(ix, p, s)
         IN  /\ Tree(new, n, rk)
             /\ new.node[p].entries = s
             /\ new.node[p].kind = ix.node[p].kind
             /\ new.node[p].leftMost = ix.node[p].leftMost
             /\ new.node[p].parent = ix.node[p].parent
             /\ new.node[p].next = ix.node[p].next
             /\ \A q \in 1 .. n : q # p => new.node[q] = ix.node[q]
             /\ new.pins = ix.pins
             /\ new.info = ix.info
<1>1. n \in Nat /\ rk \in [1 .. n -> Nat] /\ ix.node[p] \in NodesAt(n, rk, rk[p])
  BY DEF Tree
<1> DEFINE nd == [ix.node[p] EXCEPT !.entries = s]
<1>2. nd \in NodesAt(n, rk, rk[p])
  BY <1>1, NodeStep
<1>3. WithEntries(ix, p, s) = Put(ix, p, nd)
  BY DEF WithEntries, Put
<1> HIDE DEF nd
<1>4. /\ Tree(Put(ix, p, nd), n, rk)
      /\ Put(ix, p, nd).node[p] = nd
      /\ \A q \in 1 .. n : q # p => Put(ix, p, nd).node[q] = ix.node[q]
      /\ Put(ix, p, nd).pins = ix.pins
      /\ Put(ix, p, nd).info = ix.info
  BY <1>2, PutTree
<1>5. nd.entries = s /\ nd.kind = ix.node[p].kind /\ nd.leftMost = ix.node[p].leftMost
      /\ nd.parent = ix.node[p].parent /\ nd.next = ix.node[p].next
  BY <1>1 DEF nd, NodesAt, Leaves, Inner
<1> QED
  BY <1>3, <1>4, <1>5

LEMMA SetParent ==
  ASSUME NEW n, NEW rk, NEW ix, Tree(ix, n, rk), NEW p \in 1 .. n,
         NEW x \in Above(n, rk, rk[p])
  PROVE  LET new == WithParent(ix, p, x)
         IN  /\ Tree(new, n, rk)
             /\ new.node[p].parent = x
             /\ new.node[p].kind = ix.node[p].kind
             /\ new.node[p].entries = ix.node[p].entries
             /\ new.node[p].leftMost = ix.node[p].leftMost
             /\ \A q \in 1 .. n : q # p => new.node[q] = ix.node[q]
             /\ new.pins = ix.pins
             /\ new.info = ix.info
<1>1. n \in Nat /\ rk \in [1 .. n -> Nat] /\ ix.node[p] \in NodesAt(n, rk, rk[p])
  BY DEF Tree
<1> DEFINE nd == [ix.node[p] EXCEPT !.parent = x]
<1>2. nd \in NodesAt(n, rk, rk[p])
  BY <1>1, NodeStep
<1>3. WithParent(ix, p, x) = Put(ix, p, nd)
  BY DEF WithParent, Put
<1> HIDE DEF nd
<1>4. /\ Tree(Put(ix, p, nd), n, rk)
      /\ Put(ix, p, nd).node[p] = nd
      /\ \A q \in 1 .. n : q # p => Put(ix, p, nd).node[q] = ix.node[q]
      /\ Put(ix, p, nd).pins = ix.pins
      /\ Put(ix, p, nd).info = ix.info
  BY <1>2, PutTree
<1>5. nd.parent = x /\ nd.kind = ix.node[p].kind /\ nd.entries = ix.node[p].entries
      /\ nd.leftMost = ix.node[p].leftMost
  BY <1>1 DEF nd, NodesAt, Leaves, Inner
<1> QED
  BY <1>3, <1>4, <1>5

LEMMA SetNeighbour ==
  ASSUME NEW n, NEW rk, NEW ix, Tree(ix, n, rk), NEW p \in 1 .. n, NEW x \in 0 .. n
  PROVE  /\ Tree(WithNext(ix, p, x), n, rk)
         /\ Tree(WithPrev(ix, p, x), n, rk)
<1>1. n \in Nat /\ rk \in [1 .. n -> Nat] /\ ix.node[p] \in NodesAt(n, rk, rk[p])
  BY DEF Tree
<1> DEFINE nd1 == [ix.node[p] EXCEPT !.next = x]
           nd2 == [ix.node[p] EXCEPT !.prev = x]
<1>2. nd1 \in NodesAt(n, rk, rk[p]) /\ nd2 \in NodesAt(n, rk, rk[p])
  BY <1>1, NodeStep
<1>3. /\ WithNext(ix, p, x) = Put(ix, p, nd1)
      /\ WithPrev(ix, p, x) = Put(ix, p, nd2)
  BY DEF WithNext, WithPrev, Put
<1> HIDE DEF nd1, nd2
<1>4. Tree(Put(ix, p, nd1), n, rk) /\ Tree(Put(ix, p, nd2), n, rk)
  BY <1>2, PutTree
<1> QED
  BY <1>3, <1>4

LEMMA SetLeftMost ==
  ASSUME NEW n, NEW rk, NEW ix, Tree(ix, n, rk), NEW p \in 1 .. n, rk[p] # 0,
         NEW x \in Below(n, rk, rk[p])
  PROVE  LET new == WithLeftMost(ix, p, x)
         IN  /\ Tree(new, n, rk)
             /\ new.node[p].leftMost = x
             /\ new.node[p].kind = ix.node[p].kind
             /\ new.node[p].entries = ix.node[p].entries
             /\ new.node[p].parent = ix.node[p].parent
             /\ \A q \in 1 .. n : q # p => new.node[q] = ix.node[q]
             /\ new.pins = ix.pins
             /\ new.info = ix.info
<1>1. n \in Nat /\ rk \in [1 .. n -> Nat] /\ ix.node[p] \in NodesAt(n, rk, rk[p])
  BY DEF Tree
<1> DEFINE nd == [ix.node[p] EXCEPT !.leftMost = x]
<1>2. nd \in NodesAt(n, rk, rk[p])
  BY <1>1, NodeStep
<1>3. WithLeftMost(ix, p, x) = Put(ix, p, nd)
  BY DEF WithLeftMost, Put
<1> HIDE DEF nd
<1>4. /\ Tree(Put(ix, p, nd), n, rk)
      /\ Put(ix, p, nd).node[p] = nd
      /\ \A q \in 1 .. n : q # p => Put(ix, p, nd).node[q] = ix.node[q]
      /\ Put(ix, p, nd).pins = ix.pins
      /\ Put(ix, p, nd).info = ix.info
  BY <1>2, PutTree
<1>5. nd.leftMost = x /\ nd.kind = ix.node[p].kind /\ nd.entries = ix.node[p].entries
      /\ nd.parent = ix.node[p].parent
  BY <1>1 DEF nd, NodesAt, Leaves, Inner
<1> QED
  BY <1>3, <1>4, <1>5

\* An internal node gets another key at one place.
LEMMA SetKey ==
  ASSUME NEW n, NEW rk, NEW ix, Tree(ix, n, rk), NEW p \in 1 .. n, rk[p] # 0,
         NEW k \in 1 .. Len(ix.node[p].entries), NEW key \in Keys
  PROVE  LET new == WithKey(ix, p, k, key)
         IN  /\ Tree(new, n, rk)
             /\ \A q \in 1 .. n : q # p => new.node[q] = ix.node[q]
             /\ new.pins = ix.pins
             /\ new.info = ix.info
<1> DEFINE s == ix.node[p].entries
           t == [s EXCEPT ![k] = [@ EXCEPT !.key = key]]
<1>1. n \in Nat /\ rk \in [1 .. n -> Nat] /\ ix.node[p] \in NodesAt(n, rk, rk[p])
  BY DEF Tree
<1>2. s \in Lists(Ents(n, rk, rk[p])) /\ Ents(n, rk, rk[p]) = Kids(n, rk, rk[p])
  BY <1>1, NodeFields DEF Ents
<1>3. s \in Seq(Kids(n, rk, rk[p]))
  BY <1>2 DEF Lists
<1>4. [s[k] EXCEPT !.key = key] \in Kids(n, rk, rk[p])
  <2>1. s[k] \in Kids(n, rk, rk[p])
    BY <1>3
  <2> QED
    BY <2>1 DEF Kids
<1>5. t \in Seq(Kids(n, rk, rk[p])) /\ Len(t) = Len(s)
  BY <1>3, <1>4, ExceptSeq
<1>6. t \in Lists(Ents(n, rk, rk[p]))
  BY <1>2, <1>5 DEF Lists
<1>7. WithKey(ix, p, k, key) = WithEntries(ix, p, t)
  BY DEF WithKey, WithEntries
<1> HIDE DEF t
<1>8. LET new == WithEntries(ix, p, t)
      IN  /\ Tree(new, n, rk)
          /\ \A q \in 1 .. n : q # p => new.node[q] = ix.node[q]
          /\ new.pins = ix.pins
          /\ new.info = ix.info
  BY <1>6, SetEntries
<1> QED
  BY <1>7, <1>8

-----------------------------------------------------------------------------
\* Pins, and the dictionary's copy of root and height.

LEMMA SetPins ==
  ASSUME NEW n, NEW rk, NEW ix, Tree(ix, n, rk), NEW p \in 1 .. n, NEW x \in Nat
  PROVE  /\ Tree(WithPins(ix, p, x), n, rk)
         /\ WithPins(ix, p, x).node = ix.node
<1> DEFINE new == WithPins(ix, p, x)
<1>0. ix = [created |-> ix.created, node |-> ix.node, pins |-> ix.pins, info |-> ix.info]
  BY DEF Tree
<1>1. new = [created |-> ix.created, node |-> ix.node, pins |-> [ix.pins EXCEPT ![p] = x],
             info |-> ix.info]
  <2>1. PICK c, f, g, h : ix = [created |-> c, node |-> f, pins |-> g, info |-> h]
    BY <1>0
  <2>2. new = [created |-> c, node |-> f, pins |-> [g EXCEPT ![p] = x], info |-> h]
    BY <2>1 DEF WithPins
  <2> QED
    BY <2>1, <2>2
<1>2. new.created = ix.created /\ new.node = ix.node /\ new.info = ix.info
      /\ new.pins = [ix.pins EXCEPT ![p] = x]
      /\ new = [created |-> new.created, node |-> new.node, pins |-> new.pins,
                info |-> new.info]
  BY <1>1
<1> HIDE DEF new
<1>3. new.pins \in [1 .. n -> Nat]
  BY <1>2 DEF Tree
<1>4. Tree(new, n, rk)
  BY <1>2, <1>3 DEF Tree
<1> QED
  BY <1>2, <1>4 DEF new

LEMMA PinTree ==
  ASSUME NEW n, NEW rk, NEW ix, Tree(ix, n, rk), NEW p \in 1 .. n
  PROVE  Tree(Pin(ix, p), n, rk) /\ Pin(ix, p).node = ix.node
<1>1. ix.pins[p] + 1 \in Nat
  BY DEF Tree
<1> QED
  BY <1>1, SetPins DEF Pin, WithPins

LEMMA ReleaseTree ==
  ASSUME NEW n, NEW rk, NEW ix, Tree(ix, n, rk), NEW p \in 0 .. n
  PROVE  Tree(Release(ix, p), n, rk) /\ Release(ix, p).node = ix.node
<1>1. CASE p # NoPage /\ ix.pins[p] > 0
  <2>1. p \in 1 .. n
    BY <1>1 DEF NoPage, Tree
  <2>2. ix.pins[p] - 1 \in Nat
    BY <1>1, <2>1 DEF Tree
  <2> QED
    BY <1>1, <2>1, <2>2, SetPins DEF Release, WithPins
<1>2. CASE ~(p # NoPage /\ ix.pins[p] > 0)
  BY <1>2 DEF Release
<1> QED
  BY <1>1, <1>2

LEMMA InfoTree ==
  ASSUME NEW n, NEW rk, NEW ix, Tree(ix, n, rk), NEW root \in 0 .. n, NEW height \in Nat
  PROVE  /\ Tree(UpdateIndexInfo(ix, root, height), n, rk)
         /\ UpdateIndexInfo(ix, root, height).node = ix.node
<1> DEFINE new == UpdateIndexInfo(ix, root, height)
           i == [root |-> root, height |-> height]
<1>0. ix = [created |-> ix.created, node |-> ix.node, pins |-> ix.pins, info |-> ix.info]
  BY DEF Tree
<1>1. new = [created |-> ix.created, node |-> ix.node, pins |-> ix.pins, info |-> i]
  <2>1. PICK c, f, g, h : ix = [created |-> c, node |-> f, pins |-> g, info |-> h]
    BY <1>0
  <2>2. new = [created |-> c, node |-> f, pins |-> g, info |-> i]
    BY <2>1 DEF UpdateIndexInfo
  <2> QED
    BY <2>1, <2>2
<1>2. new.created = ix.created /\ new.node = ix.node /\ new.info = i
      /\ new.pins = ix.pins
      /\ new = [created |-> new.created, node |-> new.node, pins |-> new.pins,
                info |-> new.info]
  BY <1>1
<1>3. i \in Infos(n)
  BY DEF Infos
<1> HIDE DEF new, i
<1>4. Tree(new, n, rk)
  BY <1>2, <1>3 DEF Tree
<1> QED
  BY <1>2, <1>4 DEF new

-----------------------------------------------------------------------------
\* setChildrenParent, child by child.

Files(n, rk) ==
    [created : {TRUE}, node : [1 .. n -> UNION {NodesAt(n, rk, r) : r \in Nat}],
     pins : [1 .. n -> Nat], info : Infos(n)]

LEMMA TreeIsFile ==
  ASSUME NEW n, NEW rk, NEW ix, Tree(ix, n, rk)
  PROVE  ix \in Files(n, rk)
<1>1. ix.node \in [1 .. n -> UNION {NodesAt(n, rk, r) : r \in Nat}]
  BY DEF Tree
<1> QED
  BY <1>1 DEF Tree, Files

\* The same nodes, perhaps under other parents.
Alike(jx, ix, n) ==
    /\ \A q \in 1 .. n : /\ jx.node[q].entries = ix.node[q].entries
                         /\ jx.node[q].leftMost = ix.node[q].leftMost
    /\ jx.pins = ix.pins
    /\ jx.info = ix.info

LEMMA ToldTree ==
  ASSUME NEW n, NEW rk, NEW ix, Tree(ix, n, rk), NEW parent \in 1 .. n,
         NEW children \in Seq(Below(n, rk, rk[parent]))
  PROVE  /\ Tree(SetChildrenParent(ix, children, parent), n, rk)
         /\ Alike(SetChildrenParent(ix, children, parent), ix, n)
<1> DEFINE last == Len(children)
           Told(jx, m) == WithParent(jx, children[m], parent)
           S == {jx \in Files(n, rk) : Tree(jx, n, rk) /\ Alike(jx, ix, n)}
           G == [m \in 1 .. last |-> [jx \in S |-> Told(jx, m)]]
           f == CHOOSE f : f = [m \in 0 .. last |-> IF m = 0 THEN ix ELSE Told(f[m - 1], m)]
<1>1. last \in Nat
  OBVIOUS
<1>2. ix \in S
  BY TreeIsFile DEF Alike
<1>3. ASSUME NEW jx \in S, NEW m \in 1 .. last PROVE Told(jx, m) \in S
  <2> DEFINE c == children[m]
  <2>1. c \in 1 .. n /\ parent \in Above(n, rk, rk[c])
    <3>1. c \in Below(n, rk, rk[parent])
      BY <1>1
    <3>2. rk \in [1 .. n -> Nat]
      BY DEF Tree
    <3> QED
      BY <3>1, <3>2 DEF Below, Above
  <2>2. /\ Tree(Told(jx, m), n, rk)
        /\ Told(jx, m).node[c].entries = jx.node[c].entries
        /\ Told(jx, m).node[c].leftMost = jx.node[c].leftMost
        /\ \A q \in 1 .. n : q # c => Told(jx, m).node[q] = jx.node[q]
        /\ Told(jx, m).pins = jx.pins
        /\ Told(jx, m).info = jx.info
    <3>1. Tree(jx, n, rk)
      OBVIOUS
    <3> HIDE DEF S, c
    <3> QED
      BY <2>1, <3>1, SetParent DEF c, Told
  <2> HIDE DEF Told, c
  <2>4. Alike(Told(jx, m), ix, n)
    BY <2>2 DEF Alike
  <2> QED
    BY <2>2, <2>4, TreeIsFile
<1> HIDE DEF Told, S, last
<1>4. G \in [1 .. last -> [S -> S]]
  BY <1>3
<1>5. \A jx \in S : \A m \in 1 .. last : G[m][jx] = Told(jx, m)
  OBVIOUS
<1> HIDE DEF G
<1>6. PICK g \in [0 .. last -> S] :
        g[0] = ix /\ \A m \in 1 .. last : g[m] = G[m][g[m - 1]]
  <2>1. Loops(S, ix, last, G)
    BY <1>1, <1>2, <1>4, LoopExists
  <2> QED
    BY <2>1 DEF Loops
<1>7. g = [m \in 0 .. last |-> IF m = 0 THEN ix ELSE Told(g[m - 1], m)]
  <2>1. ASSUME NEW m \in 0 .. last PROVE g[m] = IF m = 0 THEN ix ELSE Told(g[m - 1], m)
    <3>1. m # 0 => m \in 1 .. last /\ g[m - 1] \in S
      BY <1>1
    <3> QED
      BY <1>5, <1>6, <3>1
  <2>2. g = [m \in 0 .. last |-> g[m]]
    OBVIOUS
  <2> QED
    BY <2>1, <2>2
<1>8. f = [m \in 0 .. last |-> IF m = 0 THEN ix ELSE Told(f[m - 1], m)]
  BY <1>7
<1>9. SetChildrenParent(ix, children, parent) = f[last]
  BY DEF SetChildrenParent, WithParent, Told, last
<1> HIDE DEF f
<1>10. \A m \in 0 .. last : f[m] \in S
  <2>1. f[0] \in S
    BY <1>1, <1>2, <1>8
  <2>2. \A m \in 1 .. last : f[m - 1] \in S => f[m] \in S
    BY <1>1, <1>3, <1>8
  <2> QED
    BY <1>1, <2>1, <2>2, LoopKeeps
<1>11. f[last] \in S
  BY <1>1, <1>10
<1> QED
  BY <1>9, <1>11 DEF S

-----------------------------------------------------------------------------
\* What a page of a tree has.

LEMMA PageFields ==
  ASSUME NEW n, NEW rk, NEW ix, Tree(ix, n, rk), NEW p \in 1 .. n
  PROVE  /\ n \in Nat /\ rk \in [1 .. n -> Nat] /\ rk[p] \in Nat
         /\ ix.node[p].kind = IF rk[p] = 0 THEN "leaf" ELSE "internal"
         /\ ix.node[p].prev \in 0 .. n /\ ix.node[p].next \in 0 .. n
         /\ ix.node[p].parent \in Above(n, rk, rk[p])
         /\ rk[p] # 0 => ix.node[p].leftMost \in Below(n, rk, rk[p])
         /\ ix.node[p].entries \in Lists(Ents(n, rk, rk[p]))
         /\ ix.node[p].entries \in Seq(Ents(n, rk, rk[p]))
         /\ Len(ix.node[p].entries) \in Nat
<1>1. n \in Nat /\ rk \in [1 .. n -> Nat] /\ ix.node[p] \in NodesAt(n, rk, rk[p])
  BY DEF Tree
<1> DEFINE nd == ix.node[p]
<1>2. rk[p] \in Nat
  BY <1>1
<1> HIDE DEF nd
<1>3. nd \in NodesAt(n, rk, rk[p])
  BY <1>1 DEF nd
<1>4. /\ nd.kind = IF rk[p] = 0 THEN "leaf" ELSE "internal"
      /\ nd.prev \in 0 .. n /\ nd.next \in 0 .. n
      /\ nd.parent \in Above(n, rk, rk[p])
      /\ rk[p] # 0 => nd.leftMost \in Below(n, rk, rk[p])
      /\ nd.entries \in Lists(Ents(n, rk, rk[p]))
  BY <1>1, <1>2, <1>3, NodeFields
<1>5. nd.entries \in Seq(Ents(n, rk, rk[p])) /\ Len(nd.entries) \in Nat
  BY <1>4 DEF Lists
<1> QED
  BY <1>1, <1>2, <1>4, <1>5 DEF nd

LEMMA EntryFields ==
  ASSUME NEW n \in Nat, NEW rk, NEW r, NEW e \in Ents(n, rk, r)
  PROVE  /\ e.key \in Keys
         /\ r # 0 => e.child \in Below(n, rk, r)
BY DEF Ents, Kids, Keys

LEMMA MinKeysFits ==
  /\ MaxKeys \in Nat \ {0} /\ MinKeys \in Nat \ {0} /\ MinKeys <= MaxKeys
  /\ MaxKeys % 2 = 0 => 2 * MinKeys = MaxKeys
BY IndexAssumption DEF MinKeys

-----------------------------------------------------------------------------
\* A delete leaves every page as far from the leaves as it was.

LEMMA ShrinkTree ==
  ASSUME NEW n, NEW rk, NEW ix, Tree(ix, n, rk), NEW p \in 1 .. n,
         NEW call, call.info.height \in Nat
  PROVE  Tree(ShrinkRootIfNeeded(ix, call, p), n, rk)
<1> DEFINE nd == ix.node[p]
           c == nd.leftMost
<1>1. CASE nd.kind = "internal" /\ nd.entries = <<>> /\ nd.leftMost # NoPage
  <2>1. rk[p] # 0 /\ c \in Below(n, rk, rk[p])
    BY <1>1, PageFields
  <2>2. c \in 1 .. n
    BY <2>1 DEF Below
  <2>3. NoPage \in Above(n, rk, rk[c])
    BY DEF Above
  <2>4. Tree(WithParent(ix, c, NoPage), n, rk)
    <3> HIDE DEF c
    <3> QED
      BY <2>2, <2>3, SetParent
  <2>5. AtLeastOne(call.info.height - 1) \in Nat /\ c \in 0 .. n
    BY <2>2 DEF AtLeastOne
  <2>6. Tree(UpdateIndexInfo(WithParent(ix, c, NoPage), c, AtLeastOne(call.info.height - 1)), n, rk)
    <3> HIDE DEF c
    <3> QED
      BY <2>4, <2>5, InfoTree
  <2> QED
    BY <1>1, <2>6 DEF ShrinkRootIfNeeded, WithParent
<1>2. CASE ~(nd.kind = "internal" /\ nd.entries = <<>> /\ nd.leftMost # NoPage)
  BY <1>2 DEF ShrinkRootIfNeeded
<1> QED
  BY <1>1, <1>2

\* What borrowing and absorbing do to sequences of entries.
LEMMA LastFront ==
  ASSUME NEW S, NEW s \in Lists(S), s # <<>>
  PROVE  Last(s) \in S /\ Front(s) \in Lists(S)
<1>1. s \in Seq(S) /\ Len(s) \in Nat \ {0}
  BY EmptySeq DEF Lists
<1>2. Last(s) \in S
  BY <1>1 DEF Last
<1>3. Front(s) \in Seq(S) /\ Len(Front(s)) = Len(s) - 1
  <2> DEFINE m == Len(s) - 1
             u == SubSeq(s, 1, m)
  <2>1. 1 \in Int /\ m \in Nat /\ \A i \in 1 .. m : s[i] \in S
    BY <1>1
  <2> HIDE DEF m
  <2>2. u \in Seq(S) /\ Len(u) = IF 1 <= m THEN m - 1 + 1 ELSE 0
    BY <2>1, SubSeqProperties
  <2> HIDE DEF u
  <2>3. Len(u) = m
    BY <2>1, <2>2
  <2> QED
    BY <2>2, <2>3 DEF Front, u, m
<1> QED
  BY <1>1, <1>2, <1>3, MinKeysFits DEF Lists

LEMMA HeadTail ==
  ASSUME NEW S, NEW s \in Lists(S), s # <<>>
  PROVE  Head(s) \in S /\ Tail(s) \in Lists(S)
<1>1. s \in Seq(S) /\ Len(s) \in Nat \ {0}
  BY EmptySeq DEF Lists
<1>2. Head(s) \in S /\ Tail(s) \in Seq(S) /\ Len(Tail(s)) = Len(s) - 1
  BY <1>1, HeadTailProperties
<1> QED
  BY <1>1, <1>2, MinKeysFits DEF Lists

LEMMA OneMore ==
  ASSUME NEW S, NEW s \in Lists(S), Len(s) < MinKeys, NEW e \in S
  PROVE  <<e>> \o s \in Lists(S) /\ Append(s, e) \in Lists(S)
<1>1. s \in Seq(S) /\ Len(s) \in Nat
  BY DEF Lists
<1>2. <<e>> \in Seq(S) /\ Len(<<e>>) = 1
  OBVIOUS
<1>3. <<e>> \o s \in Seq(S) /\ Len(<<e>> \o s) = 1 + Len(s)
  BY <1>1, <1>2, ConcatProperties
<1>4. Append(s, e) \in Seq(S) /\ Len(Append(s, e)) = Len(s) + 1
  BY <1>1
<1> QED
  BY <1>1, <1>3, <1>4, MinKeysFits DEF Lists

LEMMA Together ==
  ASSUME NEW S, NEW s \in Seq(S), NEW t \in Seq(S), Len(s) + Len(t) <= 2 * MinKeys
  PROVE  s \o t \in Lists(S)
<1>1. s \o t \in Seq(S) /\ Len(s \o t) = Len(s) + Len(t)
  BY ConcatProperties
<1> QED
  BY <1>1, MinKeysFits DEF Lists

LEMMA OneLess ==
  ASSUME NEW S, NEW s \in Lists(S), NEW k \in 1 .. Len(s)
  PROVE  RemoveAt(s, k) \in Lists(S)
<1>1. s \in Seq(S) /\ Len(s) \in Nat
  BY DEF Lists
<1>2. RemoveAt(s, k) \in Seq(S) /\ Len(RemoveAt(s, k)) = Len(s) - 1
  BY <1>1, RemovedSeq
<1> QED
  BY <1>1, <1>2, MinKeysFits DEF Lists

LEMMA BorrowLeftTree ==
  ASSUME NEW n, NEW rk, NEW ix, Tree(ix, n, rk), NEW page \in 1 .. n, NEW left \in 1 .. n,
         NEW parent \in 1 .. n, rk[page] = 0, rk[left] = 0, rk[parent] # 0,
         NEW k \in 1 .. Len(ix.node[parent].entries),
         Len(ix.node[page].entries) < MinKeys, Len(ix.node[left].entries) > MinKeys
  PROVE  Tree(BorrowLeft(ix, page, left, parent, k), n, rk)
<1> DEFINE give == ix.node[left].entries
           e == Last(give)
           s == <<e>> \o ix.node[page].entries
           t == Front(give)
           a == WithEntries(ix, page, s)
           b == WithEntries(a, left, t)
<1>1. e \in Records /\ t \in Lists(Records)
  <2>1. give \in Lists(Records) /\ give # <<>>
    BY PageFields, MinKeysFits, SMTT(30) DEF Ents
  <2> QED
    BY <2>1, LastFront
<1>2. s \in Lists(Records)
  <2>1. ix.node[page].entries \in Lists(Records)
    BY PageFields DEF Ents
  <2> HIDE DEF e
  <2> QED
    BY <1>1, <2>1, OneMore
<1>3. Tree(a, n, rk) /\ \A q \in 1 .. n : q # page => a.node[q] = ix.node[q]
  <2> HIDE DEF s
  <2>1. s \in Lists(Ents(n, rk, rk[page]))
    BY <1>2 DEF Ents
  <2> QED
    BY <2>1, SetEntries
<1>4. Tree(b, n, rk) /\ \A q \in 1 .. n : q # left => b.node[q] = a.node[q]
  <2> HIDE DEF a, t
  <2>1. t \in Lists(Ents(n, rk, rk[left]))
    BY <1>1 DEF Ents
  <2> QED
    BY <1>3, <2>1, SetEntries
<1>5. b.node[parent] = ix.node[parent]
  <2> HIDE DEF a, b
  <2> QED
    BY <1>3, <1>4
<1>6. Tree(WithKey(b, parent, k, e.key), n, rk)
  <2>1. e.key \in Keys
    BY <1>1 DEF Keys
  <2> HIDE DEF b, e
  <2> QED
    BY SMTT(40), <1>4, <1>5, <2>1, SetKey
<1>7. BorrowLeft(ix, page, left, parent, k) = WithKey(b, parent, k, e.key)
  BY DEF BorrowLeft, WithKey, WithEntries
<1> QED
  BY <1>6, <1>7

LEMMA BorrowRightTree ==
  ASSUME NEW n, NEW rk, NEW ix, Tree(ix, n, rk), NEW page \in 1 .. n, NEW right \in 1 .. n,
         NEW parent \in 1 .. n, rk[page] = 0, rk[right] = 0, rk[parent] # 0,
         NEW k \in 1 .. Len(ix.node[parent].entries),
         Len(ix.node[page].entries) < MinKeys, Len(ix.node[right].entries) > MinKeys
  PROVE  Tree(BorrowRight(ix, page, right, parent, k), n, rk)
<1> DEFINE give == ix.node[right].entries
           e == Head(give)
           s == Append(ix.node[page].entries, e)
           t == Tail(give)
           a == WithEntries(ix, page, s)
           b == WithEntries(a, right, t)
           key == IF t = <<>> THEN ix.node[parent].entries[k].key ELSE Head(t).key
<1>1. e \in Records /\ t \in Lists(Records)
  <2>1. give \in Lists(Records) /\ give # <<>>
    BY PageFields, MinKeysFits DEF Ents
  <2> QED
    BY <2>1, HeadTail
<1>2. s \in Lists(Records)
  <2>1. ix.node[page].entries \in Lists(Records)
    BY PageFields DEF Ents
  <2> HIDE DEF e
  <2> QED
    BY <1>1, <2>1, OneMore
<1>3. Tree(a, n, rk) /\ \A q \in 1 .. n : q # page => a.node[q] = ix.node[q]
  <2> HIDE DEF s
  <2>1. s \in Lists(Ents(n, rk, rk[page]))
    BY <1>2 DEF Ents
  <2> QED
    BY <2>1, SetEntries
<1>4. Tree(b, n, rk) /\ \A q \in 1 .. n : q # right => b.node[q] = a.node[q]
  <2> HIDE DEF a, t
  <2>1. t \in Lists(Ents(n, rk, rk[right]))
    BY <1>1 DEF Ents
  <2> QED
    BY <1>3, <2>1, SetEntries
<1>5. b.node[parent] = ix.node[parent]
  <2> HIDE DEF a, b
  <2> QED
    BY <1>3, <1>4
<1>6. key \in Keys
  <2>1. ix.node[parent].entries[k] \in Ents(n, rk, rk[parent]) /\ n \in Nat
    BY PageFields
  <2>2. ix.node[parent].entries[k].key \in Keys
    BY <2>1, EntryFields
  <2>3. t # <<>> => Head(t).key \in Keys
    <3> HIDE DEF t
    <3>1. t # <<>> => Head(t) \in Records
      BY <1>1, HeadTail
    <3> QED
      BY <3>1 DEF Keys
  <2> QED
    BY <2>2, <2>3
<1>7. Tree(WithKey(b, parent, k, key), n, rk)
  <2> HIDE DEF b, key
  <2> QED
    BY <1>4, <1>5, <1>6, SetKey
<1>8. BorrowRight(ix, page, right, parent, k) = WithKey(b, parent, k, key)
  BY DEF BorrowRight, WithKey, WithEntries
<1> QED
  BY <1>7, <1>8

Keeps(new, ix, p) == new.node[p].entries = ix.node[p].entries

LEMMA AbsorbTree ==
  ASSUME NEW n, NEW rk, NEW ix, Tree(ix, n, rk), NEW page \in 1 .. n, NEW right \in 1 .. n,
         rk[page] = 0, rk[right] = 0,
         Len(ix.node[page].entries) + Len(ix.node[right].entries) <= 2 * MinKeys
  PROVE  /\ Tree(Absorb(ix, page, right), n, rk)
         /\ \A q \in 1 .. n : rk[q] # 0 => Keeps(Absorb(ix, page, right), ix, q)
<1> DEFINE s == ix.node[page].entries \o ix.node[right].entries
           next == ix.node[right].next
           a == WithEntries(ix, page, s)
           b == WithNext(a, page, next)
           c == WithPrev(b, next, page)
<1>1. s \in Lists(Ents(n, rk, rk[page]))
  <2>1. ix.node[page].entries \in Seq(Records) /\ ix.node[right].entries \in Seq(Records)
    BY PageFields DEF Ents
  <2> QED
    BY <2>1, Together DEF Ents
<1>2. next \in 0 .. n
  BY PageFields
<1>3. Tree(a, n, rk) /\ \A q \in 1 .. n : q # page => a.node[q] = ix.node[q]
  <2> HIDE DEF s
  <2> QED
    BY <1>1, SetEntries
<1>4. Tree(b, n, rk) /\ \A q \in 1 .. n : q # page => b.node[q] = a.node[q]
  <2> HIDE DEF a, next
  <2>1. Tree(b, n, rk)
    BY <1>2, <1>3, SetNeighbour
  <2> QED
    BY <1>3, <2>1 DEF WithNext, Tree
<1>5. next # NoPage => /\ Tree(c, n, rk)
                       /\ \A q \in 1 .. n : q # next => c.node[q] = b.node[q]
                       /\ c.node[next].entries = b.node[next].entries
  <2> HIDE DEF b, next
  <2>1. next # NoPage => next \in 1 .. n
    BY <1>2 DEF NoPage
  <2>2. next # NoPage => Tree(c, n, rk)
    BY <1>4, <2>1, SetNeighbour
  <2>3. next # NoPage => /\ \A q \in 1 .. n : q # next => c.node[q] = b.node[q]
                         /\ c.node[next].entries = b.node[next].entries
    BY <1>4, <2>1 DEF WithPrev, Tree, NodesAt, Leaves, Inner
  <2> QED
    BY <2>2, <2>3
<1>6. Absorb(ix, page, right) = IF next = NoPage THEN b ELSE c
  BY DEF Absorb, WithEntries, WithNext, WithPrev
<1>7. \A q \in 1 .. n : rk[q] # 0 => b.node[q] = ix.node[q]
  <2> HIDE DEF a, b
  <2> QED
    BY <1>3, <1>4
<1> HIDE DEF b, c, next
<1> QED
  BY <1>4, <1>5, <1>6, <1>7 DEF Keeps

\* A key from anywhere with a child of the right rank is an entry.
LEMMA EntryOf ==
  ASSUME NEW n, NEW rk, NEW r, r # 0, NEW key \in Keys, NEW child \in Below(n, rk, r)
  PROVE  [key |-> key, child |-> child] \in Ents(n, rk, r)
BY DEF Ents, Kids

LEMMA SeparatorKey ==
  ASSUME NEW n, NEW rk, NEW ix, Tree(ix, n, rk), NEW parent \in 1 .. n,
         NEW k \in 1 .. Len(ix.node[parent].entries)
  PROVE  ix.node[parent].entries[k].key \in Keys
<1>1. ix.node[parent].entries[k] \in Ents(n, rk, rk[parent]) /\ n \in Nat
  BY PageFields
<1> QED
  BY <1>1, EntryFields

LEMMA BorrowInternalLeftTree ==
  ASSUME NEW n, NEW rk, NEW ix, Tree(ix, n, rk), NEW page \in 1 .. n, NEW left \in 1 .. n,
         NEW parent \in 1 .. n, rk[page] # 0, rk[left] = rk[page], rk[parent] # rk[page],
         rk[parent] # 0, NEW k \in 1 .. Len(ix.node[parent].entries),
         Len(ix.node[page].entries) < MinKeys, Len(ix.node[left].entries) > MinKeys
  PROVE  Tree(BorrowInternalLeft(ix, page, left, parent, k), n, rk)
<1> DEFINE give == ix.node[left].entries
           e == Last(give)
           sep == ix.node[parent].entries[k].key
           x == [key |-> sep, child |-> ix.node[page].leftMost]
           s == <<x>> \o ix.node[page].entries
           t == Front(give)
           a == WithEntries(ix, page, s)
           b == WithLeftMost(a, page, e.child)
           c == WithEntries(b, left, t)
           d == WithKey(c, parent, k, e.key)
<1>0. n \in Nat
  BY DEF Tree
<1>1. e \in Ents(n, rk, rk[page]) /\ t \in Lists(Ents(n, rk, rk[left]))
  <2>1. give \in Lists(Ents(n, rk, rk[left])) /\ give # <<>>
    BY PageFields, MinKeysFits
  <2> QED
    BY <2>1, LastFront
<1>2. e.key \in Keys /\ e.child \in Below(n, rk, rk[page])
  <2> HIDE DEF e
  <2> QED
    BY <1>0, <1>1, EntryFields
<1>3. s \in Lists(Ents(n, rk, rk[page]))
  <2>1. sep \in Keys
    BY SeparatorKey
  <2>2. ix.node[page].leftMost \in Below(n, rk, rk[page])
        /\ ix.node[page].entries \in Lists(Ents(n, rk, rk[page]))
    BY PageFields
  <2> HIDE DEF sep
  <2>3. x \in Ents(n, rk, rk[page])
    BY <2>1, <2>2, EntryOf
  <2> HIDE DEF x
  <2> QED
    BY <2>2, <2>3, OneMore
<1>4. Tree(a, n, rk) /\ \A q \in 1 .. n : q # page => a.node[q] = ix.node[q]
  <2> HIDE DEF s
  <2> QED
    BY <1>3, SetEntries
<1>5. Tree(b, n, rk) /\ \A q \in 1 .. n : q # page => b.node[q] = a.node[q]
  <2> HIDE DEF a, e
  <2> QED
    BY <1>2, <1>4, SetLeftMost
<1>6. Tree(c, n, rk) /\ \A q \in 1 .. n : q # left => c.node[q] = b.node[q]
  <2> HIDE DEF b, t
  <2> QED
    BY <1>1, <1>5, SetEntries
<1>7. c.node[parent] = ix.node[parent]
  <2> HIDE DEF a, b, c
  <2> QED
    BY <1>4, <1>5, <1>6
<1>8. Tree(d, n, rk)
  <2> HIDE DEF c, e
  <2> QED
    BY <1>2, <1>6, <1>7, SetKey
<1>9. Tree(SetChildrenParent(d, <<e.child>>, page), n, rk)
  <2>1. <<e.child>> \in Seq(Below(n, rk, rk[page]))
    BY <1>2
  <2> HIDE DEF d, e
  <2> QED
    BY <1>8, <2>1, ToldTree
<1>10. BorrowInternalLeft(ix, page, left, parent, k) = SetChildrenParent(d, <<e.child>>, page)
  BY DEF BorrowInternalLeft, WithKey, WithEntries, WithLeftMost
<1> QED
  BY <1>9, <1>10

LEMMA BorrowInternalRightTree ==
  ASSUME NEW n, NEW rk, NEW ix, Tree(ix, n, rk), NEW page \in 1 .. n, NEW right \in 1 .. n,
         NEW parent \in 1 .. n, rk[page] # 0, rk[right] = rk[page], rk[parent] # rk[page],
         rk[parent] # 0, NEW k \in 1 .. Len(ix.node[parent].entries),
         Len(ix.node[page].entries) < MinKeys, Len(ix.node[right].entries) > MinKeys
  PROVE  Tree(BorrowInternalRight(ix, page, right, parent, k), n, rk)
<1> DEFINE give == ix.node[right].entries
           e == Head(give)
           sep == ix.node[parent].entries[k].key
           moved == ix.node[right].leftMost
           x == [key |-> sep, child |-> moved]
           s == Append(ix.node[page].entries, x)
           t == Tail(give)
           a == WithEntries(ix, page, s)
           b == WithLeftMost(a, right, e.child)
           c == WithEntries(b, right, t)
           d == WithKey(c, parent, k, e.key)
<1>0. n \in Nat
  BY DEF Tree
<1>1. e \in Ents(n, rk, rk[right]) /\ t \in Lists(Ents(n, rk, rk[right]))
  <2>1. give \in Lists(Ents(n, rk, rk[right])) /\ give # <<>>
    BY PageFields, MinKeysFits
  <2> QED
    BY <2>1, HeadTail
<1>2. e.key \in Keys /\ e.child \in Below(n, rk, rk[right])
  <2> HIDE DEF e
  <2> QED
    BY <1>0, <1>1, EntryFields
<1>3. s \in Lists(Ents(n, rk, rk[page])) /\ moved \in Below(n, rk, rk[page])
  <2>1. sep \in Keys
    BY SeparatorKey
  <2>2. moved \in Below(n, rk, rk[page])
        /\ ix.node[page].entries \in Lists(Ents(n, rk, rk[page]))
    BY PageFields
  <2> HIDE DEF sep, moved
  <2>3. x \in Ents(n, rk, rk[page])
    BY <2>1, <2>2, EntryOf
  <2> HIDE DEF x
  <2> QED
    BY <2>2, <2>3, OneMore
<1>4. Tree(a, n, rk) /\ \A q \in 1 .. n : q # page => a.node[q] = ix.node[q]
  <2> HIDE DEF s
  <2> QED
    BY <1>3, SetEntries
<1>5. Tree(b, n, rk) /\ \A q \in 1 .. n : q # right => b.node[q] = a.node[q]
  <2> HIDE DEF a, e
  <2> QED
    BY <1>2, <1>4, SetLeftMost
<1>6. Tree(c, n, rk) /\ \A q \in 1 .. n : q # right => c.node[q] = b.node[q]
  <2> HIDE DEF b, t
  <2> QED
    BY <1>1, <1>5, SetEntries
<1>7. c.node[parent] = ix.node[parent]
  <2> HIDE DEF a, b, c
  <2> QED
    BY <1>4, <1>5, <1>6
<1>8. Tree(d, n, rk)
  <2> HIDE DEF c, e
  <2> QED
    BY <1>2, <1>6, <1>7, SetKey
<1>9. Tree(SetChildrenParent(d, <<moved>>, page), n, rk)
  <2>1. <<moved>> \in Seq(Below(n, rk, rk[page]))
    BY <1>3
  <2> HIDE DEF d, moved
  <2> QED
    BY <1>8, <2>1, ToldTree
<1>10. BorrowInternalRight(ix, page, right, parent, k) = SetChildrenParent(d, <<moved>>, page)
  BY DEF BorrowInternalRight, WithKey, WithEntries, WithLeftMost
<1> QED
  BY <1>9, <1>10

LEMMA ChildrenOfEntries ==
  ASSUME NEW n \in Nat, NEW rk, NEW r, r # 0, NEW s \in Seq(Ents(n, rk, r))
  PROVE  ChildrenOf(s) \in Seq(Below(n, rk, r))
<1>1. Len(s) \in Nat /\ DOMAIN s = 1 .. Len(s)
  OBVIOUS
<1>2. \A i \in 1 .. Len(s) : s[i].child \in Below(n, rk, r)
  BY EntryFields
<1> QED
  BY <1>1, <1>2 DEF ChildrenOf

LEMMA AbsorbInternalTree ==
  ASSUME NEW n, NEW rk, NEW ix, Tree(ix, n, rk), NEW page \in 1 .. n, NEW right \in 1 .. n,
         NEW parent \in 1 .. n, rk[page] # 0, rk[right] = rk[page], rk[parent] # rk[page],
         NEW k \in 1 .. Len(ix.node[parent].entries),
         Len(ix.node[page].entries) + Len(ix.node[right].entries) < 2 * MinKeys
  PROVE  /\ Tree(AbsorbInternal(ix, page, right, parent, k), n, rk)
         /\ Keeps(AbsorbInternal(ix, page, right, parent, k), ix, parent)
<1> DEFINE sep == ix.node[parent].entries[k].key
           x == [key |-> sep, child |-> ix.node[right].leftMost]
           moved == <<x>> \o ix.node[right].entries
           s == ix.node[page].entries \o moved
           a == WithEntries(ix, page, s)
           b == SetChildrenParent(a, ChildrenOf(moved), page)
<1>0. n \in Nat
  BY DEF Tree
<1>1. /\ ix.node[page].entries \in Seq(Ents(n, rk, rk[page]))
      /\ ix.node[right].entries \in Seq(Ents(n, rk, rk[page]))
      /\ ix.node[right].leftMost \in Below(n, rk, rk[page])
      /\ Len(ix.node[page].entries) \in Nat /\ Len(ix.node[right].entries) \in Nat
  BY PageFields
<1>2. x \in Ents(n, rk, rk[page])
  <2>1. sep \in Keys
    BY SeparatorKey
  <2> HIDE DEF sep
  <2> QED
    BY <1>1, <2>1, EntryOf
<1>3. moved \in Seq(Ents(n, rk, rk[page])) /\ Len(moved) = 1 + Len(ix.node[right].entries)
  <2> HIDE DEF x
  <2>1. <<x>> \in Seq(Ents(n, rk, rk[page])) /\ Len(<<x>>) = 1
    BY <1>2
  <2> QED
    BY <1>1, <2>1, ConcatProperties
<1> HIDE DEF moved
<1>4. s \in Lists(Ents(n, rk, rk[page]))
  <2>1. Len(ix.node[page].entries) + Len(moved) <= 2 * MinKeys
    <3>1. \A x1, x2, m \in Nat : x1 + x2 < 2 * m => x1 + (1 + x2) <= 2 * m
      OBVIOUS
    <3>2. MinKeys \in Nat
      BY MinKeysFits
    <3> QED
      BY <1>1, <1>3, <3>1, <3>2
  <2> QED
    BY <1>1, <1>3, <2>1, Together
<1>5. Tree(a, n, rk) /\ a.node[parent] = ix.node[parent]
  <2> HIDE DEF s
  <2> QED
    BY <1>4, SetEntries
<1>6. Tree(b, n, rk) /\ b.node[parent].entries = a.node[parent].entries
  <2>1. ChildrenOf(moved) \in Seq(Below(n, rk, rk[page]))
    BY <1>0, <1>3, ChildrenOfEntries
  <2> HIDE DEF a
  <2>2. Tree(b, n, rk) /\ Alike(b, a, n)
    BY <1>5, <2>1, ToldTree
  <2> QED
    BY <2>2 DEF Alike
<1>7. AbsorbInternal(ix, page, right, parent, k) = b
  BY DEF AbsorbInternal, WithEntries, moved
<1> QED
  BY <1>5, <1>6, <1>7 DEF Keeps

-----------------------------------------------------------------------------
\* removeParentEntryAt and rebalanceInternalAfterDelete, level by level.

\* Where the way up may be: at an entry of an internal node, or at its end.
Going(l, n, rk) ==
    /\ Tree(l.index, n, rk)
    /\ l.page # NoPage => /\ l.page \in 1 .. n /\ rk[l.page] # 0
                          /\ l.k \in 1 .. Len(l.index.node[l.page].entries)
    /\ l.by \in Seq(1 .. n)
Goings(n, rk) ==
    {l \in [index : Files(n, rk), page : Nat, k : Nat, by : Seq(1 .. n)] : Going(l, n, rk)}

LEMMA EndsGoes ==
  ASSUME NEW n, NEW rk, NEW ix, Tree(ix, n, rk)
  PROVE  Ends(ix) \in Goings(n, rk)
<1>1. ix \in Files(n, rk)
  BY TreeIsFile
<1>2. <<>> \in Seq(1 .. n)
  OBVIOUS
<1> QED
  BY <1>1, <1>2 DEF Ends, Removes, Goings, Going, NoPage

LEMMA RemovesGoes ==
  ASSUME NEW n, NEW rk, NEW ix, Tree(ix, n, rk), NEW page \in 1 .. n, rk[page] # 0,
         NEW k \in 1 .. Len(ix.node[page].entries), NEW by \in Seq(1 .. n)
  PROVE  Removes(ix, page, k, by) \in Goings(n, rk)
<1>1. ix \in Files(n, rk) /\ n \in Nat
  BY TreeIsFile DEF Tree
<1>2. Len(ix.node[page].entries) \in Nat
  BY PageFields
<1>3. page \in Nat /\ k \in Nat
  BY <1>1, <1>2
<1> QED
  BY <1>1, <1>3 DEF Removes, Goings, Going

\* The neighbours of a child are at its level.
LEMMA Neighbours ==
  ASSUME NEW n, NEW rk, NEW ix, Tree(ix, n, rk), NEW parent \in 1 .. n, rk[parent] # 0,
         NEW i \in 0 .. Len(ix.node[parent].entries)
  PROVE  ChildAt(ix.node[parent], i) \in Below(n, rk, rk[parent])
<1> DEFINE nd == ix.node[parent]
<1>1. /\ nd.leftMost \in Below(n, rk, rk[parent])
      /\ nd.entries \in Seq(Ents(n, rk, rk[parent])) /\ Len(nd.entries) \in Nat /\ n \in Nat
  BY PageFields
<1>2. CASE i = 0
  BY <1>1, <1>2 DEF ChildAt
<1>3. CASE i # 0
  <2>1. i \in 1 .. Len(nd.entries) /\ i <= Len(nd.entries)
    BY <1>1, <1>3
  <2>2. nd.entries[i].child \in Below(n, rk, rk[parent])
    BY <1>1, <2>1, EntryFields
  <2> QED
    BY <1>3, <2>1, <2>2 DEF ChildAt
<1> QED
  BY <1>2, <1>3

LEMMA RebalanceGoes ==
  ASSUME NEW n, NEW rk, NEW ix, Tree(ix, n, rk), NEW page \in 1 .. n, rk[page] # 0,
         NEW call, call.info.height \in Nat
  PROVE  RebalanceInternal(ix, call, page) \in Goings(n, rk)
<1> DEFINE nd     == ix.node[page]
           parent == nd.parent
           ph     == ix.node[parent]
           i      == FindChildIndex(ph, page)
           left   == IF i > 0 THEN ChildAt(ph, i - 1) ELSE NoPage
           right  == IF i + 1 <= Len(ph.entries) THEN ChildAt(ph, i + 1) ELSE NoPage
           held   == Pin(ix, parent)
<1>1. CASE parent = NoPage
  <2>1. Tree(ShrinkRootIfNeeded(ix, call, page), n, rk)
    BY ShrinkTree
  <2>2. Ends(ShrinkRootIfNeeded(ix, call, page)) \in Goings(n, rk)
    BY <2>1, EndsGoes
  <2> QED
    BY <1>1, <2>2 DEF RebalanceInternal
<1>2. CASE parent # NoPage /\ (~Underfull(nd) \/ i < 0)
  <2>1. RebalanceInternal(ix, call, page) = Ends(ix)
    BY <1>2 DEF RebalanceInternal
  <2> QED
    BY <2>1, EndsGoes, SMTT(30)
<1>3. CASE parent # NoPage /\ Underfull(nd) /\ ~(i < 0)
  <2>1. /\ n \in Nat /\ rk \in [1 .. n -> Nat] /\ rk[page] \in Nat
        /\ parent \in 1 .. n /\ rk[parent] = rk[page] + 1
    <3>1. n \in Nat /\ rk \in [1 .. n -> Nat] /\ parent \in Above(n, rk, rk[page])
          /\ rk[page] \in Nat
      BY PageFields
    <3> QED
      BY <1>3, <3>1 DEF Above
  <2>2. ph.entries \in Seq(Ents(n, rk, rk[parent])) /\ Len(ph.entries) \in Nat
    BY <2>1, PageFields
  <2>3. i \in 0 .. Len(ph.entries)
    <3>1. i \in -1 .. Len(ph.entries)
      <4> HIDE DEF parent
      <4> QED
        BY <2>2, ChildPlace
    <3> HIDE DEF i
    <3> QED
      BY <1>3, <2>2, <3>1
  <2>4. rk[parent] # 0 /\ rk[parent] # rk[page]
    BY <2>1
  <2>5. left # NoPage => left \in 1 .. n /\ rk[left] = rk[page] /\ i \in 1 .. Len(ph.entries)
    <3> HIDE DEF parent, i
    <3>1. CASE i > 0
      <4>1. i - 1 \in 0 .. Len(ph.entries) /\ i \in 1 .. Len(ph.entries)
        BY <2>2, <2>3, <3>1
      <4>2. ChildAt(ph, i - 1) \in Below(n, rk, rk[parent])
        BY <2>1, <2>4, <4>1, Neighbours
      <4> QED
        BY <2>1, <3>1, <4>1, <4>2 DEF Below
    <3>2. CASE ~(i > 0)
      BY <3>2
    <3> QED
      BY <3>1, <3>2
  <2>6. right # NoPage => right \in 1 .. n /\ rk[right] = rk[page] /\ i + 1 \in 1 .. Len(ph.entries)
    <3> HIDE DEF parent, i
    <3>1. CASE i + 1 <= Len(ph.entries)
      <4>1. i + 1 \in 0 .. Len(ph.entries) /\ i + 1 \in 1 .. Len(ph.entries)
        BY <2>2, <2>3, <3>1
      <4>2. ChildAt(ph, i + 1) \in Below(n, rk, rk[parent])
        BY <2>1, <2>4, <4>1, Neighbours
      <4> QED
        BY <2>1, <3>1, <4>1, <4>2 DEF Below
    <3>2. CASE ~(i + 1 <= Len(ph.entries))
      BY <3>2
    <3> QED
      BY <3>1, <3>2
  <2>7. Tree(held, n, rk) /\ held.node = ix.node
    <3> HIDE DEF parent
    <3> QED
      BY <2>1, PinTree
  <2>8. \A q \in 1 .. n : Len(ix.node[q].entries) \in Nat
    BY PageFields
  <2>9. Len(nd.entries) < MinKeys /\ Len(nd.entries) \in Nat
    BY <1>3, <2>8 DEF Underfull
  <2>0. \A a, b \in Nat : a < MinKeys /\ ~(b > MinKeys) => a + b < 2 * MinKeys /\ b + a < 2 * MinKeys
    <3>1. \A a, b, m \in Nat : a < m /\ ~(b > m) => a + b < 2 * m /\ b + a < 2 * m
      OBVIOUS
    <3> QED
      BY <3>1, MinKeysFits
  <2>10. RebalanceInternal(ix, call, page) =
          IF left # NoPage /\ Lends(ix.node[left], "internal")
          THEN Ends(BorrowInternalLeft(ix, page, left, parent, i))
          ELSE IF right # NoPage /\ Lends(ix.node[right], "internal")
          THEN Ends(BorrowInternalRight(ix, page, right, parent, i + 1))
          ELSE IF left # NoPage /\ ix.node[left].kind = "internal"
          THEN Removes(AbsorbInternal(held, left, page, parent, i), parent, i, <<left>>)
          ELSE IF right # NoPage /\ ix.node[right].kind = "internal"
          THEN Removes(AbsorbInternal(held, page, right, parent, i + 1), parent, i + 1, <<parent>>)
          ELSE Ends(ix)
    BY <1>3 DEF RebalanceInternal
  <2> HIDE DEF parent, i, left, right, held
  <2>11. ASSUME left # NoPage, Lends(ix.node[left], "internal")
         PROVE  Ends(BorrowInternalLeft(ix, page, left, parent, i)) \in Goings(n, rk)
    <3>1. Len(ix.node[left].entries) > MinKeys
      BY <2>11 DEF Lends
    <3>2. Tree(BorrowInternalLeft(ix, page, left, parent, i), n, rk)
      BY <2>1, <2>4, <2>5, <2>9, <2>11, <3>1, BorrowInternalLeftTree
    <3> QED
      BY <3>2, EndsGoes
  <2>12. ASSUME right # NoPage, Lends(ix.node[right], "internal")
         PROVE  Ends(BorrowInternalRight(ix, page, right, parent, i + 1)) \in Goings(n, rk)
    <3>1. Len(ix.node[right].entries) > MinKeys
      BY <2>12 DEF Lends
    <3>2. Tree(BorrowInternalRight(ix, page, right, parent, i + 1), n, rk)
      BY <2>1, <2>4, <2>6, <2>9, <2>12, <3>1, BorrowInternalRightTree
    <3> QED
      BY <3>2, EndsGoes
  <2>13. ASSUME left # NoPage, ~Lends(ix.node[left], "internal"), ix.node[left].kind = "internal"
         PROVE  Removes(AbsorbInternal(held, left, page, parent, i), parent, i, <<left>>)
                  \in Goings(n, rk)
    <3> DEFINE new == AbsorbInternal(held, left, page, parent, i)
    <3>1. Len(held.node[left].entries) + Len(held.node[page].entries) < 2 * MinKeys
      BY <2>0, <2>5, <2>7, <2>8, <2>9, <2>13 DEF Lends
    <3>2. Tree(new, n, rk) /\ new.node[parent].entries = held.node[parent].entries
      <4>1. left \in 1 .. n /\ rk[left] # 0 /\ rk[page] = rk[left] /\ rk[parent] # rk[left]
            /\ i \in 1 .. Len(held.node[parent].entries)
        BY <2>4, <2>5, <2>7, <2>13
      <4>2. Tree(new, n, rk) /\ Keeps(new, held, parent)
        BY <2>1, <2>7, <3>1, <4>1, AbsorbInternalTree
      <4> QED
        BY <4>2 DEF Keeps
    <3>3. i \in 1 .. Len(new.node[parent].entries) /\ <<left>> \in Seq(1 .. n)
      BY <2>5, <2>7, <2>13, <3>2
    <3> HIDE DEF new
    <3>4. Removes(new, parent, i, <<left>>) \in Goings(n, rk)
      BY <2>1, <2>4, <3>2, <3>3, RemovesGoes
    <3> QED
      BY <3>4 DEF new
  <2>14. ASSUME right # NoPage, ~Lends(ix.node[right], "internal"), ix.node[right].kind = "internal"
         PROVE  Removes(AbsorbInternal(held, page, right, parent, i + 1), parent, i + 1, <<parent>>)
                  \in Goings(n, rk)
    <3> DEFINE new == AbsorbInternal(held, page, right, parent, i + 1)
    <3>1. Len(held.node[page].entries) + Len(held.node[right].entries) < 2 * MinKeys
      BY <2>0, <2>6, <2>7, <2>8, <2>9, <2>14 DEF Lends
    <3>2. Tree(new, n, rk) /\ new.node[parent].entries = held.node[parent].entries
      <4>1. right \in 1 .. n /\ i + 1 \in 1 .. Len(held.node[parent].entries)
        BY <2>6, <2>7, <2>14
      <4>2. Tree(new, n, rk) /\ Keeps(new, held, parent)
        BY <2>1, <2>4, <2>6, <2>7, <2>14, <3>1, <4>1, AbsorbInternalTree
      <4> QED
        BY <4>2 DEF Keeps
    <3>3. i + 1 \in 1 .. Len(new.node[parent].entries) /\ <<parent>> \in Seq(1 .. n)
      BY <2>1, <2>6, <2>7, <2>14, <3>2
    <3> HIDE DEF new
    <3>4. Removes(new, parent, i + 1, <<parent>>) \in Goings(n, rk)
      BY <2>1, <2>4, <3>2, <3>3, RemovesGoes
    <3> QED
      BY <3>4 DEF new
  <2> QED
    BY <2>10, <2>11, <2>12, <2>13, <2>14, EndsGoes
<1> QED
  BY <1>1, <1>2, <1>3

LEMMA RemoveEntryGoes ==
  ASSUME NEW n, NEW rk, NEW ix, Tree(ix, n, rk), NEW page \in 1 .. n, rk[page] # 0,
         NEW k \in 1 .. Len(ix.node[page].entries), NEW call, call.info.height \in Nat
  PROVE  RemoveEntry(ix, call, page, k) \in Goings(n, rk)
<1> DEFINE s == RemoveAt(ix.node[page].entries, k)
           new == WithEntries(ix, page, s)
<1>1. s \in Lists(Ents(n, rk, rk[page]))
  BY PageFields, OneLess
<1>2. Tree(new, n, rk)
  <2> HIDE DEF s
  <2> QED
    BY <1>1, SetEntries
<1>3. RemoveEntry(ix, call, page, k) =
        IF ix.node[page].parent = NoPage THEN Ends(ShrinkRootIfNeeded(new, call, page))
        ELSE IF Underfull(new.node[page]) THEN RebalanceInternal(new, call, page)
        ELSE Ends(new)
  BY DEF RemoveEntry, WithEntries
<1> HIDE DEF new
<1>4. Tree(ShrinkRootIfNeeded(new, call, page), n, rk)
  BY <1>2, ShrinkTree
<1>5. /\ Ends(ShrinkRootIfNeeded(new, call, page)) \in Goings(n, rk)
      /\ RebalanceInternal(new, call, page) \in Goings(n, rk)
      /\ Ends(new) \in Goings(n, rk)
  BY <1>2, <1>4, EndsGoes, RebalanceGoes
<1> QED
  BY <1>3, <1>5

\* One turn of removeParentEntryAt.
RemoveTurn(l, call) ==
    LET m == RemoveEntry(l.index, call, l.page, l.k)
    IN  IF l.page = NoPage THEN l ELSE [m EXCEPT !.by = @ \o l.by]

LEMMA RemoveTurnGoes ==
  ASSUME NEW n, NEW rk, NEW l \in Goings(n, rk), NEW call, call.info.height \in Nat
  PROVE  RemoveTurn(l, call) \in Goings(n, rk)
<1>1. CASE l.page = NoPage
  BY <1>1 DEF RemoveTurn
<1>2. CASE l.page # NoPage
  <2> DEFINE m == RemoveEntry(l.index, call, l.page, l.k)
  <2>1. m \in Goings(n, rk)
    <3>1. /\ Tree(l.index, n, rk) /\ l.page \in 1 .. n /\ rk[l.page] # 0
          /\ l.k \in 1 .. Len(l.index.node[l.page].entries)
      BY <1>2 DEF Goings, Going
    <3> QED
      BY <3>1, RemoveEntryGoes
  <2>2. RemoveTurn(l, call) = [m EXCEPT !.by = @ \o l.by]
    BY <1>2 DEF RemoveTurn
  <2> HIDE DEF m
  <2>3. m.by \o l.by \in Seq(1 .. n)
    <3>1. m.by \in Seq(1 .. n) /\ l.by \in Seq(1 .. n)
      BY <2>1 DEF Goings
    <3> QED
      BY <3>1, ConcatProperties
  <2> QED
    BY <2>1, <2>2, <2>3 DEF Goings, Going
<1> QED
  BY <1>1, <1>2

LEMMA ReleasedTree ==
  ASSUME NEW n, NEW rk, NEW ix, Tree(ix, n, rk), NEW by \in Seq(1 .. n)
  PROVE  Tree(ReleasedBy(ix, by), n, rk)
<1> DEFINE last == Len(by)
           Turn(jx, m) == Release(jx, jx.node[by[m]].parent)
           S == {jx \in Files(n, rk) : Tree(jx, n, rk)}
           G == [m \in 1 .. last |-> [jx \in S |-> Turn(jx, m)]]
           f == CHOOSE f : f = [m \in 0 .. last |-> IF m = 0 THEN ix ELSE Turn(f[m - 1], m)]
<1>1. last \in Nat
  OBVIOUS
<1>2. ix \in S
  BY TreeIsFile
<1>3. ASSUME NEW jx \in S, NEW m \in 1 .. last PROVE Turn(jx, m) \in S
  <2>1. by[m] \in 1 .. n /\ Tree(jx, n, rk)
    BY ElementOfSeq
  <2>2. jx.node[by[m]].parent \in 0 .. n
    <3>1. jx.node[by[m]].parent \in Above(n, rk, rk[by[m]]) /\ n \in Nat
      BY <2>1, PageFields
    <3> QED
      BY <3>1 DEF Above, NoPage
  <2>3. Tree(Turn(jx, m), n, rk)
    BY <2>1, <2>2, ReleaseTree
  <2> HIDE DEF Turn
  <2> QED
    BY <2>3, TreeIsFile
<1> HIDE DEF Turn, S, last
<1>4. G \in [1 .. last -> [S -> S]]
  BY <1>3
<1>5. \A jx \in S : \A m \in 1 .. last : G[m][jx] = Turn(jx, m)
  OBVIOUS
<1> HIDE DEF G
<1>6. PICK g \in [0 .. last -> S] :
        g[0] = ix /\ \A m \in 1 .. last : g[m] = G[m][g[m - 1]]
  <2>1. Loops(S, ix, last, G)
    BY <1>1, <1>2, <1>4, LoopExists
  <2> QED
    BY <2>1 DEF Loops
<1>7. g = [m \in 0 .. last |-> IF m = 0 THEN ix ELSE Turn(g[m - 1], m)]
  <2>1. ASSUME NEW m \in 0 .. last PROVE g[m] = IF m = 0 THEN ix ELSE Turn(g[m - 1], m)
    <3>1. m # 0 => m \in 1 .. last /\ g[m - 1] \in S
      BY <1>1
    <3> QED
      BY <1>5, <1>6, <3>1
  <2>2. g = [m \in 0 .. last |-> g[m]]
    OBVIOUS
  <2> QED
    BY <2>1, <2>2
<1>8. f = [m \in 0 .. last |-> IF m = 0 THEN ix ELSE Turn(f[m - 1], m)]
  BY <1>7
<1>9. ReleasedBy(ix, by) = f[last]
  BY DEF ReleasedBy, Turn, last
<1> HIDE DEF f
<1>10. \A m \in 0 .. last : f[m] \in S
  <2>1. f[0] \in S
    BY <1>1, <1>2, <1>8
  <2>2. \A m \in 1 .. last : f[m - 1] \in S => f[m] \in S
    BY <1>1, <1>3, <1>8
  <2> QED
    BY <1>1, <2>1, <2>2, LoopKeeps
<1>11. f[last] \in S
  BY <1>1, <1>10
<1> QED
  BY <1>9, <1>11 DEF S

LEMMA SizeOf ==
  ASSUME NEW n, NEW rk, NEW ix, Tree(ix, n, rk)
  PROVE  Size(ix) = n /\ n \in Nat /\ DOMAIN ix.node = 1 .. n
<1>1. n \in Nat /\ DOMAIN ix.node = 1 .. n
  BY DEF Tree
<1>2. Len(ix.node) = n
  <2> DEFINE T == UNION {NodesAt(n, rk, r) : r \in Nat}
  <2>1. ix.node \in [1 .. n -> T]
    BY DEF Tree
  <2> HIDE DEF T
  <2>2. ix.node \in Seq(T)
    BY <1>1, <2>1
  <2> QED
    BY <1>1, <2>2, LenProperties
<1> QED
  BY <1>1, <1>2 DEF Size

LEMMA RemoveParentTree ==
  ASSUME NEW n, NEW rk, NEW ix, Tree(ix, n, rk), NEW page \in 1 .. n, rk[page] # 0,
         NEW k \in 1 .. Len(ix.node[page].entries), NEW call, call.info.height \in Nat
  PROVE  Tree(RemoveParentEntryAt(ix, call, page, k), n, rk)
<1> DEFINE last == Size(ix)
           first == Removes(ix, page, k, <<>>)
           S == Goings(n, rk)
           G == [m \in 1 .. last |-> [l \in S |-> RemoveTurn(l, call)]]
           f == CHOOSE f :
                  f = [m \in 0 .. last |-> IF m = 0 THEN first ELSE RemoveTurn(f[m - 1], call)]
<1>1. last \in Nat
  BY SizeOf
<1>2. first \in S
  <2>1. <<>> \in Seq(1 .. n)
    OBVIOUS
  <2> QED
    BY <2>1, RemovesGoes
<1>3. \A l \in S : RemoveTurn(l, call) \in S
  BY RemoveTurnGoes
<1> HIDE DEF S, last, first
<1>4. G \in [1 .. last -> [S -> S]]
  BY <1>3
<1>5. \A l \in S : \A m \in 1 .. last : G[m][l] = RemoveTurn(l, call)
  OBVIOUS
<1> HIDE DEF G
<1>6. PICK g \in [0 .. last -> S] :
        g[0] = first /\ \A m \in 1 .. last : g[m] = G[m][g[m - 1]]
  <2>1. Loops(S, first, last, G)
    BY <1>1, <1>2, <1>4, LoopExists
  <2> QED
    BY <2>1 DEF Loops
<1>7. g = [m \in 0 .. last |-> IF m = 0 THEN first ELSE RemoveTurn(g[m - 1], call)]
  <2>1. ASSUME NEW m \in 0 .. last
        PROVE g[m] = IF m = 0 THEN first ELSE RemoveTurn(g[m - 1], call)
    <3>1. m # 0 => m \in 1 .. last /\ g[m - 1] \in S
      BY <1>1
    <3> QED
      BY <1>5, <1>6, <3>1
  <2>2. g = [m \in 0 .. last |-> g[m]]
    OBVIOUS
  <2> QED
    BY <2>1, <2>2
<1>8. f = [m \in 0 .. last |-> IF m = 0 THEN first ELSE RemoveTurn(f[m - 1], call)]
  BY <1>7
<1>9. RemoveParentEntryAt(ix, call, page, k) = ReleasedBy(f[last].index, f[last].by)
  BY DEF RemoveParentEntryAt, RemoveTurn, last, first
<1> HIDE DEF f
<1>10. \A m \in 0 .. last : f[m] \in S
  <2>1. f[0] \in S
    BY <1>1, <1>2, <1>8
  <2>2. \A m \in 1 .. last : f[m - 1] \in S => f[m] \in S
    BY <1>1, <1>3, <1>8
  <2> QED
    BY <1>1, <2>1, <2>2, LoopKeeps
<1>11. f[last] \in S
  BY <1>1, <1>10
<1>12. Tree(f[last].index, n, rk) /\ f[last].by \in Seq(1 .. n)
  BY <1>11 DEF S, Goings, Going
<1> QED
  BY <1>9, <1>12, ReleasedTree

LEMMA MergeTree ==
  ASSUME NEW n, NEW rk, NEW ix, Tree(ix, n, rk), NEW page \in 1 .. n, NEW right \in 1 .. n,
         NEW parent \in 1 .. n, rk[page] = 0, rk[right] = 0, rk[parent] # 0,
         NEW k \in 1 .. Len(ix.node[parent].entries),
         Len(ix.node[page].entries) + Len(ix.node[right].entries) <= 2 * MinKeys,
         NEW call, call.info.height \in Nat
  PROVE  Tree(Merge(ix, call, page, right, parent, k), n, rk)
<1> DEFINE a == Absorb(ix, page, right)
           b == Pin(a, parent)
           new == RemoveParentEntryAt(b, call, parent, k)
<1>1. Tree(a, n, rk) /\ a.node[parent].entries = ix.node[parent].entries
  <2>1. Tree(a, n, rk) /\ Keeps(a, ix, parent)
    BY AbsorbTree
  <2> QED
    BY <2>1 DEF Keeps
<1>2. Tree(b, n, rk) /\ b.node = a.node
  <2> HIDE DEF a
  <2> QED
    BY <1>1, PinTree
<1>3. Tree(new, n, rk)
  <2> HIDE DEF a, b
  <2>1. k \in 1 .. Len(b.node[parent].entries)
    BY <1>1, <1>2
  <2> QED
    BY <1>2, <2>1, RemoveParentTree
<1> HIDE DEF new
<1>4. new.node[page].parent \in 0 .. n
  <2>1. new.node[page].parent \in Above(n, rk, rk[page]) /\ n \in Nat
    BY <1>3, PageFields
  <2> QED
    BY <2>1 DEF Above, NoPage
<1>5. Tree(Release(new, new.node[page].parent), n, rk)
  BY <1>3, <1>4, ReleaseTree
<1> QED
  BY <1>5 DEF Merge, new

LEMMA RebalanceTree ==
  ASSUME NEW n, NEW rk, NEW ix, Tree(ix, n, rk), NEW page \in 1 .. n, rk[page] = 0,
         NEW call, call.info.height \in Nat
  PROVE  Tree(RebalanceAfterDelete(ix, call, page), n, rk)
<1> DEFINE nd     == ix.node[page]
           parent == nd.parent
           ph     == ix.node[parent]
           i      == FindChildIndex(ph, page)
           left   == IF i > 0 THEN ChildAt(ph, i - 1) ELSE NoPage
           right  == IF i + 1 <= Len(ph.entries) THEN ChildAt(ph, i + 1) ELSE NoPage
<1>1. CASE parent = NoPage \/ ~Underfull(nd) \/ i < 0
  BY <1>1 DEF RebalanceAfterDelete
<1>2. CASE ~(parent = NoPage \/ ~Underfull(nd) \/ i < 0)
  <2>1. /\ n \in Nat /\ rk \in [1 .. n -> Nat]
        /\ parent \in 1 .. n /\ rk[parent] = 1
    <3>1. n \in Nat /\ rk \in [1 .. n -> Nat] /\ parent \in Above(n, rk, rk[page])
      BY PageFields
    <3> QED
      BY <1>2, <3>1 DEF Above
  <2>2. ph.entries \in Seq(Ents(n, rk, rk[parent])) /\ Len(ph.entries) \in Nat
    BY <2>1, PageFields
  <2>3. i \in 0 .. Len(ph.entries)
    <3>1. i \in -1 .. Len(ph.entries)
      <4> HIDE DEF parent
      <4> QED
        BY <2>2, ChildPlace
    <3> HIDE DEF i
    <3> QED
      BY <1>2, <2>2, <3>1
  <2>4. rk[parent] # 0
    BY <2>1
  <2>5. left # NoPage => left \in 1 .. n /\ rk[left] = 0 /\ i \in 1 .. Len(ph.entries)
    <3> HIDE DEF parent, i
    <3>1. CASE i > 0
      <4>1. i - 1 \in 0 .. Len(ph.entries) /\ i \in 1 .. Len(ph.entries)
        BY <2>2, <2>3, <3>1
      <4>2. ChildAt(ph, i - 1) \in Below(n, rk, rk[parent])
        BY <2>1, <2>4, <4>1, Neighbours
      <4> QED
        BY <2>1, <3>1, <4>1, <4>2 DEF Below
    <3>2. CASE ~(i > 0)
      BY <3>2
    <3> QED
      BY <3>1, <3>2
  <2>6. right # NoPage => right \in 1 .. n /\ rk[right] = 0 /\ i + 1 \in 1 .. Len(ph.entries)
    <3> HIDE DEF parent, i
    <3>1. CASE i + 1 <= Len(ph.entries)
      <4>1. i + 1 \in 0 .. Len(ph.entries) /\ i + 1 \in 1 .. Len(ph.entries)
        BY <2>2, <2>3, <3>1
      <4>2. ChildAt(ph, i + 1) \in Below(n, rk, rk[parent])
        BY <2>1, <2>4, <4>1, Neighbours
      <4> QED
        BY <2>1, <3>1, <4>1, <4>2 DEF Below
    <3>2. CASE ~(i + 1 <= Len(ph.entries))
      BY <3>2
    <3> QED
      BY <3>1, <3>2
  <2>7. \A q \in 1 .. n : Len(ix.node[q].entries) \in Nat
    BY PageFields
  <2>8. Len(nd.entries) < MinKeys /\ Len(nd.entries) \in Nat
    BY <1>2, <2>7 DEF Underfull
  <2>9. \A a, b \in Nat : a < MinKeys /\ ~(b > MinKeys) => a + b <= 2 * MinKeys /\ b + a <= 2 * MinKeys
    <3>1. \A a, b, m \in Nat : a < m /\ ~(b > m) => a + b <= 2 * m /\ b + a <= 2 * m
      OBVIOUS
    <3> QED
      BY <3>1, MinKeysFits
  <2>10. RebalanceAfterDelete(ix, call, page) =
          IF left # NoPage /\ Lends(ix.node[left], "leaf")
          THEN BorrowLeft(ix, page, left, parent, i)
          ELSE IF right # NoPage /\ Lends(ix.node[right], "leaf")
          THEN BorrowRight(ix, page, right, parent, i + 1)
          ELSE IF left # NoPage /\ ix.node[left].kind = "leaf"
          THEN Merge(ix, call, left, page, parent, i)
          ELSE IF right # NoPage /\ ix.node[right].kind = "leaf"
          THEN Merge(ix, call, page, right, parent, i + 1)
          ELSE ix
    BY <1>2 DEF RebalanceAfterDelete
  <2> HIDE DEF parent, i, left, right
  <2>11. ASSUME left # NoPage, Lends(ix.node[left], "leaf")
         PROVE  Tree(BorrowLeft(ix, page, left, parent, i), n, rk)
    <3>1. Len(ix.node[left].entries) > MinKeys
      BY <2>11 DEF Lends
    <3> QED
      BY <2>1, <2>4, <2>5, <2>8, <2>11, <3>1, BorrowLeftTree
  <2>12. ASSUME right # NoPage, Lends(ix.node[right], "leaf")
         PROVE  Tree(BorrowRight(ix, page, right, parent, i + 1), n, rk)
    <3>1. Len(ix.node[right].entries) > MinKeys
      BY <2>12 DEF Lends
    <3> QED
      BY <2>1, <2>4, <2>6, <2>8, <2>12, <3>1, BorrowRightTree
  <2>13. ASSUME left # NoPage, ~Lends(ix.node[left], "leaf"), ix.node[left].kind = "leaf"
         PROVE  Tree(Merge(ix, call, left, page, parent, i), n, rk)
    <3>1. Len(ix.node[left].entries) + Len(ix.node[page].entries) <= 2 * MinKeys
      BY <2>5, <2>7, <2>8, <2>9, <2>13 DEF Lends
    <3> QED
      BY <2>1, <2>4, <2>5, <2>13, <3>1, MergeTree
  <2>14. ASSUME right # NoPage, ~Lends(ix.node[right], "leaf"), ix.node[right].kind = "leaf"
         PROVE  Tree(Merge(ix, call, page, right, parent, i + 1), n, rk)
    <3>1. Len(ix.node[page].entries) + Len(ix.node[right].entries) <= 2 * MinKeys
      BY <2>6, <2>7, <2>8, <2>9, <2>14 DEF Lends
    <3> QED
      BY <2>1, <2>4, <2>6, <2>14, <3>1, MergeTree
  <2> QED
    BY <2>10, <2>11, <2>12, <2>13, <2>14
<1> QED
  BY <1>1, <1>2

-----------------------------------------------------------------------------
\* findLeaf goes one level down each time and ends at a leaf.
LEMMA FoundLeaf ==
  ASSUME NEW n, NEW rk, NEW ix, Tree(ix, n, rk), NEW root \in 1 .. n, NEW key,
         NEW leaf, leaf = FindLeafFrom(ix, root, key)
  PROVE  leaf = NoPage \/ (leaf \in 1 .. n /\ rk[leaf] = 0)
<1> DEFINE D == 1 .. n
           nd(p) == ix.node[p]
           stop == {p \in D : nd(p).kind = "leaf" \/ nd(p).entries = <<>>}
           base == [p \in D |-> IF nd(p).kind = "leaf" THEN p ELSE NoPage]
           down(p) == ChildAt(nd(p), Upper(nd(p).entries, key) - 1)
           next == [p \in D |-> IF p \in stop THEN p ELSE down(p)]
           S == {p \in 0 .. n : p = NoPage \/ rk[p] = 0}
           f == CHOOSE f : f = [p \in D |-> IF nd(p).kind = "leaf" THEN p
                                            ELSE IF nd(p).entries = <<>> THEN NoPage
                                            ELSE f[down(p)]]
<1>0. n \in Nat /\ rk \in [D -> Nat] /\ DOMAIN ix.node = D
  BY DEF Tree
<1>1. ASSUME NEW p \in D, p \notin stop PROVE down(p) \in D /\ rk[down(p)] < rk[p]
  <2>1. rk[p] # 0 /\ nd(p).kind # "leaf" /\ nd(p).entries # <<>>
    BY <1>1, PageFields
  <2>2. nd(p).entries \in Seq(Ents(n, rk, rk[p])) /\ Len(nd(p).entries) \in Nat
    BY PageFields
  <2>3. Upper(nd(p).entries, key) \in 1 .. Len(nd(p).entries) + 1
    BY <2>2, UpperPlace
  <2>4. Upper(nd(p).entries, key) - 1 \in 0 .. Len(nd(p).entries)
    <3>1. \A m \in Nat : \A u \in 1 .. m + 1 : u - 1 \in 0 .. m
      OBVIOUS
    <3> QED
      BY <2>2, <2>3, <3>1
  <2>5. down(p) \in Below(n, rk, rk[p])
    BY <2>1, <2>4, Neighbours
  <2> HIDE DEF down
  <2> QED
    BY <1>0, <2>5 DEF Below
<1> HIDE DEF down
<1>2. /\ stop \in SUBSET D
      /\ next \in [D -> D]
      /\ \A p \in D \ stop : rk[next[p]] < rk[p]
  BY <1>1
<1>3. \A p \in stop : base[p] \in S
  <2>1. ASSUME NEW p \in stop PROVE base[p] \in S
    <3>1. CASE nd(p).kind = "leaf"
      <4>1. rk[p] = 0
        BY <3>1, PageFields
      <4> QED
        BY <1>0, <3>1, <4>1
    <3>2. CASE nd(p).kind # "leaf"
      BY <1>0, <3>2 DEF NoPage
    <3> QED
      BY <3>1, <3>2
  <2> QED
    BY <2>1
<1>4. \A h : \A p \in D : (IF p \in stop THEN base[p] ELSE h[next[p]])
        = IF nd(p).kind = "leaf" THEN p ELSE IF nd(p).entries = <<>> THEN NoPage ELSE h[down(p)]
  OBVIOUS
<1> HIDE DEF D, stop, base, next, S
<1>5. PICK g \in [D -> S] : \A p \in D : g[p] = IF p \in stop THEN base[p] ELSE g[next[p]]
  <2>1. Descends(D, rk, stop, next)
    BY <1>0, <1>2 DEF Descends
  <2>2. Carries(D, stop, base, next, S)
    BY <1>3, <2>1, DescentExists
  <2> QED
    BY <2>2 DEF Carries
<1>6. g = [p \in D |-> IF nd(p).kind = "leaf" THEN p
                       ELSE IF nd(p).entries = <<>> THEN NoPage ELSE g[down(p)]]
  <2> HIDE DEF f, nd
  <2>1. \A p \in D : g[p] = IF nd(p).kind = "leaf" THEN p
                            ELSE IF nd(p).entries = <<>> THEN NoPage ELSE g[down(p)]
    BY <1>4, <1>5
  <2>2. g = [p \in D |-> g[p]]
    BY <1>5
  <2> QED
    BY <2>1, <2>2
<1>7. f = [p \in D |-> IF nd(p).kind = "leaf" THEN p
                       ELSE IF nd(p).entries = <<>> THEN NoPage ELSE f[down(p)]]
  BY <1>6
<1>8. FindLeafFrom(ix, root, key) = f[root]
  BY <1>0 DEF FindLeafFrom, down
<1> HIDE DEF f
<1>9. \A p \in D : f[p] = IF p \in stop THEN base[p] ELSE f[next[p]]
  <2> HIDE DEF nd
  <2> QED
    BY <1>4, <1>7, ZenonT(30)
<1>10. f[root] \in S
  <2>1. \A p \in D : f[p] \in S
    BY <1>0, <1>2, <1>3, <1>9, DescentEnds, SMTT(30)
  <2> QED
    BY <2>1 DEF D
<1> QED
  BY <1>8, <1>10 DEF S, NoPage

LEMMA LeafOf ==
  ASSUME NEW n, NEW rk, NEW ix, Tree(ix, n, rk), NEW call, call.info.root \in 0 .. n, NEW key,
         NEW page, page = FindLeaf(ix, call, key)
  PROVE  page = NoPage \/ (page \in 1 .. n /\ rk[page] = 0)
<1>1. CASE call.info.root = NoPage
  BY <1>1 DEF FindLeaf
<1>2. CASE call.info.root # NoPage
  <2>1. call.info.root \in 1 .. n /\ page = FindLeafFrom(ix, call.info.root, key)
    <3>1. n \in Nat
      BY DEF Tree
    <3> QED
      BY <1>2, <3>1 DEF FindLeaf, NoPage
  <2> QED
    BY <2>1, FoundLeaf
<1> QED
  BY <1>1, <1>2

LEMMA DeleteTree ==
  ASSUME NEW n, NEW rk, NEW ix, Tree(ix, n, rk), NEW r,
         NEW call, call.info.root \in 0 .. n, call.info.height \in Nat
  PROVE  Tree(DeleteKey(ix, call, r), n, rk)
<1> DEFINE page == FindLeaf(ix, call, r.key)
           s    == ix.node[page].entries
           k    == SelectInSeq(s, LAMBDA e : e = r)
           new  == WithEntries(ix, page, RemoveAt(s, k))
<1>1. CASE page = NoPage \/ k = 0
  BY <1>1 DEF DeleteKey
<1>2. CASE ~(page = NoPage \/ k = 0)
  <2>1. page \in 1 .. n /\ rk[page] = 0
    BY <1>2, LeafOf
  <2>2. s \in Lists(Ents(n, rk, rk[page])) /\ s \in Seq(Ents(n, rk, rk[page]))
        /\ Len(s) \in Nat
    BY <2>1, PageFields
  <2>3. k \in 1 .. Len(s)
    <3>1. k \in 0 .. Len(s)
      <4> HIDE DEF s
      <4> QED
        BY <2>2, EntryPlace DEF SelectInSeq
    <3> HIDE DEF k
    <3> QED
      BY <1>2, <2>2, <3>1
  <2>4. DeleteKey(ix, call, r) = RebalanceAfterDelete(new, call, page)
    BY <1>2 DEF DeleteKey, WithEntries
  <2>5. Tree(new, n, rk)
    <3> HIDE DEF page, s, k
    <3>1. RemoveAt(s, k) \in Lists(Ents(n, rk, rk[page]))
      BY <2>2, <2>3, OneLess
    <3> QED
      BY <2>1, <3>1, SetEntries
  <2>6. Tree(RebalanceAfterDelete(new, call, page), n, rk)
    <3> HIDE DEF new, page
    <3> QED
      BY <2>1, <2>5, RebalanceTree
  <2> QED
    BY <2>4, <2>6
<1> QED
  BY <1>1, <1>2

-----------------------------------------------------------------------------
\* A tree with one more page, of rank r.
Grown(n, rk, r, m, rk1) ==
    /\ m = n + 1 /\ n \in Nat /\ r \in Nat /\ rk \in [1 .. n -> Nat]
    /\ rk1 \in [1 .. m -> Nat] /\ rk1[m] = r
    /\ \A p \in 1 .. n : rk1[p] = rk[p]

LEMMA CanGrow ==
  ASSUME NEW n \in Nat, NEW rk \in [1 .. n -> Nat], NEW r \in Nat
  PROVE  \E rk1 : Grown(n, rk, r, n + 1, rk1)
<1> DEFINE rk1 == [p \in 1 .. n + 1 |-> IF p = n + 1 THEN r ELSE rk[p]]
<1>1. rk1 \in [1 .. n + 1 -> Nat] /\ rk1[n + 1] = r
  OBVIOUS
<1>2. \A p \in 1 .. n : rk1[p] = rk[p]
  OBVIOUS
<1> HIDE DEF rk1
<1> QED
  BY <1>1, <1>2 DEF Grown

LEMMA GrownRanks ==
  ASSUME NEW n, NEW rk, NEW r, NEW m, NEW rk1, Grown(n, rk, r, m, rk1), NEW x
  PROVE  /\ \A q \in Below(n, rk, x) : q \in Below(m, rk1, x)
         /\ \A q \in Above(n, rk, x) : q \in Above(m, rk1, x)
         /\ \A e \in Ents(n, rk, x) : e \in Ents(m, rk1, x)
<1>1. \A p \in 1 .. n : p \in 1 .. m /\ rk1[p] = rk[p]
  BY DEF Grown
<1>2. \A q \in Below(n, rk, x) : q \in Below(m, rk1, x)
  BY <1>1 DEF Below
<1>3. \A q \in Above(n, rk, x) : q \in Above(m, rk1, x)
  BY <1>1 DEF Above
<1>4. \A e \in Ents(n, rk, x) : e \in Ents(m, rk1, x)
  BY <1>2 DEF Ents, Kids
<1> QED
  BY <1>2, <1>3, <1>4

LEMMA ListsGrow ==
  ASSUME NEW S, NEW T, \A x \in S : x \in T, NEW s \in Lists(S)
  PROVE  s \in Lists(T)
<1>1. s \in Seq(S) /\ S \subseteq T
  BY DEF Lists
<1>2. s \in Seq(T)
  BY <1>1, SeqMonotonic
<1> QED
  BY <1>2 DEF Lists

LEMMA GrownNode ==
  ASSUME NEW n, NEW rk, NEW r, NEW m, NEW rk1, Grown(n, rk, r, m, rk1),
         NEW x \in Nat, NEW nd \in NodesAt(n, rk, x)
  PROVE  nd \in NodesAt(m, rk1, x)
<1>1. /\ \A q \in Below(n, rk, x) : q \in Below(m, rk1, x)
      /\ \A q \in Above(n, rk, x) : q \in Above(m, rk1, x)
      /\ \A e \in Ents(n, rk, x) : e \in Ents(m, rk1, x)
  BY GrownRanks
<1>2. n \in Nat /\ rk \in [1 .. n -> Nat] /\ \A q \in 0 .. n : q \in 0 .. m
  BY DEF Grown
<1>3. nd.entries \in Lists(Ents(n, rk, x))
  BY <1>2, NodeFields
<1>4. nd.entries \in Lists(Ents(m, rk1, x))
  BY <1>1, <1>3, ListsGrow
<1>5. CASE x = 0
  <2>1. nd \in Leaves(n, rk) /\ nd.entries \in Lists(Records)
    BY <1>4, <1>5 DEF NodesAt, Ents
  <2>2. nd \in Leaves(m, rk1)
    BY <1>1, <1>2, <1>5, <2>1 DEF Leaves
  <2> QED
    BY <1>5, <2>2 DEF NodesAt
<1>6. CASE x # 0
  <2>1. nd \in Inner(n, rk, x) /\ nd.entries \in Lists(Kids(m, rk1, x))
    BY <1>4, <1>6 DEF NodesAt, Ents
  <2>2. nd \in Inner(m, rk1, x)
    BY <1>1, <1>2, <2>1 DEF Inner
  <2> QED
    BY <1>6, <2>2 DEF NodesAt
<1> QED
  BY <1>5, <1>6

Adds(new, ix, n, nd) ==
    /\ new.node[n + 1] = nd
    /\ \A q \in 1 .. n : new.node[q] = ix.node[q]

LEMMA AppendedSeq ==
  ASSUME NEW S, NEW n \in Nat, NEW s \in [1 .. n -> S], NEW e \in S
  PROVE  /\ Append(s, e) \in [1 .. n + 1 -> S]
         /\ Append(s, e)[n + 1] = e
         /\ \A q \in 1 .. n : Append(s, e)[q] = s[q]
<1>1. s \in Seq(S)
  OBVIOUS
<1>2. Len(s) = n
  BY <1>1, LenProperties
<1>3. Append(s, e) \in Seq(S) /\ Len(Append(s, e)) = n + 1
  BY <1>1, <1>2
<1>4. Append(s, e)[n + 1] = e /\ \A q \in 1 .. n : Append(s, e)[q] = s[q]
  BY <1>1, <1>2
<1>5. Append(s, e) \in [1 .. n + 1 -> S]
  BY <1>3, LenProperties
<1> QED
  BY <1>4, <1>5

LEMMA AddTree ==
  ASSUME NEW n, NEW rk, NEW ix, Tree(ix, n, rk), NEW r, NEW m, NEW rk1,
         Grown(n, rk, r, m, rk1), NEW nd \in NodesAt(m, rk1, r)
  PROVE  /\ Tree(AddPage(ix, nd), m, rk1)
         /\ Adds(AddPage(ix, nd), ix, n, nd)
         /\ NewPage(ix) = m
<1> DEFINE new == AddPage(ix, nd)
           T == {ix.node[p] : p \in 1 .. n} \union {nd}
<1>0. /\ n \in Nat /\ rk \in [1 .. n -> Nat]
      /\ ix = [created |-> ix.created, node |-> ix.node, pins |-> ix.pins, info |-> ix.info]
  BY DEF Tree
<1>1. /\ m = n + 1 /\ m \in Nat /\ m \in 1 .. m /\ rk1 \in [1 .. m -> Nat] /\ rk1[m] = r
      /\ \A p \in 1 .. n : rk1[p] = rk[p]
  BY <1>0 DEF Grown
<1>2. /\ new.created = ix.created /\ new.info = ix.info
      /\ new.node = Append(ix.node, nd) /\ new.pins = Append(ix.pins, 0)
      /\ new = [created |-> new.created, node |-> new.node, pins |-> new.pins,
                info |-> new.info]
  <2>1. PICK c, f, g, h : ix = [created |-> c, node |-> f, pins |-> g, info |-> h]
    BY <1>0
  <2>2. ix.created = c /\ ix.node = f /\ ix.pins = g /\ ix.info = h
    BY <2>1
  <2>3. new = [ix EXCEPT !.node = Append(ix.node, nd), !.pins = Append(ix.pins, 0)]
    BY DEF AddPage
  <2> DEFINE a == Append(ix.node, nd)
             b == Append(ix.pins, 0)
  <2> HIDE DEF new, a, b
  <2>4. new = [ix EXCEPT !.node = a, !.pins = b]
    BY <2>3 DEF a, b
  <2>5. new = [created |-> c, node |-> a, pins |-> b, info |-> h]
    BY <2>1, <2>4
  <2> QED
    BY <2>2, <2>5 DEF a, b
<1> HIDE DEF new
<1>3. new.pins \in [1 .. m -> Nat]
  <2>1. ix.pins \in [1 .. n -> Nat]
    BY DEF Tree
  <2>2. Append(ix.pins, 0) \in [1 .. n + 1 -> Nat]
    <3> DEFINE g == ix.pins
    <3>1. g \in [1 .. n -> Nat] /\ 0 \in Nat
      BY <2>1
    <3> HIDE DEF g
    <3>2. Append(g, 0) \in [1 .. n + 1 -> Nat]
      BY <1>0, <3>1, AppendedSeq
    <3> QED
      BY <3>2 DEF g
  <2> QED
    BY <1>1, <1>2, <2>2
<1>4. /\ new.node = [p \in 1 .. m |-> new.node[p]]
      /\ new.node[m] = nd
      /\ \A p \in 1 .. n : new.node[p] = ix.node[p]
  <2>1. ix.node \in [1 .. n -> T] /\ nd \in T
    BY DEF Tree
  <2> HIDE DEF T
  <2>2. new.node \in [1 .. m -> T] /\ new.node[m] = nd
        /\ \A p \in 1 .. n : new.node[p] = ix.node[p]
    <3> DEFINE g == ix.node
    <3>1. g \in [1 .. n -> T]
      BY <2>1
    <3> HIDE DEF g
    <3>2. /\ Append(g, nd) \in [1 .. n + 1 -> T]
          /\ Append(g, nd)[n + 1] = nd
          /\ \A p \in 1 .. n : Append(g, nd)[p] = g[p]
      BY <1>0, <2>1, <3>1, AppendedSeq, SMTT(40)
    <3> QED
      BY <1>1, <1>2, <3>2 DEF g
  <2> QED
    BY <2>2
<1>5. \A p \in 1 .. m : new.node[p] \in NodesAt(m, rk1, rk1[p])
  <2>1. new.node[m] \in NodesAt(m, rk1, rk1[m])
    BY <1>1, <1>4
  <2>2. ASSUME NEW p \in 1 .. n PROVE new.node[p] \in NodesAt(m, rk1, rk1[p])
    <3>1. ix.node[p] \in NodesAt(n, rk, rk[p]) /\ rk[p] \in Nat
      BY <1>0 DEF Tree
    <3>2. ix.node[p] \in NodesAt(m, rk1, rk[p])
      BY <3>1, GrownNode
    <3> QED
      BY <1>1, <1>4, <3>2
  <2>3. \A p \in 1 .. m : p = m \/ p \in 1 .. n
    BY <1>0, <1>1
  <2> QED
    BY <2>1, <2>2, <2>3
<1>6. new.info \in Infos(m) /\ new.created = TRUE
  <2>1. ix.info \in Infos(n) /\ ix.created = TRUE
    BY DEF Tree
  <2>2. \A q \in 0 .. n : q \in 0 .. m
    BY <1>0, <1>1
  <2> QED
    BY <1>2, <2>1, <2>2 DEF Infos
<1>7. Tree(new, m, rk1)
  BY <1>1, <1>2, <1>3, <1>4, <1>5, <1>6 DEF Tree
<1>8. NewPage(ix) = m
  BY <1>1, SizeOf DEF NewPage
<1> QED
  BY <1>1, <1>4, <1>7, <1>8 DEF new, Adds

-----------------------------------------------------------------------------
\* insertIntoParent and splitInternalAndInsert, level by level: `right', new, is as far from
\* the leaves as `left'.
HasTree(ix, low) == \E n, rk : n >= low /\ Tree(ix, n, rk)

CanClimb(ix, low, left, key, right) ==
    \E n, rk : /\ n >= low /\ Tree(ix, n, rk)
               /\ left \in 1 .. n /\ right \in 1 .. n /\ rk[left] = rk[right] /\ key \in Keys

Shapes == UNION {UNION {Files(n, rk) : rk \in [1 .. n -> Nat]} : n \in Nat}
Climbs(low) ==
    {l \in [index : Shapes, left : Nat, key : Int, right : Nat, ended : BOOLEAN] :
        /\ HasTree(l.index, low)
        /\ ~l.ended => CanClimb(l.index, low, l.left, l.key, l.right)}

LEMMA TreeHasShape ==
  ASSUME NEW n, NEW rk, NEW ix, Tree(ix, n, rk)
  PROVE  ix \in Shapes
<1>1. n \in Nat /\ rk \in [1 .. n -> Nat] /\ ix \in Files(n, rk)
  BY TreeIsFile DEF Tree
<1> QED
  BY <1>1 DEF Shapes

LEMMA EndedClimbs ==
  ASSUME NEW n, NEW rk, NEW ix, Tree(ix, n, rk), NEW low, n >= low
  PROVE  Ended(ix) \in Climbs(low)
<1>1. ix \in Shapes /\ HasTree(ix, low)
  BY TreeHasShape DEF HasTree
<1> QED
  BY <1>1 DEF Ended, Climbs, NoPage

LEMMA GoesUpClimbs ==
  ASSUME NEW n, NEW rk, NEW ix, Tree(ix, n, rk), NEW low, n >= low, NEW left \in 1 .. n,
         NEW right \in 1 .. n, rk[left] = rk[right], NEW key \in Keys
  PROVE  GoesUp(ix, left, key, right) \in Climbs(low)
<1>1. ix \in Shapes /\ HasTree(ix, low) /\ CanClimb(ix, low, left, key, right)
  BY TreeHasShape DEF HasTree, CanClimb
<1>2. left \in Nat /\ right \in Nat /\ key \in Int
  BY IndexAssumption DEF Keys, Tree
<1> QED
  BY <1>1, <1>2 DEF GoesUp, Climbs

\* The headers of new pages.
NewInternal(leftMost, entries) ==
    [EmptyNode("internal") EXCEPT !.leftMost = leftMost, !.entries = entries]
NewLeaf(entries, prev, next, parent) ==
    [EmptyNode("leaf") EXCEPT !.entries = entries, !.prev = prev, !.next = next,
                              !.parent = parent]

LEMMA NewInternalNode ==
  ASSUME NEW n \in Nat, NEW rk, NEW r, r # 0, NEW x \in Below(n, rk, r),
         NEW s \in Lists(Ents(n, rk, r))
  PROVE  NewInternal(x, s) \in NodesAt(n, rk, r)
<1> DEFINE g == [EmptyNode("internal") EXCEPT !.leftMost = x]
<1>1. g = [kind |-> "internal", prev |-> NoPage, next |-> NoPage, parent |-> NoPage,
           leftMost |-> x, entries |-> <<>>]
  BY DEF EmptyNode
<1>2. NewInternal(x, s) = [g EXCEPT !.entries = s]
  BY DEF NewInternal
<1> HIDE DEF g
<1>3. NewInternal(x, s) = [kind |-> "internal", prev |-> NoPage, next |-> NoPage,
                           parent |-> NoPage, leftMost |-> x, entries |-> s]
  BY <1>1, <1>2
<1>4. NoPage \in 0 .. n /\ NoPage \in Above(n, rk, r) /\ s \in Lists(Kids(n, rk, r))
  BY DEF NoPage, Above, Ents
<1> QED
  BY <1>3, <1>4 DEF NodesAt, Inner

LEMMA NewLeafNode ==
  ASSUME NEW n \in Nat, NEW rk, NEW s \in Lists(Records), NEW prev \in 0 .. n,
         NEW next \in 0 .. n, NEW parent \in Above(n, rk, 0)
  PROVE  NewLeaf(s, prev, next, parent) \in NodesAt(n, rk, 0)
<1> DEFINE g == [EmptyNode("leaf") EXCEPT !.entries = s]
           h == [g EXCEPT !.prev = prev]
           i == [h EXCEPT !.next = next]
<1>1. g = [kind |-> "leaf", prev |-> NoPage, next |-> NoPage, parent |-> NoPage,
           leftMost |-> NoPage, entries |-> s]
  BY DEF EmptyNode
<1>2. NewLeaf(s, prev, next, parent) = [i EXCEPT !.parent = parent]
  BY DEF NewLeaf
<1> HIDE DEF g
<1>3. h = [kind |-> "leaf", prev |-> prev, next |-> NoPage, parent |-> NoPage,
           leftMost |-> NoPage, entries |-> s]
  BY <1>1
<1> HIDE DEF h
<1>4. i = [kind |-> "leaf", prev |-> prev, next |-> next, parent |-> NoPage,
           leftMost |-> NoPage, entries |-> s]
  BY <1>3
<1> HIDE DEF i
<1>5. NewLeaf(s, prev, next, parent) =
        [kind |-> "leaf", prev |-> prev, next |-> next, parent |-> parent,
         leftMost |-> NoPage, entries |-> s]
  BY <1>2, <1>4
<1>6. NoPage \in 0 .. n
  BY DEF NoPage
<1> QED
  BY <1>5, <1>6 DEF NodesAt, Leaves

LEMMA NewRootTree ==
  ASSUME NEW n, NEW rk, NEW ix, Tree(ix, n, rk), NEW left \in 1 .. n, NEW right \in 1 .. n,
         rk[left] = rk[right], NEW key \in Keys, NEW call, call.info.height \in Nat
  PROVE  \E rk1 : Tree(NewRoot(ix, call, left, key, right), n + 1, rk1)
<1> DEFINE m == n + 1
           r == rk[left] + 1
           e == [key |-> key, child |-> right]
           root == NewInternal(left, <<e>>)
           a == AddPage(ix, root)
           b == SetChildrenParent(a, <<left, right>>, m)
           h == AtLeastOne(call.info.height) + 1
<1>1. n \in Nat /\ rk \in [1 .. n -> Nat] /\ r \in Nat /\ m \in Nat /\ r # 0
  BY DEF Tree
<1>2. PICK rk1 : Grown(n, rk, r, m, rk1)
  BY <1>1, CanGrow
<1>3. /\ m \in 1 .. m /\ rk1 \in [1 .. m -> Nat] /\ rk1[m] = r
      /\ left \in Below(m, rk1, r) /\ right \in Below(m, rk1, r)
  <2>1. \A p \in 1 .. n : p \in 1 .. m /\ rk1[p] = rk[p]
    BY <1>1, <1>2 DEF Grown
  <2> QED
    BY <1>1, <1>2, <2>1 DEF Grown, Below
<1> HIDE DEF m, r
<1>4. root \in NodesAt(m, rk1, r)
  <2>1. e \in Kids(m, rk1, r)
    BY <1>3 DEF Kids
  <2>2. <<e>> \in Seq(Kids(m, rk1, r)) /\ Len(<<e>>) = 1
    BY <2>1
  <2>3. <<e>> \in Lists(Ents(m, rk1, r))
    BY <1>1, <2>2, MinKeysFits DEF Lists, Ents
  <2> HIDE DEF e
  <2> QED
    BY <1>1, <1>3, <2>3, NewInternalNode
<1> HIDE DEF root
<1>5. Tree(a, m, rk1) /\ NewPage(ix) = m
  BY <1>2, <1>4, AddTree
<1>6. Tree(b, m, rk1)
  <2>1. <<left, right>> \in Seq(Below(m, rk1, rk1[m]))
    BY <1>3
  <2> HIDE DEF a
  <2> QED
    BY <1>3, <1>5, <2>1, ToldTree
<1>7. h \in Nat /\ m \in 0 .. m
  BY <1>1 DEF AtLeastOne
<1>8. Tree(UpdateIndexInfo(b, m, h), m, rk1)
  <2> HIDE DEF b, h
  <2> QED
    BY <1>6, <1>7, InfoTree
<1>9. NewRoot(ix, call, left, key, right) = UpdateIndexInfo(b, m, h)
  BY <1>5 DEF NewRoot, NewInternal, root
<1> QED
  BY <1>8, <1>9 DEF m

\* The halves of a list with one entry too many.
LEMMA Halves ==
  ASSUME NEW S, NEW all \in Seq(S), NEW mid, mid = Len(all) \div 2, Len(all) >= 2,
         MaxKeys % 2 = 0 => Len(all) <= MaxKeys + 1
  PROVE  /\ mid \in Nat /\ mid + 1 \in 1 .. Len(all)
         /\ SubSeq(all, 1, mid) \in Lists(S)
         /\ SubSeq(all, mid + 1, Len(all)) \in Lists(S)
         /\ SubSeq(all, mid + 1, Len(all)) \in Seq(S)
         /\ SubSeq(all, mid + 2, Len(all)) \in Lists(S)
<1> DEFINE last == Len(all)
           a == SubSeq(all, 1, mid)
           b == SubSeq(all, mid + 1, last)
           c == SubSeq(all, mid + 2, last)
<1>0. last \in Nat /\ \A i \in 1 .. last : all[i] \in S
  BY ElementOfSeq
<1>1. mid \in Nat /\ 1 <= mid /\ mid + 1 <= last /\ 2 * mid <= last /\ last <= 2 * mid + 1
  BY <1>0
<1> HIDE DEF last
<1>2. a \in Seq(S) /\ Len(a) = mid
  BY <1>0, <1>1, SubSeqProperties
<1>3. b \in Seq(S) /\ Len(b) = last - mid
  BY <1>0, <1>1, SubSeqProperties
<1>4. c \in Seq(S) /\ Len(c) <= last - mid
  BY <1>0, <1>1, SubSeqProperties
<1>5. MaxKeys % 2 = 0 => mid <= MaxKeys /\ last - mid <= MaxKeys
  <2>1. MaxKeys % 2 = 0 => last <= MaxKeys + 1
    BY DEF last
  <2>2. MaxKeys \in Nat
    BY MinKeysFits
  <2> QED
    BY <1>0, <1>1, <2>1, <2>2
<1> HIDE DEF a, b, c
<1>6. a \in Lists(S) /\ b \in Lists(S) /\ c \in Lists(S)
  <2>1. MaxKeys \in Nat /\ Len(c) \in Nat
    BY <1>4, MinKeysFits
  <2> QED
    BY <1>0, <1>1, <1>2, <1>3, <1>4, <1>5, <2>1 DEF Lists
<1> QED
  BY <1>0, <1>1, <1>3, <1>6 DEF a, b, c, last

LEMMA SplitInternalClimbs ==
  ASSUME NEW n, NEW rk, NEW ix, Tree(ix, n, rk), NEW low, low \in Nat, n >= low,
         NEW page \in 1 .. n, rk[page] # 0, ~HasRoom(ix.node[page]),
         NEW key \in Keys, NEW right \in Below(n, rk, rk[page]), NEW call
  PROVE  SplitInternalAndInsert(ix, call, page, key, right) \in Climbs(low)
<1> DEFINE nd  == ix.node[page]
           all == InsertAt(nd.entries, Upper(nd.entries, key), [key |-> key, child |-> right])
           mid == Len(all) \div 2
           m   == n + 1
           r   == rk[page]
           first == SubSeq(all, 1, mid)
           rest == SubSeq(all, mid + 2, Len(all))
           children == ChildrenOf(SubSeq(all, mid + 1, Len(all)))
           new == NewInternal(all[mid + 1].child, rest)
           a == AddPage(ix, new)
           cut == WithEntries(a, page, first)
           told == SetChildrenParent(cut, children, m)
<1>1. n \in Nat /\ rk \in [1 .. n -> Nat] /\ r \in Nat /\ m \in Nat
  BY DEF Tree
<1>2. PICK rk1 : Grown(n, rk, r, m, rk1)
  BY <1>1, CanGrow
<1>3. /\ m \in 1 .. m /\ page \in 1 .. m /\ rk1 \in [1 .. m -> Nat] /\ rk1[m] = r /\ rk1[page] = r
      /\ m >= low
  BY <1>1, <1>2 DEF Grown
<1>4. /\ all \in Seq(Ents(m, rk1, r)) /\ Len(all) >= 2 /\ Len(all) = Len(nd.entries) + 1
      /\ MaxKeys % 2 = 0 => Len(all) <= MaxKeys + 1
  <2> DEFINE s == nd.entries
             e == [key |-> key, child |-> right]
  <2>1. s \in Lists(Ents(n, rk, r)) /\ s \in Seq(Ents(n, rk, r)) /\ Len(s) \in Nat
    BY PageFields
  <2>2. e \in Ents(n, rk, r)
    BY EntryOf
  <2>3. Len(s) >= MaxKeys /\ (MaxKeys % 2 = 0 => Len(s) <= MaxKeys)
    BY <2>1, MinKeysFits DEF HasRoom, Lists
  <2> HIDE DEF s, e, r
  <2>4. Upper(s, key) \in 1 .. Len(s) + 1
    BY <2>1, UpperPlace
  <2>5. InsertAt(s, Upper(s, key), e) \in Seq(Ents(n, rk, r))
        /\ Len(InsertAt(s, Upper(s, key), e)) = Len(s) + 1
    BY <2>1, <2>2, <2>4, InsertedSeq
  <2>6. InsertAt(s, Upper(s, key), e) \in Seq(Ents(m, rk1, r))
    <3>1. Ents(n, rk, r) \subseteq Ents(m, rk1, r)
      BY <1>2, GrownRanks
    <3> QED
      BY <2>5, <3>1, SeqMonotonic
  <2>7. Len(s) + 1 >= 2 /\ (MaxKeys % 2 = 0 => Len(s) + 1 <= MaxKeys + 1)
    BY <2>1, <2>3, MinKeysFits
  <2> QED
    BY <2>5, <2>6, <2>7 DEF s, e
<1> HIDE DEF all, r, m
<1>5. /\ mid \in Nat /\ mid + 1 \in 1 .. Len(all)
      /\ first \in Lists(Ents(m, rk1, r))
      /\ SubSeq(all, mid + 1, Len(all)) \in Seq(Ents(m, rk1, r))
      /\ rest \in Lists(Ents(m, rk1, r))
  BY <1>4, Halves
<1>6. all[mid + 1].key \in Keys /\ all[mid + 1].child \in Below(m, rk1, r) /\ r # 0
  <2>1. all[mid + 1] \in Ents(m, rk1, r) /\ r # 0
    BY <1>4, <1>5, ElementOfSeq DEF r
  <2> QED
    BY <1>1, <2>1, EntryFields
<1>7. children \in Seq(Below(m, rk1, r))
  BY <1>1, <1>5, <1>6, ChildrenOfEntries
<1> HIDE DEF mid, first, rest, children
<1>8. new \in NodesAt(m, rk1, r)
  BY <1>1, <1>5, <1>6, NewInternalNode
<1> HIDE DEF new
<1>9. Tree(a, m, rk1) /\ NewPage(ix) = m
  BY <1>2, <1>8, AddTree
<1>10. Tree(cut, m, rk1)
  <2> HIDE DEF a
  <2> QED
    BY <1>3, <1>5, <1>9, SetEntries
<1>11. Tree(told, m, rk1)
  <2> HIDE DEF cut
  <2> QED
    BY <1>3, <1>7, <1>10, ToldTree
<1>12. GoesUp(told, page, all[mid + 1].key, m) \in Climbs(low)
  <2> HIDE DEF told
  <2> QED
    BY <1>3, <1>6, <1>11, GoesUpClimbs
<1>13. Ended(ix) \in Climbs(low)
  BY EndedClimbs
<1>14. SplitInternalAndInsert(ix, call, page, key, right) =
          IF ~CanAlloc(ix, call) THEN Ended(ix)
          ELSE GoesUp(told, page, all[mid + 1].key, m)
  BY <1>9 DEF SplitInternalAndInsert, WithEntries, NewInternal, new, all, mid, first, rest, children
<1> QED
  BY <1>12, <1>13, <1>14

LEMMA AtParentClimbs ==
  ASSUME NEW n, NEW rk, NEW ix, Tree(ix, n, rk), NEW low, low \in Nat, n >= low,
         NEW left \in 1 .. n, NEW right \in 1 .. n, rk[left] = rk[right], NEW key \in Keys,
         NEW call, call.info.height \in Nat
  PROVE  AtParent(ix, call, left, key, right) \in Climbs(low)
<1> DEFINE parent == ix.node[left].parent
           nd     == ix.node[parent]
           at     == FindChildIndex(nd, left)
           place  == IF at < 0 THEN 0 ELSE at
           e      == [key |-> key, child |-> right]
           s      == InsertAt(nd.entries, place + 1, e)
           a      == WithEntries(ix, parent, s)
           b      == WithParent(a, right, parent)
<1>0. n \in Nat /\ rk \in [1 .. n -> Nat]
  BY DEF Tree
<1>1. CASE parent = NoPage
  <2>1. Ended(ix) \in Climbs(low)
    BY EndedClimbs
  <2>2. Ended(NewRoot(ix, call, left, key, right)) \in Climbs(low)
    <3>1. PICK rk1 : Tree(NewRoot(ix, call, left, key, right), n + 1, rk1)
      BY NewRootTree
    <3>2. n + 1 >= low
      BY <1>0
    <3> QED
      BY <3>1, <3>2, EndedClimbs
  <2>3. AtParent(ix, call, left, key, right) =
          Ended(IF CanAlloc(ix, call) THEN NewRoot(ix, call, left, key, right) ELSE ix)
    BY <1>1 DEF AtParent
  <2> QED
    BY <2>1, <2>2, <2>3
<1>2. CASE parent # NoPage
  <2>1. parent \in 1 .. n /\ rk[parent] = rk[left] + 1
    <3>1. parent \in Above(n, rk, rk[left])
      BY PageFields
    <3> QED
      BY <1>2, <3>1 DEF Above
  <2>2. /\ rk[parent] # 0 /\ right \in Below(n, rk, rk[parent])
        /\ parent \in Above(n, rk, rk[right])
    BY <1>0, <2>1 DEF Below, Above
  <2>3. /\ nd.entries \in Lists(Ents(n, rk, rk[parent]))
        /\ nd.entries \in Seq(Ents(n, rk, rk[parent])) /\ Len(nd.entries) \in Nat
    BY <2>1, PageFields
  <2>4. AtParent(ix, call, left, key, right) =
          IF HasRoom(nd) THEN Ended(b)
          ELSE SplitInternalAndInsert(ix, call, parent, key, right)
    BY <1>2 DEF AtParent, WithEntries, WithParent
  <2>5. ASSUME HasRoom(nd) PROVE Ended(b) \in Climbs(low)
    <3>1. place + 1 \in 1 .. Len(nd.entries) + 1
      <4>1. at \in -1 .. Len(nd.entries)
        <5> HIDE DEF parent
        <5> QED
          BY <2>3, ChildPlace
      <4> HIDE DEF at
      <4> QED
        BY <2>3, <4>1
    <3>2. e \in Ents(n, rk, rk[parent])
      BY <2>2, EntryOf
    <3>3. s \in Seq(Ents(n, rk, rk[parent])) /\ Len(s) = Len(nd.entries) + 1
      <4> HIDE DEF e, place, nd
      <4> QED
        BY <2>3, <3>1, <3>2, InsertedSeq
    <3>4. Len(s) <= MaxKeys
      BY <2>3, <2>5, <3>3, MinKeysFits DEF HasRoom
    <3> HIDE DEF s, parent
    <3>5. s \in Lists(Ents(n, rk, rk[parent]))
      BY <3>3, <3>4 DEF Lists
    <3>6. Tree(a, n, rk)
      BY <2>1, <3>5, SetEntries
    <3>7. Tree(b, n, rk)
      <4> HIDE DEF a
      <4> QED
        BY <2>2, <3>6, SetParent
    <3> HIDE DEF b
    <3> QED
      BY <3>7, EndedClimbs
  <2>6. ASSUME ~HasRoom(nd)
        PROVE  SplitInternalAndInsert(ix, call, parent, key, right) \in Climbs(low)
    <3> HIDE DEF parent
    <3> QED
      BY <2>1, <2>2, <2>6, SplitInternalClimbs
  <2> QED
    BY <2>4, <2>5, <2>6
<1> QED
  BY <1>1, <1>2

\* One turn of insertIntoParent.
InsertTurn(l, call) ==
    IF l.ended THEN l ELSE AtParent(l.index, call, l.left, l.key, l.right)

LEMMA InsertTurnClimbs ==
  ASSUME NEW low \in Nat, NEW l \in Climbs(low), NEW call, call.info.height \in Nat
  PROVE  InsertTurn(l, call) \in Climbs(low)
<1>1. CASE l.ended
  BY <1>1 DEF InsertTurn
<1>2. CASE ~l.ended
  <2>1. PICK n, rk : /\ n >= low /\ Tree(l.index, n, rk)
                     /\ l.left \in 1 .. n /\ l.right \in 1 .. n /\ rk[l.left] = rk[l.right]
                     /\ l.key \in Keys
    BY <1>2 DEF Climbs, CanClimb
  <2>2. AtParent(l.index, call, l.left, l.key, l.right) \in Climbs(low)
    BY <2>1, AtParentClimbs
  <2> QED
    BY <1>2, <2>2 DEF InsertTurn
<1> QED
  BY <1>1, <1>2

LEMMA InsertIntoParentTree ==
  ASSUME NEW n, NEW rk, NEW ix, Tree(ix, n, rk), NEW low \in Nat, n >= low,
         NEW left \in 1 .. n, NEW right \in 1 .. n, rk[left] = rk[right], NEW key \in Keys,
         NEW call, call.info.height \in Nat
  PROVE  HasTree(InsertIntoParent(ix, call, left, key, right), low)
<1> DEFINE last == Size(ix)
           first == GoesUp(ix, left, key, right)
           S == Climbs(low)
           G == [m \in 1 .. last |-> [l \in S |-> InsertTurn(l, call)]]
           f == CHOOSE f :
                  f = [m \in 0 .. last |-> IF m = 0 THEN first ELSE InsertTurn(f[m - 1], call)]
<1>1. last \in Nat
  BY SizeOf
<1>2. first \in S
  BY GoesUpClimbs
<1>3. \A l \in S : InsertTurn(l, call) \in S
  BY InsertTurnClimbs
<1> HIDE DEF S, last, first
<1>4. G \in [1 .. last -> [S -> S]]
  BY <1>3
<1>5. \A l \in S : \A m \in 1 .. last : G[m][l] = InsertTurn(l, call)
  OBVIOUS
<1> HIDE DEF G
<1>6. PICK g \in [0 .. last -> S] :
        g[0] = first /\ \A m \in 1 .. last : g[m] = G[m][g[m - 1]]
  <2>1. Loops(S, first, last, G)
    BY <1>1, <1>2, <1>4, LoopExists
  <2> QED
    BY <2>1 DEF Loops
<1>7. g = [m \in 0 .. last |-> IF m = 0 THEN first ELSE InsertTurn(g[m - 1], call)]
  <2>1. ASSUME NEW m \in 0 .. last
        PROVE g[m] = IF m = 0 THEN first ELSE InsertTurn(g[m - 1], call)
    <3>1. m # 0 => m \in 1 .. last /\ g[m - 1] \in S
      BY <1>1
    <3> QED
      BY <1>5, <1>6, <3>1
  <2>2. g = [m \in 0 .. last |-> g[m]]
    OBVIOUS
  <2> QED
    BY <2>1, <2>2
<1>8. f = [m \in 0 .. last |-> IF m = 0 THEN first ELSE InsertTurn(f[m - 1], call)]
  BY <1>7
<1>9. InsertIntoParent(ix, call, left, key, right) = f[last].index
  BY DEF InsertIntoParent, InsertTurn, last, first
<1> HIDE DEF f
<1>10. \A m \in 0 .. last : f[m] \in S
  <2>1. f[0] \in S
    BY <1>1, <1>2, <1>8
  <2>2. \A m \in 1 .. last : f[m - 1] \in S => f[m] \in S
    BY <1>1, <1>3, <1>8
  <2> QED
    BY <1>1, <2>1, <2>2, LoopKeeps
<1>11. f[last] \in S
  BY <1>1, <1>10
<1> QED
  BY <1>9, <1>11 DEF S, Climbs

LEMMA SplitLeafTree ==
  ASSUME NEW n, NEW rk, NEW ix, Tree(ix, n, rk), NEW page \in 1 .. n, rk[page] = 0,
         NEW low \in Nat, n >= low, ~HasRoom(ix.node[page]), NEW r \in Records,
         NEW call, call.info.height \in Nat
  PROVE  HasTree(SplitLeafAndInsert(ix, call, page, r), low)
<1> DEFINE nd  == ix.node[page]
           all == InsertAt(nd.entries, Upper(nd.entries, r.key), r)
           mid == Len(all) \div 2
           m   == n + 1
           first == SubSeq(all, 1, mid)
           rest == SubSeq(all, mid + 1, Len(all))
           new == NewLeaf(rest, page, nd.next, nd.parent)
           a == AddPage(ix, new)
           b == WithEntries(a, page, first)
           cut == WithNext(b, page, m)
<1>1. n \in Nat /\ rk \in [1 .. n -> Nat] /\ m \in Nat
  BY DEF Tree
<1>2. PICK rk1 : Grown(n, rk, 0, m, rk1)
  BY <1>1, CanGrow
<1>3. /\ m \in 1 .. m /\ page \in 1 .. m /\ rk1 \in [1 .. m -> Nat] /\ rk1[m] = 0 /\ rk1[page] = 0
      /\ m >= low
  BY <1>1, <1>2 DEF Grown
<1>4. /\ all \in Seq(Records) /\ Len(all) >= 2
      /\ MaxKeys % 2 = 0 => Len(all) <= MaxKeys + 1
  <2> DEFINE s == nd.entries
  <2>1. s \in Lists(Records) /\ s \in Seq(Records) /\ Len(s) \in Nat
    BY PageFields DEF Ents
  <2>2. Len(s) >= MaxKeys /\ (MaxKeys % 2 = 0 => Len(s) <= MaxKeys)
    BY <2>1, MinKeysFits DEF HasRoom, Lists
  <2> HIDE DEF s
  <2>3. Upper(s, r.key) \in 1 .. Len(s) + 1
    BY <2>1, UpperPlace
  <2>4. InsertAt(s, Upper(s, r.key), r) \in Seq(Records)
        /\ Len(InsertAt(s, Upper(s, r.key), r)) = Len(s) + 1
    BY <2>1, <2>3, InsertedSeq
  <2>5. Len(s) + 1 >= 2 /\ (MaxKeys % 2 = 0 => Len(s) + 1 <= MaxKeys + 1)
    BY <2>1, <2>2, MinKeysFits
  <2> QED
    BY <2>4, <2>5 DEF s
<1> HIDE DEF all, m
<1>5. /\ mid \in Nat /\ mid + 1 \in 1 .. Len(all)
      /\ first \in Lists(Records) /\ rest \in Lists(Records)
  BY <1>4, Halves
<1>6. all[mid + 1].key \in Keys
  <2>1. all[mid + 1] \in Records
    BY <1>4, <1>5, ElementOfSeq
  <2> QED
    BY <2>1 DEF Keys
<1> HIDE DEF mid, first, rest
<1>7. new \in NodesAt(m, rk1, 0)
  <2>1. nd.next \in 0 .. n /\ nd.parent \in Above(n, rk, 0)
    BY PageFields
  <2>2. nd.next \in 0 .. m /\ page \in 0 .. m
    BY <1>1, <2>1 DEF m
  <2>3. nd.parent \in Above(m, rk1, 0)
    BY <1>2, <2>1, GrownRanks
  <2> HIDE DEF nd
  <2> QED
    BY <1>1, <1>5, <2>2, <2>3, NewLeafNode
<1> HIDE DEF new
<1>8. Tree(a, m, rk1) /\ NewPage(ix) = m
  BY <1>2, <1>7, AddTree
<1>9. Tree(b, m, rk1)
  <2> HIDE DEF a
  <2>1. first \in Lists(Ents(m, rk1, rk1[page]))
    BY <1>3, <1>5 DEF Ents
  <2> QED
    BY <1>3, <1>8, <2>1, SetEntries
<1>10. Tree(cut, m, rk1)
  <2> HIDE DEF b
  <2>1. m \in 0 .. m
    BY <1>1
  <2> QED
    BY <1>3, <1>9, <2>1, SetNeighbour
<1>11. HasTree(InsertIntoParent(cut, call, page, all[mid + 1].key, m), low)
  <2> HIDE DEF cut
  <2> QED
    BY <1>3, <1>6, <1>10, InsertIntoParentTree
<1>12. SplitLeafAndInsert(ix, call, page, r) =
          IF ~CanAlloc(ix, call) THEN ix
          ELSE InsertIntoParent(cut, call, page, all[mid + 1].key, m)
  BY <1>8 DEF SplitLeafAndInsert, WithEntries, WithNext, NewLeaf, new, all, mid, first, rest
<1>13. HasTree(ix, low)
  BY DEF HasTree
<1> QED
  BY <1>11, <1>12, <1>13

LEMMA InsertTree ==
  ASSUME NEW n, NEW rk, NEW ix, Tree(ix, n, rk), NEW low \in Nat, n >= low, NEW r \in Records,
         NEW call, call.info.root \in 0 .. n, call.info.height \in Nat
  PROVE  HasTree(InsertKey(ix, call, r), low)
<1> DEFINE page == FindLeaf(ix, call, r.key)
           nd == ix.node[page]
           s == InsertAt(nd.entries, Upper(nd.entries, r.key), r)
           new == WithEntries(ix, page, s)
<1>0. HasTree(ix, low)
  BY DEF HasTree
<1>1. CASE page = NoPage \/ Rejects(nd, r)
  BY <1>0, <1>1 DEF InsertKey
<1>2. CASE ~(page = NoPage \/ Rejects(nd, r))
  <2>1. page \in 1 .. n /\ rk[page] = 0
    BY <1>2, LeafOf
  <2>2. nd.entries \in Seq(Records) /\ Len(nd.entries) \in Nat
    BY <2>1, PageFields DEF Ents
  <2>3. InsertKey(ix, call, r) =
          IF HasRoom(nd) THEN new ELSE SplitLeafAndInsert(ix, call, page, r)
    BY <1>2 DEF InsertKey, WithEntries
  <2>4. ASSUME HasRoom(nd) PROVE HasTree(new, low)
    <3>1. s \in Seq(Records) /\ Len(s) = Len(nd.entries) + 1
      <4> DEFINE t == nd.entries
      <4>1. t \in Seq(Records)
        BY <2>2
      <4> HIDE DEF t
      <4>2. Upper(t, r.key) \in 1 .. Len(t) + 1
        BY <4>1, UpperPlace
      <4>3. InsertAt(t, Upper(t, r.key), r) \in Seq(Records)
            /\ Len(InsertAt(t, Upper(t, r.key), r)) = Len(t) + 1
        BY <4>1, <4>2, InsertedSeq
      <4> QED
        BY <4>3 DEF t
    <3>2. Len(s) <= MaxKeys
      BY <2>2, <2>4, <3>1, MinKeysFits DEF HasRoom
    <3> HIDE DEF s, page
    <3>3. s \in Lists(Ents(n, rk, rk[page]))
      BY <2>1, <3>1, <3>2 DEF Lists, Ents
    <3>4. Tree(new, n, rk)
      BY <2>1, <3>3, SetEntries
    <3> HIDE DEF new
    <3> QED
      BY <3>4 DEF HasTree
  <2>5. ASSUME ~HasRoom(nd) PROVE HasTree(SplitLeafAndInsert(ix, call, page, r), low)
    <3> HIDE DEF page
    <3> QED
      BY <2>1, <2>5, SplitLeafTree
  <2> QED
    BY <2>3, <2>4, <2>5
<1> QED
  BY <1>1, <1>2

-----------------------------------------------------------------------------
\* The first pages, and createIndex.
OnePage == [created |-> TRUE, node |-> <<EmptyNode("leaf")>>, pins |-> <<0>>,
            info |-> [root |-> 1, height |-> 1]]

LEMMA OnePageTree == HasTree(OnePage, 1)
<1> DEFINE rk == [p \in 1 .. 1 |-> 0]
           e == EmptyNode("leaf")
<1>1. e \in NodesAt(1, rk, 0)
  <2>1. e = [kind |-> "leaf", prev |-> 0, next |-> 0, parent |-> 0, leftMost |-> 0,
             entries |-> <<>>]
    BY DEF EmptyNode, NoPage
  <2>2. <<>> \in Lists(Records)
    BY MinKeysFits DEF Lists
  <2>3. 0 \in Above(1, rk, 0) /\ 0 \in 0 .. 1
    BY DEF Above, NoPage
  <2> HIDE DEF e, rk
  <2> QED
    BY <2>1, <2>2, <2>3 DEF NodesAt, Leaves
<1>2. rk \in [1 .. 1 -> Nat] /\ rk[1] = 0
  OBVIOUS
<1> HIDE DEF e, rk
<1>3. /\ OnePage.created = TRUE /\ OnePage.node = <<e>> /\ OnePage.pins = <<0>>
      /\ OnePage.info = [root |-> 1, height |-> 1]
      /\ OnePage = [created |-> OnePage.created, node |-> OnePage.node, pins |-> OnePage.pins,
                    info |-> OnePage.info]
  BY DEF OnePage, e
<1>4. <<e>> = [p \in 1 .. 1 |-> <<e>>[p]] /\ \A p \in 1 .. 1 : <<e>>[p] = e /\ p = 1
  OBVIOUS
<1>5. <<0>> \in [1 .. 1 -> Nat]
  OBVIOUS
<1>6. [root |-> 1, height |-> 1] \in Infos(1)
  BY DEF Infos
<1>7. Tree(OnePage, 1, rk)
  <2>1. \A p \in 1 .. 1 : OnePage.node[p] \in NodesAt(1, rk, rk[p])
    BY <1>1, <1>2, <1>3, <1>4
  <2> QED
    BY <1>2, <1>3, <1>4, <1>5, <1>6, <2>1 DEF Tree
<1> QED
  BY <1>7 DEF HasTree

\* The index of which only the dictionary's entry is there, without a root.
Bare == [created |-> TRUE, node |-> <<>>, pins |-> <<>>, info |-> [root |-> NoPage, height |-> 0]]

LEMMA BareTree == HasTree(Bare, 0)
<1> DEFINE rk == [p \in 1 .. 0 |-> 0]
<1>1. rk \in [1 .. 0 -> Nat]
  OBVIOUS
<1> HIDE DEF rk
<1>2. /\ Bare.created = TRUE /\ Bare.node = <<>> /\ Bare.pins = <<>>
      /\ Bare.info = [root |-> 0, height |-> 0]
      /\ Bare = [created |-> Bare.created, node |-> Bare.node, pins |-> Bare.pins,
                 info |-> Bare.info]
  BY DEF Bare, NoPage
<1>3. Bare.node = [p \in 1 .. 0 |-> Bare.node[p]] /\ Bare.pins \in [1 .. 0 -> Nat]
  BY <1>2
<1>4. Bare.info \in Infos(0)
  BY <1>2 DEF Infos
<1>5. Tree(Bare, 0, rk)
  BY <1>1, <1>2, <1>3, <1>4 DEF Tree
<1> QED
  BY <1>5 DEF HasTree

\* Without a root nothing is done.
LEMMA NoRootNoStep ==
  ASSUME NEW ix, NEW call, call.info.root = NoPage, NEW r
  PROVE  InsertKey(ix, call, r) = ix /\ DeleteKey(ix, call, r) = ix
BY DEF InsertKey, DeleteKey, FindLeaf

LEMMA FilledTree ==
  ASSUME NEW last \in Nat, NEW scan \in [1 .. last -> Records]
  PROVE  HasTree(Backfilled(scan), 1)
<1> DEFINE one == [root |-> 1, height |-> 1]
           call == [info |-> one, limit |-> MaxPages + 1]
           Turn(ix, m) == InsertKey(ix, call, scan[m])
           S == {ix \in Shapes : HasTree(ix, 1)}
           G == [m \in 1 .. last |-> [ix \in S |-> Turn(ix, m)]]
           f == CHOOSE f :
                  f = [m \in 0 .. last |-> IF m = 0 THEN OnePage ELSE Turn(f[m - 1], m)]
<1>0. Len(scan) = last
  <2>1. scan \in Seq(Records)
    OBVIOUS
  <2> QED
    BY <2>1, LenProperties
<1>1. \A ix : HasTree(ix, 1) => ix \in S
  BY TreeHasShape DEF HasTree
<1>2. OnePage \in S
  BY <1>1, OnePageTree
<1>3. ASSUME NEW ix \in S, NEW m \in 1 .. last PROVE Turn(ix, m) \in S
  <2>1. PICK n, rk : n >= 1 /\ Tree(ix, n, rk)
    BY DEF HasTree
  <2>2. call.info.root = 1 /\ call.info.height = 1 /\ n \in Nat
    BY <2>1 DEF Tree
  <2>3. call.info.root \in 0 .. n /\ call.info.height \in Nat
    BY <2>1, <2>2
  <2> HIDE DEF call, S
  <2>4. HasTree(InsertKey(ix, call, scan[m]), 1)
    BY <2>1, <2>3, InsertTree
  <2> QED
    BY <1>1, <2>4
<1> HIDE DEF Turn, S
<1>4. G \in [1 .. last -> [S -> S]]
  BY <1>3
<1>5. \A ix \in S : \A m \in 1 .. last : G[m][ix] = Turn(ix, m)
  OBVIOUS
<1> HIDE DEF G
<1>6. PICK g \in [0 .. last -> S] :
        g[0] = OnePage /\ \A m \in 1 .. last : g[m] = G[m][g[m - 1]]
  <2>1. Loops(S, OnePage, last, G)
    BY <1>2, <1>4, LoopExists
  <2> QED
    BY <2>1 DEF Loops
<1>7. g = [m \in 0 .. last |-> IF m = 0 THEN OnePage ELSE Turn(g[m - 1], m)]
  <2>1. ASSUME NEW m \in 0 .. last
        PROVE g[m] = IF m = 0 THEN OnePage ELSE Turn(g[m - 1], m)
    <3>1. m # 0 => m \in 1 .. last /\ g[m - 1] \in S
      OBVIOUS
    <3> QED
      BY <1>5, <1>6, <3>1
  <2>2. g = [m \in 0 .. last |-> g[m]]
    OBVIOUS
  <2> QED
    BY <2>1, <2>2
<1>8. f = [m \in 0 .. last |-> IF m = 0 THEN OnePage ELSE Turn(f[m - 1], m)]
  BY <1>7
<1>9. Backfilled(scan) = [f[last] EXCEPT !.info = one]
  BY <1>0 DEF Backfilled, OnePage, Turn
<1> HIDE DEF f
<1>10. \A m \in 0 .. last : f[m] \in S
  <2>1. f[0] \in S
    BY <1>2, <1>8
  <2>2. \A m \in 1 .. last : f[m - 1] \in S => f[m] \in S
    BY <1>3, <1>8
  <2> QED
    BY <2>1, <2>2, LoopKeeps
<1>11. f[last] \in S
  BY <1>10
<1>12. PICK n, rk : n >= 1 /\ Tree(f[last], n, rk)
  BY <1>11 DEF S, HasTree
<1>13. Tree(UpdateIndexInfo(f[last], 1, 1), n, rk)
  <2>1. 1 \in 0 .. n /\ 1 \in Nat
    BY <1>12 DEF Tree
  <2> QED
    BY <1>12, <2>1, InfoTree
<1> QED
  BY <1>9, <1>12, <1>13 DEF UpdateIndexInfo, HasTree

-----------------------------------------------------------------------------
\* The inductive invariant.
IndexInv ==
    /\ records \subseteq Records
    /\ failures \in 0 .. MaxFailures
    /\ index = NoIndex \/ HasTree(index, 0)

LEMMA InitInv == Init => IndexInv
BY IndexAssumption DEF Init, IndexInv

LEMMA CreateInv == IndexInv /\ CreateIndex => IndexInv'
<1> SUFFICES ASSUME IndexInv, CreateIndex PROVE IndexInv'
  OBVIOUS
<1> DEFINE last == Cardinality(records)
<1>1. PICK scan \in Scans : index' = Backfilled(scan)
  BY DEF CreateIndex
<1>2. last \in Nat
  BY IndexAssumption DEF CreateIndex
<1>3. scan \in [1 .. last -> Records]
  <2>1. scan \in [1 .. last -> records]
    BY DEF Scans
  <2> HIDE DEF last
  <2> QED
    BY <2>1 DEF IndexInv
<1> HIDE DEF last
<1>4. HasTree(Backfilled(scan), 1)
  BY <1>2, <1>3, FilledTree
<1>5. PICK k, x : k >= 1 /\ Tree(index', k, x)
  BY <1>1, <1>4 DEF HasTree
<1>6. k >= 0
  BY <1>5 DEF Tree
<1>7. HasTree(index', 0)
  BY <1>5, <1>6 DEF HasTree
<1> QED
  BY <1>7 DEF CreateIndex, IndexInv

LEMMA CreateFailsInv == IndexInv /\ CreateIndexFails => IndexInv'
<1> SUFFICES ASSUME IndexInv, CreateIndexFails PROVE IndexInv'
  OBVIOUS
<1>1. failures' \in 0 .. MaxFailures /\ records' = records
  BY IndexAssumption DEF CreateIndexFails, IndexInv
<1>2. index = NoIndex
  BY DEF CreateIndexFails, IndexInv, HasTree, Tree
<1>3. index' = Bare
  BY <1>2 DEF CreateIndexFails, NoIndex, Bare
<1> QED
  BY <1>1, <1>3, BareTree DEF IndexInv

\* Before there is an index, an insertion or a deletion finds none.
LEMMA NoIndexInv ==
  ASSUME IndexInv, index = NoIndex, NEW r \in Records
  PROVE  /\ OnRecordInserted(r) => IndexInv'
         /\ \A m \in 0 .. 2 : OnRecordInsertedFails(r, m) => IndexInv'
         /\ OnRecordDeleted(r) => IndexInv'
<1>1. Unlimited.info.root = NoPage /\ \A m : Call(m).info.root = NoPage
  BY DEF Unlimited, Call, NoIndex
<1>2. /\ InsertKey(index, Unlimited, r) = index /\ DeleteKey(index, Unlimited, r) = index
      /\ \A m : InsertKey(index, Call(m), r) = index
  BY <1>1, NoRootNoStep
<1> HIDE DEF NoIndex
<1>3. OnRecordInserted(r) => IndexInv'
  BY <1>2 DEF OnRecordInserted, IndexInv
<1>4. \A m \in 0 .. 2 : OnRecordInsertedFails(r, m) => IndexInv'
  BY <1>2, IndexAssumption DEF OnRecordInsertedFails, IndexInv
<1>5. OnRecordDeleted(r) => IndexInv'
  BY <1>2 DEF OnRecordDeleted, IndexInv
<1> QED
  BY <1>3, <1>4, <1>5

LEMMA NextInv == IndexInv /\ [Next]_vars => IndexInv'
<1> SUFFICES ASSUME IndexInv, [Next]_vars PROVE IndexInv'
  OBVIOUS
<1>1. CASE UNCHANGED vars
  BY <1>1 DEF vars, IndexInv, HasTree
<1>2. CASE CreateIndex \/ CreateIndexFails
  BY <1>2, CreateInv, CreateFailsInv
<1>3. ASSUME NEW r \in Records,
             \/ OnRecordInserted(r)
             \/ \E m \in 0 .. 2 : OnRecordInsertedFails(r, m)
             \/ OnRecordDeleted(r)
      PROVE  IndexInv'
  <2>1. CASE index = NoIndex
    BY <1>3, <2>1, NoIndexInv
  <2>2. CASE index # NoIndex
    <3>0. PICK n, rk : n >= 0 /\ Tree(index, n, rk)
      BY <2>2 DEF IndexInv, HasTree
    <3>1. n \in Nat /\ index.info.root \in 0 .. n /\ index.info.height \in Nat
      BY <3>0 DEF Tree, Infos
    <3>2. MaxFailures \in Nat
      BY IndexAssumption
    <3>3. /\ Unlimited.info.root \in 0 .. n /\ Unlimited.info.height \in Nat
          /\ \A x : Call(x).info.root \in 0 .. n /\ Call(x).info.height \in Nat
      BY <3>1 DEF Unlimited, Call
    <3>4. CASE OnRecordInserted(r)
      <4>1. HasTree(InsertKey(index, Unlimited, r), 0)
        BY <3>0, <3>3, InsertTree
      <4> QED
        BY <3>4, <4>1 DEF OnRecordInserted, IndexInv, HasTree
    <3>5. ASSUME NEW m \in 0 .. 2, OnRecordInsertedFails(r, m) PROVE IndexInv'
      <4>1. HasTree(InsertKey(index, Call(m), r), 0)
        BY <3>0, <3>3, InsertTree
      <4>2. failures' \in 0 .. MaxFailures
        BY <3>2, <3>5 DEF OnRecordInsertedFails, IndexInv
      <4> QED
        BY <3>5, <4>1, <4>2 DEF OnRecordInsertedFails, IndexInv, HasTree
    <3>6. CASE OnRecordDeleted(r)
      <4>1. Tree(DeleteKey(index, Unlimited, r), n, rk)
        BY <3>0, <3>3, DeleteTree
      <4> QED
        BY <3>0, <3>6, <4>1 DEF OnRecordDeleted, IndexInv, HasTree
    <3> QED
      BY <1>3, <3>4, <3>5, <3>6
  <2> QED
    BY <2>1, <2>2
<1> QED
  BY <1>1, <1>2, <1>3 DEF Next

\* Depth, which follows the left-most children, is how far a page is from the leaves.
LEMMA DepthIsRank ==
  ASSUME NEW n, NEW rk, Tree(index, n, rk)
  PROVE  \A p \in 1 .. n : Depth[p] = rk[p]
<1> DEFINE D == 1 .. n
           leaf(p) == index.node[p].kind = "leaf"
           down(p) == index.node[p].leftMost
           f == CHOOSE f : f = [p \in D |-> IF leaf(p) THEN 0 ELSE f[down(p)] + 1]
<1>1. n \in Nat /\ rk \in [D -> Nat] /\ DOMAIN index.node = D
  BY DEF Tree
<1>2. ASSUME NEW p \in D
      PROVE  IF leaf(p) THEN rk[p] = 0 ELSE down(p) \in D /\ rk[down(p)] + 1 = rk[p]
  BY PageFields DEF Below
<1>3. Depth = f
  BY <1>1 DEF Depth
<1> HIDE DEF leaf, down, D
<1>4. rk = [p \in D |-> IF leaf(p) THEN 0 ELSE rk[down(p)] + 1]
  BY <1>1, <1>2
<1>5. f = [p \in D |-> IF leaf(p) THEN 0 ELSE f[down(p)] + 1]
  BY <1>4
<1> HIDE DEF f
<1> DEFINE Off == {j \in Nat : \E q \in D : rk[q] = j /\ f[q] # rk[q]}
<1>6. Off = {}
  <2> SUFFICES ASSUME Off # {} PROVE FALSE
    OBVIOUS
  <2>1. PICK j \in Off : \A i \in Off : j <= i
    BY Least
  <2>2. PICK q \in D : rk[q] = j /\ f[q] # rk[q]
    OBVIOUS
  <2>3. f[q] = IF leaf(q) THEN 0 ELSE f[down(q)] + 1
    BY <1>5
  <2>4. ~leaf(q) /\ down(q) \in D /\ rk[down(q)] + 1 = rk[q] /\ f[down(q)] # rk[down(q)]
    BY <1>2, <2>2, <2>3
  <2>5. rk[down(q)] \in Nat /\ rk[q] \in Nat
    BY <1>1, <2>4
  <2>6. rk[down(q)] \in Off
    BY <2>4, <2>5
  <2> QED
    BY <2>1, <2>2, <2>4, <2>5, <2>6
<1>7. \A p \in D : rk[p] \in Nat
  BY <1>1
<1> QED
  BY <1>3, <1>6, <1>7 DEF D

LEMMA ChildrenBelow ==
  ASSUME NEW n, NEW rk, NEW ix, Tree(ix, n, rk), NEW p \in 1 .. n
  PROVE  \A c \in Range(Children(ix.node[p])) : c \in 1 .. n /\ rk[c] + 1 = rk[p]
<1> DEFINE nd == ix.node[p]
<1>1. CASE rk[p] = 0
  <2>1. Children(nd) = <<>>
    BY <1>1, PageFields DEF Children
  <2> QED
    BY <2>1 DEF Range
<1>2. CASE rk[p] # 0
  <2> DEFINE s == ChildrenOf(nd.entries)
             B == Below(n, rk, rk[p])
  <2>1. nd.kind = "internal" /\ nd.leftMost \in B /\ n \in Nat
        /\ nd.entries \in Seq(Ents(n, rk, rk[p]))
    BY <1>2, PageFields
  <2>2. s \in Seq(B)
    BY <1>2, <2>1, ChildrenOfEntries
  <2>3. Children(nd) = <<nd.leftMost>> \o s
    BY <2>1 DEF Children, ChildrenOf
  <2>4. <<nd.leftMost>> \in Seq(B)
    BY <2>1
  <2> HIDE DEF nd, s, B
  <2>5. Children(nd) \in Seq(B)
    BY <2>2, <2>3, <2>4, ConcatProperties
  <2>6. \A c \in Range(Children(nd)) : c \in B
    BY <2>5, RangeOfSeq
  <2> QED
    BY <2>6 DEF B, Below, nd
<1> QED
  BY <1>1, <1>2

LEMMA InvBalanced == IndexInv => Balanced
<1>0. CASE index = NoIndex
  BY <1>0 DEF Balanced, NoIndex
<1> SUFFICES ASSUME IndexInv, index # NoIndex PROVE Balanced
  BY <1>0
<1>1. PICK n, rk : Tree(index, n, rk)
  BY DEF IndexInv, HasTree
<1>2. \A p \in 1 .. n : Depth[p] = rk[p]
  BY <1>1, DepthIsRank
<1>3. DOMAIN index.node = 1 .. n
  BY <1>1 DEF Tree
<1>4. ASSUME NEW p \in 1 .. n
      PROVE  /\ \A c \in Range(Children(index.node[p])) : Depth[c] + 1 = Depth[p]
             /\ index.node[p].parent # NoPage =>
                   Depth[index.node[p].parent] = Depth[p] + 1
  <2>1. \A c \in Range(Children(index.node[p])) : c \in 1 .. n /\ rk[c] + 1 = rk[p]
    BY <1>1, ChildrenBelow
  <2>2. index.node[p].parent \in Above(n, rk, rk[p])
    BY <1>1, PageFields
  <2>3. index.node[p].parent # NoPage =>
          index.node[p].parent \in 1 .. n /\ rk[index.node[p].parent] = rk[p] + 1
    BY <2>2 DEF Above
  <2> QED
    BY <1>2, <2>1, <2>3
<1> HIDE DEF Depth
<1> QED
  BY <1>3, <1>4 DEF Balanced

\* All leaves below a page are equally far from it, and its parent is one level above it: for
\* any records, any page capacity, any number of pages and failed allocations, and trees of any
\* height (index_manager.cpp:133-171, 300-472, 745-904).
THEOREM IndexBalanced == Spec => []Balanced
<1>1. Spec => []IndexInv
  BY InitInv, NextInv, PTL DEF Spec
<1>2. IndexInv => Balanced
  BY InvBalanced
<1> QED
  BY <1>1, <1>2, PTL

LEMMA NodeTyped ==
  ASSUME NEW n \in Nat, NEW rk \in [1 .. n -> Nat], NEW r \in Nat, NEW nd \in NodesAt(n, rk, r)
  PROVE  nd \in Node(n)
<1>1. \A q \in Above(n, rk, r) : q \in 0 .. n
  BY DEF Above, NoPage
<1>2. \A q \in Below(n, rk, r) : q \in 1 .. n /\ q \in 0 .. n
  BY DEF Below
<1>3. CASE r = 0
  <2>1. nd \in Leaves(n, rk)
    BY <1>3 DEF NodesAt
  <2>2. nd.entries \in Seq(Records)
    BY <2>1 DEF Leaves, Lists
  <2>3. nd \in [kind : {"leaf"}, prev : 0 .. n, next : 0 .. n, parent : 0 .. n,
                leftMost : 0 .. n, entries : Seq(Records)]
    BY <1>1, <1>3, <2>1, <2>2 DEF Leaves
  <2> QED
    BY <2>3 DEF Node
<1>4. CASE r # 0
  <2>1. nd \in Inner(n, rk, r)
    BY <1>4 DEF NodesAt
  <2> DEFINE T == [key : Keys, child : 1 .. n]
  <2>2. nd.entries \in Seq(Kids(n, rk, r))
    BY <2>1 DEF Inner, Lists
  <2>3. Kids(n, rk, r) \subseteq T
    BY <1>2 DEF Kids
  <2>4. nd.entries \in Seq(T)
    <3> DEFINE s == nd.entries
               K == Kids(n, rk, r)
    <3> HIDE DEF s, K, T
    <3>1. s \in Seq(K) /\ K \subseteq T
      BY <2>2, <2>3 DEF s, K
    <3>2. s \in Seq(T)
      BY <3>1, SeqMonotonic
    <3> QED
      BY <3>2 DEF s
  <2> HIDE DEF T
  <2>5. nd \in [kind : {"internal"}, prev : 0 .. n, next : 0 .. n, parent : 0 .. n,
                leftMost : 0 .. n, entries : Seq(T)]
    BY <1>1, <1>2, <2>1, <2>4 DEF Inner
  <2> QED
    BY <2>5 DEF Node, T
<1> QED
  BY <1>3, <1>4

LEMMA InvTypes == MaxKeys % 2 = 0 /\ IndexInv => TypeOK
<1> SUFFICES ASSUME MaxKeys % 2 = 0, IndexInv PROVE TypeOK
  OBVIOUS
<1>0. CASE index = NoIndex
  <2>1. /\ index.created = FALSE /\ index.node = <<>> /\ index.pins = <<>>
        /\ index.info = [root |-> 0, height |-> 0] /\ Size(index) = 0
        /\ index = [created |-> FALSE, node |-> <<>>, pins |-> <<>>, info |-> index.info]
    BY <1>0 DEF NoIndex, NoPage, Size
  <2>2. /\ index.info \in [root : 0 .. 0, height : Nat]
        /\ <<>> \in Seq(Node(0)) /\ <<>> \in Seq(Nat)
    BY <2>1
  <2>3. index \in [created : BOOLEAN, node : Seq(Node(0)), pins : Seq(Nat),
                   info : [root : 0 .. 0, height : Nat]]
    BY <2>1, <2>2
  <2>4. Sound(index) /\ Len(index.pins) = 0
    BY <2>1 DEF Sound
  <2> QED
    BY <2>1, <2>3, <2>4 DEF TypeOK, IndexInv
<1> SUFFICES ASSUME index # NoIndex PROVE TypeOK
  BY <1>0
<1>1. PICK n, rk : Tree(index, n, rk)
  BY DEF IndexInv, HasTree
<1>2. n \in Nat /\ rk \in [1 .. n -> Nat] /\ Size(index) = n /\ DOMAIN index.node = 1 .. n
  BY <1>1, SizeOf DEF Tree
<1>3. index.node \in Seq(Node(n))
  <2>1. \A p \in 1 .. n : index.node[p] \in Node(n)
    <3>1. \A p \in 1 .. n : index.node[p] \in NodesAt(n, rk, rk[p]) /\ rk[p] \in Nat
      BY <1>1, <1>2 DEF Tree
    <3> QED
      BY <1>2, <3>1, NodeTyped
  <2>2. index.node \in [1 .. n -> Node(n)]
    BY <1>1, <2>1 DEF Tree
  <2> QED
    BY <1>2, <2>2
<1>4. index.pins \in Seq(Nat) /\ Len(index.pins) = n
  <2>1. index.pins \in [1 .. n -> Nat]
    BY <1>1 DEF Tree
  <2>2. index.pins \in Seq(Nat)
    BY <1>2, <2>1
  <2> QED
    BY <1>2, <2>1, <2>2, LenProperties
<1>5. /\ index \in [created : BOOLEAN, node : Seq(Node(n)), pins : Seq(Nat),
                    info : [root : 0 .. n, height : Nat]]
  BY <1>1, <1>3, <1>4 DEF Tree, Infos
<1>6. Sound(index)
  <2>1. \A p \in 1 .. n : index.node[p].entries \in Lists(Ents(n, rk, rk[p]))
    BY <1>1, PageFields
  <2> QED
    BY <1>2, <2>1 DEF Sound, Lists
<1> QED
  BY <1>2, <1>4, <1>5, <1>6 DEF TypeOK, IndexInv

\* The nodes keep their shape, all that a header or an entry points to is a page of the file, and
\* no node has more entries than its page has room for, if that room is an even number of entries
\* (with an odd one two internal nodes and the key between them are one entry too many for one
\* page: index_manager.cpp:855, 886).
THEOREM IndexTypes == MaxKeys % 2 = 0 => (Spec => []TypeOK)
<1>1. Spec => []IndexInv
  BY InitInv, NextInv, PTL DEF Spec
<1> SUFFICES ASSUME MaxKeys % 2 = 0 PROVE Spec => []TypeOK
  OBVIOUS
<1>2. IndexInv => TypeOK
  BY InvTypes
<1> QED
  BY <1>1, <1>2, PTL

-----------------------------------------------------------------------------
\* What is where in the sequences that the operators build.
LEMMA ConcatItems ==
  ASSUME NEW S, NEW s \in Seq(S), NEW t \in Seq(S)
  PROVE  /\ s \o t \in Seq(S) /\ Len(s \o t) = Len(s) + Len(t)
         /\ \A j \in 1 .. Len(s) : (s \o t)[j] = s[j]
         /\ \A j \in Len(s) + 1 .. Len(s) + Len(t) : (s \o t)[j] = t[j - Len(s)]
OBVIOUS

LEMMA PartItems ==
  ASSUME NEW S, NEW s \in Seq(S), NEW a \in 1 .. Len(s) + 1, NEW b \in 0 .. Len(s), a <= b + 1
  PROVE  /\ SubSeq(s, a, b) \in Seq(S) /\ Len(SubSeq(s, a, b)) = b - a + 1
         /\ \A j \in 1 .. b - a + 1 : SubSeq(s, a, b)[j] = s[a + j - 1]
OBVIOUS

\* Entry e comes to place i of s.
InsertedAt(t, S, s, i, e) ==
    /\ t \in Seq(S) /\ Len(t) = Len(s) + 1 /\ Len(s) \in Nat
    /\ \A j \in 1 .. Len(s) + 1 : j < i => t[j] = s[j]
    /\ t[i] = e
    /\ \A j \in 1 .. Len(s) + 1 : j > i => t[j] = s[j - 1]

LEMMA InsertedIs ==
  ASSUME NEW S, NEW s \in Seq(S), NEW e \in S, NEW i \in 1 .. Len(s) + 1
  PROVE  InsertedAt(InsertAt(s, i, e), S, s, i, e)
<1> DEFINE t == InsertAt(s, i, e)
           a == SubSeq(s, 1, i - 1)
           b == SubSeq(s, i, Len(s))
           c == <<e>>
<1>0. Len(s) \in Nat /\ i \in Int /\ i - 1 \in 0 .. Len(s) /\ i \in 1 .. Len(s) + 1
  OBVIOUS
<1>1. /\ a \in Seq(S) /\ Len(a) = i - 1
      /\ \A j \in 1 .. i - 1 : a[j] = s[j]
  <2>1. 1 \in 1 .. Len(s) + 1 /\ i - 1 \in 0 .. Len(s) /\ 1 <= i - 1 + 1
    BY <1>0
  <2>2. /\ a \in Seq(S) /\ Len(a) = i - 1 - 1 + 1
        /\ \A j \in 1 .. i - 1 - 1 + 1 : a[j] = s[1 + j - 1]
    BY <2>1, PartItems
  <2> HIDE DEF a
  <2> QED
    BY <1>0, <2>2
<1>2. /\ b \in Seq(S) /\ Len(b) = Len(s) - i + 1
      /\ \A j \in 1 .. Len(s) - i + 1 : b[j] = s[i + j - 1]
  <2>1. Len(s) \in 0 .. Len(s) /\ i <= Len(s) + 1
    BY <1>0
  <2> QED
    BY <2>1, PartItems
<1>3. c \in Seq(S) /\ Len(c) = 1 /\ c[1] = e
  OBVIOUS
<1>4. t = (a \o c) \o b
  BY DEF InsertAt
<1> HIDE DEF a, b, c, t
<1>5. /\ a \o c \in Seq(S) /\ Len(a \o c) = i
      /\ \A j \in 1 .. i - 1 : (a \o c)[j] = s[j]
      /\ (a \o c)[i] = e
  <2>1. /\ a \o c \in Seq(S) /\ Len(a \o c) = Len(a) + Len(c)
        /\ \A j \in 1 .. Len(a) : (a \o c)[j] = a[j]
        /\ \A j \in Len(a) + 1 .. Len(a) + Len(c) : (a \o c)[j] = c[j - Len(a)]
    BY <1>1, <1>3, ConcatItems
  <2> QED
    BY <1>0, <1>1, <1>3, <2>1
<1>6. /\ t \in Seq(S) /\ Len(t) = i + Len(b)
      /\ \A j \in 1 .. i : t[j] = (a \o c)[j]
      /\ \A j \in i + 1 .. i + Len(b) : t[j] = b[j - i]
  <2> DEFINE d == a \o c
  <2>1. d \in Seq(S) /\ Len(d) = i /\ t = d \o b
    BY <1>4, <1>5
  <2> HIDE DEF d
  <2>2. /\ d \o b \in Seq(S) /\ Len(d \o b) = Len(d) + Len(b)
        /\ \A j \in 1 .. Len(d) : (d \o b)[j] = d[j]
        /\ \A j \in Len(d) + 1 .. Len(d) + Len(b) : (d \o b)[j] = b[j - Len(d)]
    BY <1>2, <2>1, ConcatItems
  <2>3. /\ t \in Seq(S) /\ Len(t) = i + Len(b)
        /\ \A j \in 1 .. i : t[j] = d[j]
        /\ \A j \in i + 1 .. i + Len(b) : t[j] = b[j - i]
    BY <2>1, <2>2
  <2> QED
    BY <2>3 DEF d
<1>7. Len(t) = Len(s) + 1
  BY <1>0, <1>2, <1>6
<1>8. ASSUME NEW j \in 1 .. Len(s) + 1, j > i PROVE t[j] = s[j - 1]
  <2>1. j - i \in 1 .. Len(s) - i + 1 /\ j \in i + 1 .. i + Len(b) /\ i + (j - i) - 1 = j - 1
    BY <1>0, <1>2, <1>8
  <2> QED
    BY <1>2, <1>6, <2>1
<1>9. ASSUME NEW j \in 1 .. Len(s) + 1, j < i PROVE t[j] = s[j]
  <2>1. j \in 1 .. i - 1 /\ j \in 1 .. i
    BY <1>0, <1>9
  <2>2. (a \o c)[j] = s[j] /\ t[j] = (a \o c)[j]
    BY <1>5, <1>6, <2>1
  <2> QED
    BY <2>2
<1>10. t[i] = e
  BY <1>0, <1>5, <1>6
<1>11. t \in Seq(S) /\ Len(s) \in Nat
  BY <1>0, <1>6
<1>12. InsertedAt(t, S, s, i, e)
  BY ONLY <1>7, <1>8, <1>9, <1>10, <1>11 DEF InsertedAt
<1> QED
  BY <1>12 DEF t

LEMMA RemovedItems ==
  ASSUME NEW S, NEW s \in Seq(S), NEW i \in 1 .. Len(s), NEW t, t = RemoveAt(s, i)
  PROVE  /\ t \in Seq(S) /\ Len(t) = Len(s) - 1 /\ Len(s) \in Nat /\ Len(t) \in Nat
         /\ \A j \in 1 .. Len(t) : j < i => t[j] = s[j]
         /\ \A j \in 1 .. Len(t) : j >= i => t[j] = s[j + 1]
<1> DEFINE a == SubSeq(s, 1, i - 1)
           b == SubSeq(s, i + 1, Len(s))
<1>0. Len(s) \in Nat /\ i \in Int /\ i - 1 \in 0 .. Len(s) /\ i + 1 \in 1 .. Len(s) + 1
  OBVIOUS
<1>1. /\ a \in Seq(S) /\ Len(a) = i - 1
      /\ \A j \in 1 .. i - 1 : a[j] = s[j]
  <2>1. 1 \in 1 .. Len(s) + 1 /\ 1 <= i - 1 + 1
    BY <1>0
  <2>2. /\ a \in Seq(S) /\ Len(a) = i - 1 - 1 + 1
        /\ \A j \in 1 .. i - 1 - 1 + 1 : a[j] = s[1 + j - 1]
    BY <1>0, <2>1, PartItems
  <2> HIDE DEF a
  <2> QED
    BY <1>0, <2>2
<1>2. /\ b \in Seq(S) /\ Len(b) = Len(s) - i
      /\ \A j \in 1 .. Len(s) - i : b[j] = s[i + j]
  <2>1. Len(s) \in 0 .. Len(s) /\ i + 1 <= Len(s) + 1
    BY <1>0
  <2>2. /\ b \in Seq(S) /\ Len(b) = Len(s) - (i + 1) + 1
        /\ \A j \in 1 .. Len(s) - (i + 1) + 1 : b[j] = s[i + 1 + j - 1]
    BY <1>0, <2>1, PartItems
  <2> HIDE DEF b
  <2> QED
    BY <1>0, <2>2
<1>3. t = a \o b
  BY DEF RemoveAt
<1> HIDE DEF a, b
<1>4. /\ t \in Seq(S) /\ Len(t) = Len(a) + Len(b)
      /\ \A j \in 1 .. Len(a) : t[j] = a[j]
      /\ \A j \in Len(a) + 1 .. Len(a) + Len(b) : t[j] = b[j - Len(a)]
  <2>1. /\ a \o b \in Seq(S) /\ Len(a \o b) = Len(a) + Len(b)
        /\ \A j \in 1 .. Len(a) : (a \o b)[j] = a[j]
        /\ \A j \in Len(a) + 1 .. Len(a) + Len(b) : (a \o b)[j] = b[j - Len(a)]
    BY <1>1, <1>2, ConcatItems
  <2> QED
    BY <1>3, <2>1
<1>5. Len(t) = Len(s) - 1 /\ Len(t) \in Nat
  BY <1>0, <1>1, <1>2, <1>4
<1>6. ASSUME NEW j \in 1 .. Len(t), j < i PROVE t[j] = s[j]
  BY <1>0, <1>1, <1>4, <1>5, <1>6
<1>7. ASSUME NEW j \in 1 .. Len(t), j >= i PROVE t[j] = s[j + 1]
  <2>1. j - Len(a) = j - i + 1 /\ j - i + 1 \in 1 .. Len(s) - i /\ i + (j - i + 1) = j + 1
        /\ j \in Len(a) + 1 .. Len(a) + Len(b)
    BY <1>0, <1>1, <1>2, <1>5, <1>7
  <2> QED
    BY SMTT(40), <1>2, <1>4, <2>1
<1> QED
  BY <1>0, <1>4, <1>5, <1>6, <1>7

\* The least of a set of places.
LEMMA LeastPlace ==
  ASSUME NEW n \in Nat, NEW I \in SUBSET (1 .. n), I # {}
  PROVE  Min(I) \in I /\ \A i \in I : Min(I) <= i
<1>1. \E x \in I : \A y \in I : x <= y
  <2>1. I \in SUBSET Nat
    OBVIOUS
  <2> QED
    BY <2>1, Least
<1> QED
  BY <1>1 DEF Min

\* A search goes to the last child whose key is not greater.
LEMMA UpperMeans ==
  ASSUME NEW S, NEW s \in Seq(S), NEW key, NEW u, u = Upper(s, key)
  PROVE  /\ u \in 1 .. Len(s) + 1
         /\ \A j \in 1 .. Len(s) : j < u => ~(key < s[j].key)
         /\ u \in 1 .. Len(s) => key < s[u].key
<1> DEFINE I == {i \in 1 .. Len(s) : key < s[i].key}
<1>1. Len(s) \in Nat /\ I \in SUBSET (1 .. Len(s))
  OBVIOUS
<1>2. u = IF I # {} THEN IF Min(I) = 0 THEN Len(s) + 1 ELSE Min(I) ELSE Len(s) + 1
  BY DEF Upper, SelectInSeq
<1>3. \A i \in 1 .. Len(s) : i \in I <=> key < s[i].key
  OBVIOUS
<1> HIDE DEF I
<1>4. I # {} => Min(I) \in I /\ \A i \in I : Min(I) <= i
  BY <1>1, LeastPlace
<1>5. CASE I = {}
  BY <1>1, <1>2, <1>3, <1>5
<1>6. CASE I # {}
  <2>1. u = Min(I) /\ u \in I /\ u \in 1 .. Len(s)
    BY <1>1, <1>2, <1>4, <1>6
  <2> QED
    BY <1>1, <1>3, <1>4, <1>6, <2>1
<1> QED
  BY <1>5, <1>6

\* Where a child is among the children of a node.
LEMMA ChildMeans ==
  ASSUME NEW S, NEW nd, nd.entries \in Seq(S), NEW page, NEW k, k = FindChildIndex(nd, page)
  PROVE  /\ k \in -1 .. Len(nd.entries)
         /\ k >= 0 => ChildAt(nd, k) = page
         /\ k < 0 => \A i \in 0 .. Len(nd.entries) : ChildAt(nd, i) # page
<1> DEFINE s == nd.entries
           I == {i \in 1 .. Len(s) : s[i].child = page}
<1>1. Len(s) \in Nat /\ I \in SUBSET (1 .. Len(s))
  OBVIOUS
<1>2. k = IF nd.leftMost = page THEN 0
          ELSE IF I # {} THEN IF Min(I) = 0 THEN -1 ELSE Min(I) ELSE -1
  BY DEF FindChildIndex, SelectInSeq
<1>3. \A i \in 1 .. Len(s) : i \in I <=> s[i].child = page
  OBVIOUS
<1>4. \A i \in 0 .. Len(s) : ChildAt(nd, i) = IF i = 0 THEN nd.leftMost ELSE s[i].child
  BY <1>1 DEF ChildAt
<1> HIDE DEF I
<1>5. I # {} => Min(I) \in I
  BY <1>1, LeastPlace
<1>6. CASE nd.leftMost = page
  BY <1>1, <1>2, <1>4, <1>6
<1>7. CASE nd.leftMost # page /\ I = {}
  <2>1. k = -1
    BY <1>2, <1>7
  <2>2. ASSUME NEW i \in 0 .. Len(s) PROVE ChildAt(nd, i) # page
    BY <1>1, <1>3, <1>4, <1>7
  <2> QED
    BY <1>1, <2>1, <2>2
<1>8. CASE nd.leftMost # page /\ I # {}
  <2>1. k = Min(I) /\ k \in I /\ k \in 1 .. Len(s)
    BY <1>1, <1>2, <1>5, <1>8
  <2> QED
    BY <1>1, <1>3, <1>4, <2>1
<1> QED
  BY <1>6, <1>7, <1>8

LEMMA EntryMeans ==
  ASSUME NEW S, NEW s \in Seq(S), NEW r, NEW k, k = SelectInSeq(s, LAMBDA e : e = r)
  PROVE  /\ k \in 0 .. Len(s)
         /\ k # 0 => s[k] = r
         /\ k = 0 => \A i \in 1 .. Len(s) : s[i] # r
<1> DEFINE I == {i \in 1 .. Len(s) : s[i] = r}
<1>1. Len(s) \in Nat /\ I \in SUBSET (1 .. Len(s))
  OBVIOUS
<1>2. k = IF I # {} THEN Min(I) ELSE 0
  BY DEF SelectInSeq
<1>3. \A i \in 1 .. Len(s) : i \in I <=> s[i] = r
  OBVIOUS
<1> HIDE DEF I
<1>4. I # {} => Min(I) \in I
  BY <1>1, LeastPlace
<1> QED
  BY <1>1, <1>2, <1>3, <1>4

-----------------------------------------------------------------------------
\* What a page of an index has: entries, children, keys, and the parent that it names.
Num(ix, p) == Len(ix.node[p].entries)
Kid(ix, p, i) == ChildAt(ix.node[p], i)
Key(ix, p, i) == ix.node[p].entries[i].key
Par(ix, p) == ix.node[p].parent

\* The pages T are a tree below root: a child is in one place only, and names its parent.
\* X, if it is a page, is one more root: the right half of a node, that no parent has yet.
IsChild(ix, rk, T, root, X, p, c) ==
    c \in T /\ c # root /\ c # X /\ rk[c] + 1 = rk[p] /\ Par(ix, c) = p
HasParent(ix, rk, T, p) ==
    Par(ix, p) \in T /\ rk[Par(ix, p)] # 0 /\ \E i \in 0 .. Num(ix, Par(ix, p)) : Kid(ix, Par(ix, p), i) = p
Family(ix, rk, T, root, X) ==
    /\ root \in T /\ NoPage \notin T
    /\ \A p \in T : rk[p] \in Nat /\ Num(ix, p) \in Nat
    /\ \A p \in T : rk[p] # 0 =>
          \A i \in 0 .. Num(ix, p) : IsChild(ix, rk, T, root, X, p, Kid(ix, p, i))
    /\ \A p \in T : rk[p] # 0 =>
          \A i, j \in 0 .. Num(ix, p) : Kid(ix, p, i) = Kid(ix, p, j) => i = j
    /\ \A p \in T : p # root /\ p # X => HasParent(ix, rk, T, p)

SameKids(jx, ix, q) ==
    Num(jx, q) = Num(ix, q) /\ \A i \in 0 .. Num(ix, q) : Kid(jx, q, i) = Kid(ix, q, i)

\* Nothing but entries of leaves and keys changes.
LEMMA SameFamily ==
  ASSUME NEW ix, NEW jx, NEW rk, NEW T, NEW root, NEW X, Family(ix, rk, T, root, X),
         \A p \in T : Num(jx, p) \in Nat /\ Par(jx, p) = Par(ix, p),
         \A p \in T : rk[p] # 0 => SameKids(jx, ix, p)
  PROVE  Family(jx, rk, T, root, X)
<1>1. \A p \in T : rk[p] # 0 =>
          \A i \in 0 .. Num(jx, p) : IsChild(jx, rk, T, root, X, p, Kid(jx, p, i))
  BY DEF Family, IsChild, SameKids
<1>2. \A p \in T : rk[p] # 0 =>
          \A i, j \in 0 .. Num(jx, p) : Kid(jx, p, i) = Kid(jx, p, j) => i = j
  BY DEF Family, SameKids
<1>3. \A p \in T : p # root /\ p # X => HasParent(jx, rk, T, p)
  BY DEF Family, HasParent, SameKids
<1> QED
  BY <1>1, <1>2, <1>3 DEF Family

\* A new leaf that no parent has yet.
LEMMA LeafFamily ==
  ASSUME NEW ix, NEW jx, NEW rk, NEW rk1, NEW T, NEW root, NEW m,
         Family(ix, rk, T, root, NoPage), m \notin T, m # NoPage,
         \A p \in T : rk1[p] = rk[p], rk1[m] = 0, Num(jx, m) \in Nat,
         \A p \in T : Num(jx, p) \in Nat /\ Par(jx, p) = Par(ix, p),
         \A p \in T : rk[p] # 0 => SameKids(jx, ix, p)
  PROVE  Family(jx, rk1, T \union {m}, root, m)
<1> DEFINE U == T \union {m}
<1>0. root \in U /\ NoPage \notin U /\ \A p \in U : rk1[p] \in Nat /\ Num(jx, p) \in Nat
  BY DEF Family
<1>1. \A p \in U : rk1[p] # 0 =>
          \A i \in 0 .. Num(jx, p) : IsChild(jx, rk1, U, root, m, p, Kid(jx, p, i))
  BY DEF Family, IsChild, SameKids
<1>2. \A p \in U : rk1[p] # 0 =>
          \A i, j \in 0 .. Num(jx, p) : Kid(jx, p, i) = Kid(jx, p, j) => i = j
  BY DEF Family, SameKids
<1>3. \A p \in U : p # root /\ p # m => HasParent(jx, rk1, U, p)
  BY DEF Family, HasParent, SameKids
<1> QED
  BY <1>0, <1>1, <1>2, <1>3 DEF Family

\* The parent P of a node gets the half to its right, X, after child `at'.
GetsKid(jx, ix, P, at, X) ==
    /\ Num(jx, P) = Num(ix, P) + 1
    /\ \A i \in 0 .. Num(ix, P) + 1 :
          Kid(jx, P, i) = IF i <= at THEN Kid(ix, P, i)
                          ELSE IF i = at + 1 THEN X ELSE Kid(ix, P, i - 1)
LEMMA JoinFamily ==
  ASSUME NEW ix, NEW jx, NEW rk, NEW T, NEW root, NEW X, Family(ix, rk, T, root, X),
         X \in T, X # root, NEW P \in T, rk[P] # 0, rk[X] + 1 = rk[P],
         NEW at \in 0 .. Num(ix, P), GetsKid(jx, ix, P, at, X),
         \A p \in T : p # P => Num(jx, p) = Num(ix, p),
         \A p \in T : rk[p] # 0 /\ p # P => SameKids(jx, ix, p),
         \A p \in T : Par(jx, p) = IF p = X THEN P ELSE Par(ix, p)
  PROVE  Family(jx, rk, T, root, NoPage)
<1>0. Num(ix, P) \in Nat /\ NoPage \notin T
  BY DEF Family
<1>1. ASSUME NEW p \in T, rk[p] # 0, NEW i \in 0 .. Num(jx, p)
      PROVE  IsChild(jx, rk, T, root, NoPage, p, Kid(jx, p, i))
  <2>1. CASE p # P
    BY <1>0, <1>1, <2>1 DEF Family, IsChild, SameKids
  <2>2. CASE p = P
    <3>0. i \in 0 .. Num(ix, P) + 1
      BY <1>1, <2>2 DEF GetsKid
    <3>1. CASE i <= at
      <4>1. Kid(jx, P, i) = Kid(ix, P, i) /\ i \in 0 .. Num(ix, P)
        BY <1>0, <3>0, <3>1 DEF GetsKid
      <4> QED
        BY <1>0, <2>2, <4>1 DEF Family, IsChild
    <3>2. CASE i = at + 1
      <4>1. Kid(jx, P, i) = X
        BY <1>0, <3>0, <3>2 DEF GetsKid
      <4> QED
        BY <1>0, <2>2, <4>1 DEF IsChild
    <3>3. CASE i > at + 1
      <4>1. Kid(jx, P, i) = Kid(ix, P, i - 1) /\ i - 1 \in 0 .. Num(ix, P)
        BY <1>0, <3>0, <3>3 DEF GetsKid
      <4> QED
        BY <1>0, <2>2, <4>1 DEF Family, IsChild
    <3> QED
      BY <1>0, <3>0, <3>1, <3>2, <3>3
  <2> QED
    BY <2>1, <2>2
<1>2. ASSUME NEW p \in T, rk[p] # 0, NEW i \in 0 .. Num(jx, p), NEW j \in 0 .. Num(jx, p),
             Kid(jx, p, i) = Kid(jx, p, j)
      PROVE  i = j
  <2>1. CASE p # P
    BY <1>2, <2>1 DEF Family, SameKids
  <2>2. CASE p = P
    <3>0. i \in 0 .. Num(ix, P) + 1 /\ j \in 0 .. Num(ix, P) + 1
      BY <1>2, <2>2 DEF GetsKid
    <3>1. \A a \in 0 .. Num(ix, P) : Kid(ix, P, a) # X
      BY DEF Family, IsChild
    <3>2. \A a, b \in 0 .. Num(ix, P) : Kid(ix, P, a) = Kid(ix, P, b) => a = b
      BY DEF Family
    <3>3. ASSUME NEW a \in 0 .. Num(ix, P) + 1
          PROVE  \/ a <= at /\ a \in 0 .. Num(ix, P) /\ Kid(jx, P, a) = Kid(ix, P, a)
                 \/ a = at + 1 /\ Kid(jx, P, a) = X
                 \/ a > at + 1 /\ a - 1 \in 0 .. Num(ix, P) /\ Kid(jx, P, a) = Kid(ix, P, a - 1)
      BY <1>0 DEF GetsKid
    <3> QED
      BY <1>0, <1>2, <2>2, <3>0, <3>1, <3>2, <3>3
  <2> QED
    BY <2>1, <2>2
<1>3. ASSUME NEW p \in T, p # root PROVE HasParent(jx, rk, T, p)
  <2>1. CASE p = X
    <3>1. at + 1 \in 0 .. Num(jx, P) /\ Kid(jx, P, at + 1) = X /\ Par(jx, p) = P
      BY <1>0, <2>1 DEF GetsKid
    <3> QED
      BY <2>1, <3>1 DEF HasParent
  <2>2. CASE p # X
    <3>1. Par(jx, p) = Par(ix, p) /\ Par(ix, p) \in T /\ rk[Par(ix, p)] # 0
      BY <1>3, <2>2 DEF Family, HasParent
    <3>2. PICK i \in 0 .. Num(ix, Par(ix, p)) : Kid(ix, Par(ix, p), i) = p
      BY <1>3, <2>2 DEF Family, HasParent
    <3>3. CASE Par(ix, p) # P
      BY <3>1, <3>2, <3>3 DEF HasParent, SameKids
    <3>4. CASE Par(ix, p) = P
      <4>1. CASE i <= at
        <5>1. i \in 0 .. Num(jx, P) /\ Kid(jx, P, i) = p
          BY <1>0, <3>2, <3>4, <4>1 DEF GetsKid
        <5> QED
          BY <3>1, <3>4, <5>1 DEF HasParent
      <4>2. CASE i > at
        <5>1. i + 1 \in 0 .. Num(jx, P) /\ Kid(jx, P, i + 1) = p
          BY <1>0, <3>2, <3>4, <4>2 DEF GetsKid
        <5> QED
          BY <3>1, <3>4, <5>1 DEF HasParent
      <4> QED
        BY <1>0, <3>4, <4>1, <4>2
    <3> QED
      BY <3>3, <3>4
  <2> QED
    BY <2>1, <2>2
<1>4. \A p \in T : rk[p] \in Nat /\ Num(jx, p) \in Nat
  BY <1>0 DEF Family, GetsKid
<1> QED
  BY <1>0, <1>1, <1>2, <1>3, <1>4 DEF Family

\* Two trees, root and X, get a root m.
LEMMA RootFamily ==
  ASSUME NEW ix, NEW jx, NEW rk, NEW rk1, NEW T, NEW root, NEW X, NEW m,
         Family(ix, rk, T, root, X), X \in T, X # root, rk[X] = rk[root], m \notin T, m # NoPage,
         \A p \in T : rk1[p] = rk[p], rk1[m] = rk[root] + 1,
         Num(jx, m) = 1, Kid(jx, m, 0) = root, Kid(jx, m, 1) = X,
         \A p \in T : Num(jx, p) = Num(ix, p),
         \A p \in T : rk[p] # 0 => SameKids(jx, ix, p),
         \A p \in T : Par(jx, p) = IF p \in {root, X} THEN m ELSE Par(ix, p)
  PROVE  Family(jx, rk1, T \union {m}, m, NoPage)
<1> DEFINE U == T \union {m}
<1>0. m \in U /\ NoPage \notin U /\ \A p \in U : rk1[p] \in Nat /\ Num(jx, p) \in Nat
  BY DEF Family
<1>a. \A i \in 0 .. 1 : i = 0 \/ i = 1
  OBVIOUS
<1>1. \A p \in U : rk1[p] # 0 =>
          \A i \in 0 .. Num(jx, p) : IsChild(jx, rk1, U, m, NoPage, p, Kid(jx, p, i))
  <2>1. ASSUME NEW p \in T, rk[p] # 0, NEW i \in 0 .. Num(jx, p)
        PROVE IsChild(jx, rk1, U, m, NoPage, p, Kid(jx, p, i))
    BY <1>0, <2>1 DEF Family, IsChild, SameKids
  <2>2. ASSUME NEW i \in 0 .. Num(jx, m)
        PROVE IsChild(jx, rk1, U, m, NoPage, m, Kid(jx, m, i))
    BY <1>0, <1>a DEF Family, IsChild
  <2> QED
    BY <2>1, <2>2
<1>2. \A p \in U : rk1[p] # 0 =>
          \A i, j \in 0 .. Num(jx, p) : Kid(jx, p, i) = Kid(jx, p, j) => i = j
  BY <1>a DEF Family, SameKids
<1>3. ASSUME NEW p \in U, p # m PROVE HasParent(jx, rk1, U, p)
  <2>1. CASE p \in {root, X}
    <3>1. Par(jx, p) = m /\ rk1[m] # 0 /\ \E i \in 0 .. 1 : Kid(jx, m, i) = p
      BY <1>3, <2>1 DEF Family
    <3> QED
      BY <3>1 DEF HasParent
  <2>2. CASE p \notin {root, X}
    BY <1>3, <2>2 DEF Family, HasParent, SameKids
  <2> QED
    BY <2>1, <2>2
<1> QED
  BY <1>0, <1>1, <1>2, <1>3 DEF Family

-----------------------------------------------------------------------------
\* Node P keeps its first children, up to `mid', and m, to its right, gets the others.
Halved(jx, ix, P, m, mid) ==
    /\ Num(jx, P) = mid
    /\ \A i \in 0 .. mid : Kid(jx, P, i) = Kid(ix, P, i)
    /\ Num(jx, m) = Num(ix, P) - mid - 1
    /\ \A i \in 0 .. Num(ix, P) - mid - 1 : Kid(jx, m, i) = Kid(ix, P, mid + 1 + i)
LEMMA SplitFamily ==
  ASSUME NEW ix, NEW jx, NEW rk, NEW rk1, NEW T, NEW root, NEW m,
         Family(ix, rk, T, root, NoPage), m \notin T, m # NoPage,
         NEW P \in T, rk[P] # 0, NEW mid \in Nat, mid < Num(ix, P),
         \A p \in T : rk1[p] = rk[p], rk1[m] = rk[P], Halved(jx, ix, P, m, mid),
         \A p \in T : p # P => Num(jx, p) = Num(ix, p),
         \A p \in T : rk[p] # 0 /\ p # P => SameKids(jx, ix, p),
         \A i \in mid + 1 .. Num(ix, P) : Par(jx, Kid(ix, P, i)) = m,
         \A p \in T : (\A i \in mid + 1 .. Num(ix, P) : Kid(ix, P, i) # p) => Par(jx, p) = Par(ix, p)
  PROVE  Family(jx, rk1, T \union {m}, root, m)
<1> DEFINE U == T \union {m}
<1>0. /\ Num(ix, P) \in Nat /\ NoPage \notin T /\ root \in T /\ rk[P] \in Nat
      /\ \A p \in T : rk[p] \in Nat /\ Num(ix, p) \in Nat
  BY DEF Family
<1>a. \A p \in U : rk1[p] \in Nat /\ Num(jx, p) \in Nat
  BY <1>0 DEF Halved
<1>b. \A i \in 0 .. Num(ix, P) : IsChild(ix, rk, T, root, NoPage, P, Kid(ix, P, i))
  BY DEF Family
<1>c. \A i, j \in 0 .. Num(ix, P) : Kid(ix, P, i) = Kid(ix, P, j) => i = j
  BY DEF Family
<1>1. ASSUME NEW p \in U, rk1[p] # 0, NEW i \in 0 .. Num(jx, p)
      PROVE  IsChild(jx, rk1, U, root, m, p, Kid(jx, p, i))
  <2>1. CASE p \in T /\ p # P
    <3>1. IsChild(ix, rk, T, root, NoPage, p, Kid(ix, p, i)) /\ Kid(jx, p, i) = Kid(ix, p, i)
      BY <1>1, <2>1 DEF Family, SameKids
    <3>2. Par(ix, Kid(ix, p, i)) = p
      BY <3>1 DEF IsChild
    <3>3. \A j \in mid + 1 .. Num(ix, P) : Kid(ix, P, j) # Kid(ix, p, i)
      BY <1>0, <1>b, <2>1, <3>2 DEF IsChild
    <3> QED
      BY <2>1, <3>1, <3>3 DEF IsChild
  <2>2. CASE p = P
    <3>1. i \in 0 .. Num(ix, P) /\ i \in 0 .. mid /\ Kid(jx, P, i) = Kid(ix, P, i)
      BY <1>0, <1>1, <2>2 DEF Halved
    <3>2. \A j \in mid + 1 .. Num(ix, P) : Kid(ix, P, j) # Kid(ix, P, i)
      BY <1>0, <1>c, <3>1
    <3> QED
      BY <1>b, <2>2, <3>1, <3>2 DEF IsChild
  <2>3. CASE p = m
    <3>1. /\ mid + 1 + i \in 0 .. Num(ix, P) /\ mid + 1 + i \in mid + 1 .. Num(ix, P)
          /\ Kid(jx, m, i) = Kid(ix, P, mid + 1 + i)
      BY <1>0, <1>1, <2>3 DEF Halved
    <3> QED
      BY <1>b, <2>3, <3>1 DEF IsChild
  <2> QED
    BY <2>1, <2>2, <2>3
<1>2. ASSUME NEW p \in U, rk1[p] # 0, NEW i \in 0 .. Num(jx, p), NEW j \in 0 .. Num(jx, p),
             Kid(jx, p, i) = Kid(jx, p, j)
      PROVE  i = j
  <2>1. CASE p \in T /\ p # P
    BY <1>2, <2>1 DEF Family, SameKids
  <2>2. CASE p = P
    BY <1>0, <1>2, <1>c, <2>2 DEF Halved
  <2>3. CASE p = m
    <3>1. /\ mid + 1 + i \in 0 .. Num(ix, P) /\ mid + 1 + j \in 0 .. Num(ix, P)
          /\ Kid(ix, P, mid + 1 + i) = Kid(ix, P, mid + 1 + j)
      BY <1>0, <1>2, <2>3 DEF Halved
    <3>2. mid + 1 + i = mid + 1 + j
      BY <1>c, <3>1
    <3>3. i \in Int /\ j \in Int
      BY <1>2
    <3> QED
      BY <3>2, <3>3
  <2> QED
    BY <2>1, <2>2, <2>3
<1>3. ASSUME NEW p \in U, p # root, p # m PROVE HasParent(jx, rk1, U, p)
  <2>1. Par(ix, p) \in T /\ rk[Par(ix, p)] # 0
    BY <1>3 DEF Family, HasParent
  <2>2. PICK i \in 0 .. Num(ix, Par(ix, p)) : Kid(ix, Par(ix, p), i) = p
    BY <1>3 DEF Family, HasParent
  <2>3. CASE Par(ix, p) # P
    <3>1. \A j \in mid + 1 .. Num(ix, P) : Kid(ix, P, j) # p
      BY <1>0, <1>b, <2>3 DEF IsChild
    <3>2. Par(jx, p) = Par(ix, p)
      BY <1>3, <3>1
    <3> QED
      BY <2>1, <2>2, <2>3, <3>2 DEF HasParent, SameKids
  <2>4. CASE Par(ix, p) = P /\ i <= mid
    <3>1. i \in 0 .. Num(jx, P) /\ Kid(jx, P, i) = p
      BY <1>0, <2>2, <2>4 DEF Halved
    <3>2. \A j \in mid + 1 .. Num(ix, P) : Kid(ix, P, j) # p
      BY <1>0, <1>c, <2>2, <2>4
    <3>3. Par(jx, p) = P
      BY <1>3, <2>4, <3>2
    <3> QED
      BY <2>1, <3>1, <3>3 DEF HasParent
  <2>5. CASE Par(ix, p) = P /\ i > mid
    <3>1. i \in mid + 1 .. Num(ix, P) /\ Par(jx, p) = m
      BY <1>0, <2>2, <2>5
    <3>2. /\ i - mid - 1 \in 0 .. Num(ix, P) - mid - 1 /\ mid + 1 + (i - mid - 1) = i
          /\ i - mid - 1 \in 0 .. Num(jx, m)
      BY <1>0, <3>1 DEF Halved
    <3>3. Kid(jx, m, i - mid - 1) = p
      BY <2>2, <2>5, <3>2 DEF Halved
    <3> QED
      BY <3>1, <3>2, <3>3 DEF HasParent
  <2> QED
    BY <1>0, <2>2, <2>3, <2>4, <2>5
<1> QED
  BY <1>0, <1>a, <1>1, <1>2, <1>3 DEF Family

\* No block for what should lead to X: X and its children are lost.
Lost(ix, rk, T, X) ==
    {p \in T : p = X \/ (rk[X] # 0 /\ \E i \in 0 .. Num(ix, X) : Kid(ix, X, i) = p)}
LEMMA LoseFamily ==
  ASSUME NEW ix, NEW rk, NEW T, NEW root, NEW X, Family(ix, rk, T, root, X),
         X \in T, X # root, rk[X] <= 1
  PROVE  Family(ix, rk, T \ Lost(ix, rk, T, X), root, NoPage)
<1> DEFINE U == T \ Lost(ix, rk, T, X)
<1>0. \A p \in T : p \in U <=> p # X /\ (rk[X] # 0 => \A i \in 0 .. Num(ix, X) : Kid(ix, X, i) # p)
  BY DEF Lost
<1>a. U \subseteq T
  OBVIOUS
<1> HIDE DEF U
<1>b. \A p \in T : rk[p] \in Nat
  BY DEF Family
<1>1. root \in U
  BY <1>0 DEF Family, IsChild
<1>2. ASSUME NEW p \in U, rk[p] # 0, NEW i \in 0 .. Num(ix, p)
      PROVE  IsChild(ix, rk, U, root, NoPage, p, Kid(ix, p, i))
  <2>1. IsChild(ix, rk, T, root, X, p, Kid(ix, p, i))
    BY <1>2, <1>a DEF Family
  <2>2. Kid(ix, p, i) \in U
    <3>1. p # X /\ Kid(ix, p, i) \in T /\ Kid(ix, p, i) # X /\ Par(ix, Kid(ix, p, i)) = p
      BY <1>0, <1>2, <1>a, <2>1 DEF IsChild
    <3>2. \A j \in 0 .. Num(ix, X) : rk[X] # 0 => Par(ix, Kid(ix, X, j)) = X
      BY DEF Family, IsChild
    <3> QED
      BY <1>0, <3>1, <3>2
  <2>3. Kid(ix, p, i) # NoPage
    BY <1>a, <2>2 DEF Family
  <2> QED
    BY <2>1, <2>2, <2>3 DEF IsChild
<1>3. ASSUME NEW p \in U, p # root PROVE HasParent(ix, rk, U, p)
  <2>0. p \in T /\ p # X
    BY <1>0, <1>3, <1>a
  <2>1. HasParent(ix, rk, T, p)
    BY <1>3, <2>0 DEF Family
  <2>2. Par(ix, p) \in U
    <3>1. Par(ix, p) # X
      BY <1>0, <1>3, <2>0, <2>1 DEF HasParent
    <3>2. ASSUME rk[X] # 0, NEW i \in 0 .. Num(ix, X), Kid(ix, X, i) = Par(ix, p) PROVE FALSE
      <4>1. rk[Par(ix, p)] + 1 = rk[X] /\ rk[Par(ix, p)] # 0 /\ rk[Par(ix, p)] \in Nat
        BY <1>b, <2>1, <3>2 DEF Family, IsChild, HasParent
      <4> QED
        BY <1>b, <4>1
    <3> QED
      BY <1>0, <2>1, <3>1, <3>2 DEF HasParent
  <2> QED
    BY <2>1, <2>2 DEF HasParent
<1>4. Family(ix, rk, U, root, NoPage)
  BY <1>a, <1>1, <1>2, <1>3 DEF Family
<1> QED
  BY <1>4 DEF U

\* Child k of P and the key before it go.
LosesKid(jx, ix, P, k) ==
    /\ Num(jx, P) = Num(ix, P) - 1
    /\ \A i \in 0 .. Num(ix, P) - 1 :
          Kid(jx, P, i) = IF i < k THEN Kid(ix, P, i) ELSE Kid(ix, P, i + 1)
LEMMA CutFamily ==
  ASSUME NEW ix, NEW jx, NEW rk, NEW T, NEW root, Family(ix, rk, T, root, NoPage),
         NEW P \in T, rk[P] # 0, NEW k \in 1 .. Num(ix, P), LosesKid(jx, ix, P, k),
         rk[Kid(ix, P, k)] = 0, NEW D, D = Kid(ix, P, k),
         \A p \in T : p # P => Num(jx, p) \in Nat,
         \A p \in T : rk[p] # 0 /\ p # P => SameKids(jx, ix, p),
         \A p \in T : p # D => Par(jx, p) = Par(ix, p)
  PROVE  Family(jx, rk, T \ {D}, root, NoPage)
<1> DEFINE U == T \ {D}
<1>0. /\ Num(ix, P) \in Nat /\ NoPage \notin T /\ root \in T /\ rk[P] \in Nat /\ D \in T /\ D # P
      /\ \A p \in T : rk[p] \in Nat /\ Num(ix, p) \in Nat
  BY DEF Family, IsChild
<1>b. \A i \in 0 .. Num(ix, P) : IsChild(ix, rk, T, root, NoPage, P, Kid(ix, P, i))
  BY DEF Family
<1>c. \A i, j \in 0 .. Num(ix, P) : Kid(ix, P, i) = Kid(ix, P, j) => i = j
  BY DEF Family
<1>d. Num(jx, P) \in Nat /\ root \in U /\ NoPage \notin U
  <2>1. D # root
    BY <1>0, <1>b DEF IsChild
  <2> QED
    BY <1>0, <2>1 DEF LosesKid
<1>e. ASSUME NEW i \in 0 .. Num(jx, P)
      PROVE  \/ i < k /\ i \in 0 .. Num(ix, P) /\ Kid(jx, P, i) = Kid(ix, P, i)
             \/ i >= k /\ i + 1 \in 0 .. Num(ix, P) /\ Kid(jx, P, i) = Kid(ix, P, i + 1)
  BY <1>0 DEF LosesKid
<1>1. ASSUME NEW p \in U, rk[p] # 0, NEW i \in 0 .. Num(jx, p)
      PROVE  IsChild(jx, rk, U, root, NoPage, p, Kid(jx, p, i))
  <2>1. CASE p # P
    <3>1. IsChild(ix, rk, T, root, NoPage, p, Kid(ix, p, i)) /\ Kid(jx, p, i) = Kid(ix, p, i)
      BY <1>1, <2>1 DEF Family, SameKids
    <3>2. Kid(ix, p, i) # D
      BY <1>0, <1>b, <2>1, <3>1 DEF IsChild
    <3> QED
      BY <3>1, <3>2 DEF IsChild
  <2>2. CASE p = P
    <3>1. i \in 0 .. Num(jx, P)
      BY <1>1, <2>2
    <3>2. PICK j \in 0 .. Num(ix, P) : j # k /\ Kid(jx, P, i) = Kid(ix, P, j)
      BY <1>0, <1>e, <3>1
    <3>3. Kid(ix, P, j) # D
      BY <1>0, <1>c, <3>2
    <3> QED
      BY <1>b, <2>2, <3>2, <3>3 DEF IsChild
  <2> QED
    BY <2>1, <2>2
<1>2. ASSUME NEW p \in U, rk[p] # 0, NEW i \in 0 .. Num(jx, p), NEW j \in 0 .. Num(jx, p),
             Kid(jx, p, i) = Kid(jx, p, j)
      PROVE  i = j
  <2>1. CASE p # P
    BY <1>2, <2>1 DEF Family, SameKids
  <2>2. CASE p = P
    <3>1. i \in 0 .. Num(jx, P) /\ j \in 0 .. Num(jx, P)
      BY <1>2, <2>2
    <3> QED
      BY <1>0, <1>2, <1>c, <1>e, <2>2, <3>1
  <2> QED
    BY <2>1, <2>2
<1>3. ASSUME NEW p \in U, p # root PROVE HasParent(jx, rk, U, p)
  <2>0. Par(jx, p) = Par(ix, p) /\ p # NoPage /\ p # D
    BY <1>0, <1>3
  <2>1. Par(ix, p) \in T /\ rk[Par(ix, p)] # 0 /\ Par(ix, p) # D
    BY <1>3, <2>0 DEF Family, HasParent
  <2>2. PICK i \in 0 .. Num(ix, Par(ix, p)) : Kid(ix, Par(ix, p), i) = p
    BY <1>3, <2>0 DEF Family, HasParent
  <2>3. CASE Par(ix, p) # P
    BY <2>0, <2>1, <2>2, <2>3 DEF HasParent, SameKids
  <2>4. CASE Par(ix, p) = P /\ i < k
    <3>1. i \in 0 .. Num(jx, P) /\ Kid(jx, P, i) = p
      BY <1>0, <2>2, <2>4 DEF LosesKid
    <3> QED
      BY <1>0, <2>0, <2>1, <2>4, <3>1 DEF HasParent
  <2>5. CASE Par(ix, p) = P /\ i > k
    <3>1. i - 1 \in 0 .. Num(ix, P) - 1 /\ ~(i - 1 < k) /\ i - 1 + 1 = i
      BY <1>0, <2>2, <2>5
    <3>2. i - 1 \in 0 .. Num(jx, P) /\ Kid(jx, P, i - 1) = p
      BY <2>2, <2>5, <3>1 DEF LosesKid
    <3> QED
      BY <1>0, <2>0, <2>1, <2>5, <3>2 DEF HasParent
  <2>6. ~(Par(ix, p) = P /\ i = k)
    BY <1>3, <2>2
  <2> QED
    BY <1>0, <2>2, <2>3, <2>4, <2>5, <2>6
<1>4. \A p \in U : rk[p] \in Nat /\ Num(jx, p) \in Nat
  BY <1>0, <1>d
<1> QED
  BY <1>d, <1>1, <1>2, <1>3, <1>4 DEF Family

-----------------------------------------------------------------------------
\* Child a of A becomes child b of B.
MovesKid(jx, ix, A, a, B, b) ==
    /\ Num(jx, A) = Num(ix, A) - 1
    /\ \A i \in 0 .. Num(ix, A) - 1 :
          Kid(jx, A, i) = IF i < a THEN Kid(ix, A, i) ELSE Kid(ix, A, i + 1)
    /\ Num(jx, B) = Num(ix, B) + 1
    /\ \A i \in 0 .. Num(ix, B) + 1 :
          Kid(jx, B, i) = IF i < b THEN Kid(ix, B, i)
                          ELSE IF i = b THEN Kid(ix, A, a) ELSE Kid(ix, B, i - 1)
LEMMA MoveFamily ==
  ASSUME NEW ix, NEW jx, NEW rk, NEW T, NEW root, Family(ix, rk, T, root, NoPage),
         NEW A \in T, NEW B \in T, A # B, rk[A] # 0, rk[B] = rk[A], Num(ix, A) # 0,
         NEW a \in 0 .. Num(ix, A), NEW b \in 0 .. Num(ix, B) + 1,
         MovesKid(jx, ix, A, a, B, b),
         \A p \in T : p \notin {A, B} => Num(jx, p) = Num(ix, p),
         \A p \in T : rk[p] # 0 /\ p \notin {A, B} => SameKids(jx, ix, p),
         \A p \in T : Par(jx, p) = IF p = Kid(ix, A, a) THEN B ELSE Par(ix, p)
  PROVE  Family(jx, rk, T, root, NoPage)
<1> DEFINE c == Kid(ix, A, a)
<1>0. /\ Num(ix, A) \in Nat \ {0} /\ Num(ix, B) \in Nat /\ NoPage \notin T /\ root \in T
      /\ \A p \in T : rk[p] \in Nat /\ Num(ix, p) \in Nat
  BY DEF Family
<1>a. \A i \in 0 .. Num(ix, A) : IsChild(ix, rk, T, root, NoPage, A, Kid(ix, A, i))
  BY DEF Family
<1>b. \A i \in 0 .. Num(ix, B) : IsChild(ix, rk, T, root, NoPage, B, Kid(ix, B, i))
  BY DEF Family
<1>c. \A i, j \in 0 .. Num(ix, A) : Kid(ix, A, i) = Kid(ix, A, j) => i = j
  BY DEF Family
<1>d. \A i, j \in 0 .. Num(ix, B) : Kid(ix, B, i) = Kid(ix, B, j) => i = j
  BY DEF Family
<1>e. ASSUME NEW i \in 0 .. Num(jx, A)
      PROVE  \/ i < a /\ i \in 0 .. Num(ix, A) /\ Kid(jx, A, i) = Kid(ix, A, i)
             \/ i >= a /\ i + 1 \in 0 .. Num(ix, A) /\ Kid(jx, A, i) = Kid(ix, A, i + 1)
  BY <1>0 DEF MovesKid
<1>f. ASSUME NEW i \in 0 .. Num(jx, B)
      PROVE  \/ i < b /\ i \in 0 .. Num(ix, B) /\ Kid(jx, B, i) = Kid(ix, B, i)
             \/ i = b /\ Kid(jx, B, i) = c
             \/ i > b /\ i - 1 \in 0 .. Num(ix, B) /\ Kid(jx, B, i) = Kid(ix, B, i - 1)
  BY <1>0 DEF MovesKid
<1>g. IsChild(ix, rk, T, root, NoPage, A, c)
  BY <1>a
<1>h. \A p \in T : rk[p] \in Nat /\ Num(jx, p) \in Nat
  BY <1>0 DEF MovesKid
<1> HIDE DEF c
<1>i. \A p \in T : Par(jx, p) = IF p = c THEN B ELSE Par(ix, p)
  BY DEF c
<1>1. ASSUME NEW p \in T, rk[p] # 0, NEW i \in 0 .. Num(jx, p)
      PROVE  IsChild(jx, rk, T, root, NoPage, p, Kid(jx, p, i))
  <2>1. CASE p \notin {A, B}
    <3>1. IsChild(ix, rk, T, root, NoPage, p, Kid(ix, p, i)) /\ Kid(jx, p, i) = Kid(ix, p, i)
      BY <1>1, <2>1 DEF Family, SameKids
    <3> QED
      BY <1>g, <1>i, <2>1, <3>1 DEF IsChild
  <2>2. CASE p = A
    <3>1. PICK j \in 0 .. Num(ix, A) : j # a /\ Kid(jx, A, i) = Kid(ix, A, j)
      <4>1. i \in 0 .. Num(jx, A)
        BY <1>1, <2>2
      <4> QED
        BY <1>0, <1>e, <4>1
    <3>2. Kid(ix, A, j) # c
      BY <1>c, <3>1 DEF c
    <3> QED
      BY <1>a, <1>i, <2>2, <3>1, <3>2 DEF IsChild
  <2>3. CASE p = B
    <3>1. i \in 0 .. Num(jx, B)
      BY <1>1, <2>3
    <3>2. CASE Kid(jx, B, i) = c
      BY <1>g, <1>i, <2>3, <3>2 DEF IsChild
    <3>3. CASE Kid(jx, B, i) # c
      <4>1. PICK j \in 0 .. Num(ix, B) : Kid(jx, B, i) = Kid(ix, B, j)
        BY <1>f, <3>1, <3>3
      <4> QED
        BY <1>b, <1>i, <2>3, <3>3, <4>1 DEF IsChild
    <3> QED
      BY <3>2, <3>3
  <2> QED
    BY <2>1, <2>2, <2>3
<1>2. ASSUME NEW p \in T, rk[p] # 0, NEW i \in 0 .. Num(jx, p), NEW j \in 0 .. Num(jx, p),
             Kid(jx, p, i) = Kid(jx, p, j)
      PROVE  i = j
  <2>1. CASE p \notin {A, B}
    BY <1>2, <2>1 DEF Family, SameKids
  <2>2. CASE p = A
    <3>1. i \in 0 .. Num(jx, A) /\ j \in 0 .. Num(jx, A)
      BY <1>2, <2>2
    <3> QED
      BY <1>0, <1>2, <1>c, <1>e, <2>2, <3>1
  <2>3. CASE p = B
    <3>1. i \in 0 .. Num(jx, B) /\ j \in 0 .. Num(jx, B)
      BY <1>2, <2>3
    <3>2. \A m \in 0 .. Num(ix, B) : Kid(ix, B, m) # c
      BY <1>b, <1>g DEF IsChild
    <3> QED
      BY <1>0, <1>2, <1>d, <1>f, <2>3, <3>1, <3>2
  <2> QED
    BY <2>1, <2>2, <2>3
<1>3. ASSUME NEW p \in T, p # root PROVE HasParent(jx, rk, T, p)
  <2>0. p # NoPage
    BY <1>0
  <2>1. Par(ix, p) \in T /\ rk[Par(ix, p)] # 0
    BY <1>3, <2>0 DEF Family, HasParent
  <2>2. PICK i \in 0 .. Num(ix, Par(ix, p)) : Kid(ix, Par(ix, p), i) = p
    BY <1>3, <2>0 DEF Family, HasParent
  <2>3. CASE p = c
    <3>1. b \in 0 .. Num(jx, B) /\ Kid(jx, B, b) = c
      BY <1>0 DEF MovesKid, c
    <3> QED
      BY <1>i, <2>3, <3>1 DEF HasParent
  <2>4. CASE p # c /\ Par(ix, p) = A
    <3>0. i # a /\ Par(jx, p) = A
      BY <1>i, <2>2, <2>4 DEF c
    <3>1. CASE i < a
      <4>1. i \in 0 .. Num(jx, A) /\ Kid(jx, A, i) = p
        BY <1>0, <2>2, <2>4, <3>1 DEF MovesKid
      <4> QED
        BY <3>0, <4>1 DEF HasParent
    <3>2. CASE i > a
      <4>1. i - 1 \in 0 .. Num(ix, A) - 1 /\ ~(i - 1 < a) /\ i - 1 + 1 = i
        BY <1>0, <2>2, <2>4, <3>2
      <4>2. i - 1 \in 0 .. Num(jx, A) /\ Kid(jx, A, i - 1) = p
        BY <2>2, <2>4, <4>1 DEF MovesKid
      <4> QED
        BY <3>0, <4>2 DEF HasParent
    <3> QED
      BY <1>0, <2>2, <2>4, <3>0, <3>1, <3>2
  <2>5. CASE p # c /\ Par(ix, p) = B
    <3>0. Par(jx, p) = B
      BY <1>i, <2>5
    <3>1. CASE i < b
      <4>1. i \in 0 .. Num(jx, B) /\ Kid(jx, B, i) = p
        BY <1>0, <2>2, <2>5, <3>1 DEF MovesKid
      <4> QED
        BY <3>0, <4>1, <2>1 DEF HasParent
    <3>2. CASE i >= b
      <4>1. i + 1 \in 0 .. Num(ix, B) + 1 /\ ~(i + 1 < b) /\ i + 1 # b /\ i + 1 - 1 = i
        BY <1>0, <2>2, <2>5, <3>2
      <4>2. i + 1 \in 0 .. Num(jx, B) /\ Kid(jx, B, i + 1) = p
        BY <2>2, <2>5, <4>1 DEF MovesKid
      <4> QED
        BY <3>0, <4>2, <2>1 DEF HasParent
    <3> QED
      BY <1>0, <2>2, <2>5, <3>1, <3>2
  <2>6. CASE p # c /\ Par(ix, p) \notin {A, B}
    BY <1>i, <2>1, <2>2, <2>6 DEF HasParent, SameKids
  <2> QED
    BY <2>3, <2>4, <2>5, <2>6
<1> QED
  BY <1>0, <1>h, <1>1, <1>2, <1>3 DEF Family

\* Node A gets the children of D, child k of P; D and the key before it go.
GetsKids(jx, ix, A, D) ==
    /\ Num(jx, A) = Num(ix, A) + 1 + Num(ix, D)
    /\ \A i \in 0 .. Num(ix, A) + 1 + Num(ix, D) :
          Kid(jx, A, i) = IF i <= Num(ix, A) THEN Kid(ix, A, i) ELSE Kid(ix, D, i - Num(ix, A) - 1)
LEMMA AbsorbFamily ==
  ASSUME NEW ix, NEW jx, NEW rk, NEW T, NEW root, Family(ix, rk, T, root, NoPage),
         NEW P \in T, rk[P] # 0, NEW k \in 1 .. Num(ix, P), LosesKid(jx, ix, P, k),
         NEW D, D = Kid(ix, P, k), rk[D] # 0,
         NEW A, A = Kid(ix, P, k - 1), GetsKids(jx, ix, A, D),
         \A p \in T : p \notin {A, P} => Num(jx, p) = Num(ix, p),
         \A p \in T : rk[p] # 0 /\ p \notin {A, P} => SameKids(jx, ix, p),
         \A i \in 0 .. Num(ix, D) : Par(jx, Kid(ix, D, i)) = A,
         \A p \in T : (\A i \in 0 .. Num(ix, D) : Kid(ix, D, i) # p) => Par(jx, p) = Par(ix, p)
  PROVE  Family(jx, rk, T \ {D}, root, NoPage)
<1> DEFINE U == T \ {D}
<1>0. /\ Num(ix, P) \in Nat /\ NoPage \notin T /\ root \in T /\ k - 1 \in 0 .. Num(ix, P)
      /\ k \in 0 .. Num(ix, P) /\ k - 1 # k
      /\ \A p \in T : rk[p] \in Nat /\ Num(ix, p) \in Nat
  BY DEF Family
<1>b. \A i \in 0 .. Num(ix, P) : IsChild(ix, rk, T, root, NoPage, P, Kid(ix, P, i))
  BY DEF Family
<1>c. \A i, j \in 0 .. Num(ix, P) : Kid(ix, P, i) = Kid(ix, P, j) => i = j
  BY DEF Family
<1>d. /\ A \in T /\ D \in T /\ A # D /\ A # P /\ D # P /\ rk[A] = rk[D] /\ rk[A] # 0
      /\ rk[A] + 1 = rk[P] /\ D # root
  BY <1>0, <1>b, <1>c DEF IsChild
<1>g. \A i \in 0 .. Num(ix, D) : IsChild(ix, rk, T, root, NoPage, D, Kid(ix, D, i))
  BY <1>d DEF Family
<1>h. \A i \in 0 .. Num(ix, A) : IsChild(ix, rk, T, root, NoPage, A, Kid(ix, A, i))
  BY <1>d DEF Family
<1>i. \A i, j \in 0 .. Num(ix, D) : Kid(ix, D, i) = Kid(ix, D, j) => i = j
  BY <1>d DEF Family
<1>j. \A i, j \in 0 .. Num(ix, A) : Kid(ix, A, i) = Kid(ix, A, j) => i = j
  BY <1>d DEF Family
<1>e. ASSUME NEW i \in 0 .. Num(jx, P)
      PROVE  \/ i < k /\ i \in 0 .. Num(ix, P) /\ Kid(jx, P, i) = Kid(ix, P, i)
             \/ i >= k /\ i + 1 \in 0 .. Num(ix, P) /\ Kid(jx, P, i) = Kid(ix, P, i + 1)
  BY <1>0 DEF LosesKid
<1>f. ASSUME NEW i \in 0 .. Num(jx, A)
      PROVE  \/ i \in 0 .. Num(ix, A) /\ Kid(jx, A, i) = Kid(ix, A, i)
             \/ i > Num(ix, A) /\ i - Num(ix, A) - 1 \in 0 .. Num(ix, D)
                /\ Kid(jx, A, i) = Kid(ix, D, i - Num(ix, A) - 1)
  BY <1>0, <1>d DEF GetsKids
<1>k. \A p \in T : Par(ix, p) # D => Par(jx, p) = Par(ix, p)
  BY <1>g DEF IsChild
<1>1. ASSUME NEW p \in U, rk[p] # 0, NEW i \in 0 .. Num(jx, p)
      PROVE  IsChild(jx, rk, U, root, NoPage, p, Kid(jx, p, i))
  <2>1. CASE p \notin {A, P}
    <3>1. IsChild(ix, rk, T, root, NoPage, p, Kid(ix, p, i)) /\ Kid(jx, p, i) = Kid(ix, p, i)
      BY <1>1, <2>1 DEF Family, SameKids
    <3>2. Kid(ix, p, i) # D
      BY <1>0, <1>b, <2>1, <3>1 DEF IsChild
    <3> QED
      BY <1>1, <1>k, <3>1, <3>2 DEF IsChild
  <2>2. CASE p = P
    <3>1. PICK j \in 0 .. Num(ix, P) : j # k /\ Kid(jx, P, i) = Kid(ix, P, j)
      <4>1. i \in 0 .. Num(jx, P)
        BY <1>1, <2>2
      <4> QED
        BY <1>0, <1>e, <4>1
    <3>2. Kid(ix, P, j) # D
      BY <1>0, <1>c, <3>1
    <3> QED
      BY <1>b, <1>d, <1>k, <2>2, <3>1, <3>2 DEF IsChild
  <2>3. CASE p = A
    <3>1. i \in 0 .. Num(jx, A)
      BY <1>1, <2>3
    <3>2. CASE i \in 0 .. Num(ix, A) /\ Kid(jx, A, i) = Kid(ix, A, i)
      <4>1. IsChild(ix, rk, T, root, NoPage, A, Kid(ix, A, i))
        BY <1>h, <3>2
      <4>2. Kid(ix, A, i) # D
        BY <1>0, <1>b, <1>d, <4>1 DEF IsChild
      <4> QED
        BY <1>d, <1>k, <2>3, <3>2, <4>1, <4>2 DEF IsChild
    <3>3. ASSUME NEW j \in 0 .. Num(ix, D), Kid(jx, A, i) = Kid(ix, D, j)
          PROVE IsChild(jx, rk, U, root, NoPage, p, Kid(jx, p, i))
      <4>1. IsChild(ix, rk, T, root, NoPage, D, Kid(ix, D, j))
        BY <1>g
      <4>2. Kid(ix, D, j) # D
        BY <1>0, <1>d, <4>1 DEF IsChild
      <4> QED
        BY <1>d, <2>3, <3>3, <4>1, <4>2 DEF IsChild
    <3> QED
      BY <1>f, <3>1, <3>2, <3>3
  <2> QED
    BY <2>1, <2>2, <2>3
<1>2. ASSUME NEW p \in U, rk[p] # 0, NEW i \in 0 .. Num(jx, p), NEW j \in 0 .. Num(jx, p),
             Kid(jx, p, i) = Kid(jx, p, j)
      PROVE  i = j
  <2>1. CASE p \notin {A, P}
    BY <1>2, <2>1 DEF Family, SameKids
  <2>2. CASE p = P
    <3>1. i \in 0 .. Num(jx, P) /\ j \in 0 .. Num(jx, P)
      BY <1>2, <2>2
    <3> QED
      BY <1>0, <1>2, <1>c, <1>e, <2>2, <3>1
  <2>3. CASE p = A
    <3>1. i \in 0 .. Num(jx, A) /\ j \in 0 .. Num(jx, A)
      BY <1>2, <2>3
    <3>2. \A u \in 0 .. Num(ix, A), v \in 0 .. Num(ix, D) : Kid(ix, A, u) # Kid(ix, D, v)
      BY <1>d, <1>g, <1>h DEF IsChild
    <3>3. Num(ix, A) \in Nat /\ Num(ix, D) \in Nat
      BY <1>0, <1>d
    <3>4. Kid(jx, A, i) = Kid(jx, A, j)
      BY <1>2, <2>3
    <3>5. CASE i \in 0 .. Num(ix, A) /\ Kid(jx, A, i) = Kid(ix, A, i)
      BY <1>f, <1>j, <3>1, <3>2, <3>4, <3>5
    <3>6. CASE /\ i > Num(ix, A) /\ i - Num(ix, A) - 1 \in 0 .. Num(ix, D)
               /\ Kid(jx, A, i) = Kid(ix, D, i - Num(ix, A) - 1)
      <4>1. /\ j > Num(ix, A) /\ j - Num(ix, A) - 1 \in 0 .. Num(ix, D)
            /\ Kid(jx, A, j) = Kid(ix, D, j - Num(ix, A) - 1)
        BY <1>f, <3>1, <3>2, <3>4, <3>6
      <4>2. i - Num(ix, A) - 1 = j - Num(ix, A) - 1
        BY <1>i, <3>4, <3>6, <4>1
      <4> QED
        BY <3>1, <3>3, <4>2
    <3> QED
      BY <1>f, <3>1, <3>5, <3>6
  <2> QED
    BY <2>1, <2>2, <2>3
<1>3. ASSUME NEW p \in U, p # root PROVE HasParent(jx, rk, U, p)
  <2>0. p # NoPage /\ p # D
    BY <1>0, <1>3
  <2>1. Par(ix, p) \in T /\ rk[Par(ix, p)] # 0
    BY <1>3, <2>0 DEF Family, HasParent
  <2>2. PICK i \in 0 .. Num(ix, Par(ix, p)) : Kid(ix, Par(ix, p), i) = p
    BY <1>3, <2>0 DEF Family, HasParent
  <2>3. CASE Par(ix, p) \notin {A, P, D}
    BY <1>3, <1>k, <2>1, <2>2, <2>3 DEF HasParent, SameKids
  <2>4. CASE Par(ix, p) = P
    <3>0. i # k /\ Par(jx, p) = P /\ P \in U
      BY <1>3, <1>d, <1>k, <2>0, <2>1, <2>2, <2>4
    <3>1. CASE i < k
      <4>1. i \in 0 .. Num(jx, P) /\ Kid(jx, P, i) = p
        BY <1>0, <2>2, <2>4, <3>1 DEF LosesKid
      <4> QED
        BY <3>0, <4>1, <2>1, <2>4 DEF HasParent
    <3>2. CASE i > k
      <4>1. i - 1 \in 0 .. Num(ix, P) - 1 /\ ~(i - 1 < k) /\ i - 1 + 1 = i
        BY <1>0, <2>2, <2>4, <3>2
      <4>2. i - 1 \in 0 .. Num(jx, P) /\ Kid(jx, P, i - 1) = p
        BY <2>2, <2>4, <4>1 DEF LosesKid
      <4> QED
        BY <3>0, <4>2, <2>1, <2>4 DEF HasParent
    <3> QED
      BY <1>0, <2>2, <2>4, <3>0, <3>1, <3>2
  <2>5. CASE Par(ix, p) = A
    <3>0. Par(jx, p) = A /\ A \in U
      BY <1>3, <1>d, <1>k, <2>5
    <3>1. i \in 0 .. Num(jx, A) /\ Kid(jx, A, i) = p
      BY <1>0, <1>d, <2>2, <2>5 DEF GetsKids
    <3> QED
      BY <1>d, <3>0, <3>1 DEF HasParent
  <2>6. CASE Par(ix, p) = D
    <3>0. Par(jx, p) = A /\ A \in U
      BY <1>3, <1>d, <2>2, <2>6
    <3>1. Num(ix, A) \in Nat /\ Num(ix, D) \in Nat
      BY <1>0, <1>d
    <3>2. /\ Num(ix, A) + 1 + i \in 0 .. Num(ix, A) + 1 + Num(ix, D)
          /\ ~(Num(ix, A) + 1 + i <= Num(ix, A))
          /\ Num(ix, A) + 1 + i - Num(ix, A) - 1 = i
      BY <2>2, <2>6, <3>1
    <3> DEFINE j == Num(ix, A) + 1 + i
    <3>3. j \in 0 .. Num(ix, A) + 1 + Num(ix, D) /\ ~(j <= Num(ix, A)) /\ j - Num(ix, A) - 1 = i
      <4>1. i \in 0 .. Num(ix, D)
        BY <2>2, <2>6
      <4> QED
        BY <3>1, <4>1
    <3> HIDE DEF j
    <3>4. j \in 0 .. Num(jx, A) /\ Kid(jx, A, j) = Kid(ix, D, i)
      BY <3>3 DEF GetsKids
    <3>5. Kid(jx, A, j) = p
      BY <2>2, <2>6, <3>4
    <3> QED
      BY <1>d, <3>0, <3>4, <3>5 DEF HasParent
  <2> QED
    BY <2>3, <2>4, <2>5, <2>6
<1>4. \A p \in U : rk[p] \in Nat /\ Num(jx, p) \in Nat
  BY <1>0, <1>d DEF LosesKid, GetsKids
<1> QED
  BY <1>0, <1>d, <1>1, <1>2, <1>3, <1>4 DEF Family

\* The only child of the root becomes the root.
LEMMA ShrinkFamily ==
  ASSUME NEW ix, NEW jx, NEW rk, NEW T, NEW root, Family(ix, rk, T, root, NoPage),
         rk[root] # 0, Num(ix, root) = 0, NEW c, c = Kid(ix, root, 0),
         \A p \in T : Num(jx, p) = Num(ix, p),
         \A p \in T : rk[p] # 0 => SameKids(jx, ix, p),
         \A p \in T : p # c => Par(jx, p) = Par(ix, p)
  PROVE  Family(jx, rk, T \ {root}, c, NoPage)
<1> DEFINE U == T \ {root}
<1>0. /\ NoPage \notin U /\ root \in T /\ \A p \in U : rk[p] \in Nat /\ Num(jx, p) \in Nat
  BY DEF Family
<1>1. IsChild(ix, rk, T, root, NoPage, root, c)
  BY DEF Family
<1>2. ASSUME NEW p \in U, rk[p] # 0, NEW i \in 0 .. Num(jx, p)
      PROVE  IsChild(jx, rk, U, c, NoPage, p, Kid(jx, p, i))
  <2>1. IsChild(ix, rk, T, root, NoPage, p, Kid(ix, p, i)) /\ Kid(jx, p, i) = Kid(ix, p, i)
    BY <1>2 DEF Family, SameKids
  <2> QED
    BY <1>1, <1>2, <2>1 DEF IsChild
<1>3. \A p \in U : rk[p] # 0 =>
          \A i, j \in 0 .. Num(jx, p) : Kid(jx, p, i) = Kid(jx, p, j) => i = j
  BY DEF Family, SameKids
<1>4. ASSUME NEW p \in U, p # c PROVE HasParent(jx, rk, U, p)
  <2>1. HasParent(ix, rk, T, p)
    BY <1>0, <1>4 DEF Family
  <2>2. PICK i \in 0 .. Num(ix, Par(ix, p)) : Kid(ix, Par(ix, p), i) = p
    BY <2>1 DEF HasParent
  <2>3. Par(ix, p) # root
    BY <1>4, <2>2
  <2> QED
    BY <1>4, <2>1, <2>2, <2>3 DEF HasParent, SameKids
<1>5. c \in U
  BY <1>1 DEF IsChild
<1> QED
  BY <1>0, <1>2, <1>3, <1>4, <1>5 DEF Family

-----------------------------------------------------------------------------
\* One field of one page changes.
Only(jx, ix, n, p) ==
    (\A q \in 1 .. n : q # p => jx.node[q] = ix.node[q]) /\ jx.pins = ix.pins /\ jx.info = ix.info
EntriesSet(jx, ix, n, p, s) ==
    /\ Only(jx, ix, n, p) /\ jx.node[p].entries = s
    /\ jx.node[p].leftMost = ix.node[p].leftMost /\ jx.node[p].parent = ix.node[p].parent
    /\ jx.node[p].next = ix.node[p].next /\ jx.node[p].prev = ix.node[p].prev
ParentSet(jx, ix, n, p, x) ==
    /\ Only(jx, ix, n, p) /\ jx.node[p].parent = x
    /\ jx.node[p].leftMost = ix.node[p].leftMost /\ jx.node[p].entries = ix.node[p].entries
    /\ jx.node[p].next = ix.node[p].next /\ jx.node[p].prev = ix.node[p].prev
NextSet(jx, ix, n, p, x) ==
    /\ Only(jx, ix, n, p) /\ jx.node[p].next = x
    /\ jx.node[p].leftMost = ix.node[p].leftMost /\ jx.node[p].entries = ix.node[p].entries
    /\ jx.node[p].parent = ix.node[p].parent /\ jx.node[p].prev = ix.node[p].prev
PrevSet(jx, ix, n, p, x) ==
    /\ Only(jx, ix, n, p) /\ jx.node[p].prev = x
    /\ jx.node[p].leftMost = ix.node[p].leftMost /\ jx.node[p].entries = ix.node[p].entries
    /\ jx.node[p].parent = ix.node[p].parent /\ jx.node[p].next = ix.node[p].next
LeftMostSet(jx, ix, n, p, x) ==
    /\ Only(jx, ix, n, p) /\ jx.node[p].leftMost = x
    /\ jx.node[p].parent = ix.node[p].parent /\ jx.node[p].entries = ix.node[p].entries
    /\ jx.node[p].next = ix.node[p].next /\ jx.node[p].prev = ix.node[p].prev
KeySet(jx, ix, n, p, k, key) ==
    /\ Only(jx, ix, n, p) /\ Num(jx, p) = Num(ix, p)
    /\ \A i \in 1 .. Num(ix, p) :
          /\ jx.node[p].entries[i].child = ix.node[p].entries[i].child
          /\ Key(jx, p, i) = IF i = k THEN key ELSE Key(ix, p, i)
    /\ jx.node[p].leftMost = ix.node[p].leftMost /\ jx.node[p].parent = ix.node[p].parent
    /\ jx.node[p].next = ix.node[p].next /\ jx.node[p].prev = ix.node[p].prev

LEMMA EntriesField ==
  ASSUME NEW n, NEW rk, NEW ix, Tree(ix, n, rk), NEW p \in 1 .. n, NEW s \in Lists(Ents(n, rk, rk[p]))
  PROVE  Tree(WithEntries(ix, p, s), n, rk) /\ EntriesSet(WithEntries(ix, p, s), ix, n, p, s)
<1>1. n \in Nat /\ rk \in [1 .. n -> Nat] /\ ix.node[p] \in NodesAt(n, rk, rk[p])
  BY DEF Tree
<1> DEFINE nd == [ix.node[p] EXCEPT !.entries = s]
<1>2. nd \in NodesAt(n, rk, rk[p])
  BY <1>1, NodeStep
<1>3. WithEntries(ix, p, s) = Put(ix, p, nd)
  BY DEF WithEntries, Put
<1>5. nd.entries = s /\ nd.prev = ix.node[p].prev /\ nd.leftMost = ix.node[p].leftMost
      /\ nd.parent = ix.node[p].parent /\ nd.next = ix.node[p].next
  BY <1>1 DEF NodesAt, Leaves, Inner
<1> HIDE DEF nd
<1> QED
  BY <1>2, <1>3, <1>5, PutTree DEF EntriesSet, Only

LEMMA ParentField ==
  ASSUME NEW n, NEW rk, NEW ix, Tree(ix, n, rk), NEW p \in 1 .. n, NEW x \in Above(n, rk, rk[p])
  PROVE  Tree(WithParent(ix, p, x), n, rk) /\ ParentSet(WithParent(ix, p, x), ix, n, p, x)
<1>1. n \in Nat /\ rk \in [1 .. n -> Nat] /\ ix.node[p] \in NodesAt(n, rk, rk[p])
  BY DEF Tree
<1> DEFINE nd == [ix.node[p] EXCEPT !.parent = x]
<1>2. nd \in NodesAt(n, rk, rk[p])
  BY <1>1, NodeStep
<1>3. WithParent(ix, p, x) = Put(ix, p, nd)
  BY DEF WithParent, Put
<1>5. nd.entries = ix.node[p].entries /\ nd.prev = ix.node[p].prev
      /\ nd.leftMost = ix.node[p].leftMost /\ nd.parent = x /\ nd.next = ix.node[p].next
  BY <1>1 DEF NodesAt, Leaves, Inner
<1> HIDE DEF nd
<1> QED
  BY <1>2, <1>3, <1>5, PutTree DEF ParentSet, Only

LEMMA NextField ==
  ASSUME NEW n, NEW rk, NEW ix, Tree(ix, n, rk), NEW p \in 1 .. n, NEW x \in 0 .. n
  PROVE  Tree(WithNext(ix, p, x), n, rk) /\ NextSet(WithNext(ix, p, x), ix, n, p, x)
<1>1. n \in Nat /\ rk \in [1 .. n -> Nat] /\ ix.node[p] \in NodesAt(n, rk, rk[p])
  BY DEF Tree
<1> DEFINE nd == [ix.node[p] EXCEPT !.next = x]
<1>2. nd \in NodesAt(n, rk, rk[p])
  BY <1>1, NodeStep
<1>3. WithNext(ix, p, x) = Put(ix, p, nd)
  BY DEF WithNext, Put
<1>5. nd.entries = ix.node[p].entries /\ nd.prev = ix.node[p].prev
      /\ nd.leftMost = ix.node[p].leftMost /\ nd.parent = ix.node[p].parent /\ nd.next = x
  BY <1>1 DEF NodesAt, Leaves, Inner
<1> HIDE DEF nd
<1> QED
  BY <1>2, <1>3, <1>5, PutTree DEF NextSet, Only

LEMMA PrevField ==
  ASSUME NEW n, NEW rk, NEW ix, Tree(ix, n, rk), NEW p \in 1 .. n, NEW x \in 0 .. n
  PROVE  Tree(WithPrev(ix, p, x), n, rk) /\ PrevSet(WithPrev(ix, p, x), ix, n, p, x)
<1>1. n \in Nat /\ rk \in [1 .. n -> Nat] /\ ix.node[p] \in NodesAt(n, rk, rk[p])
  BY DEF Tree
<1> DEFINE nd == [ix.node[p] EXCEPT !.prev = x]
<1>2. nd \in NodesAt(n, rk, rk[p])
  BY <1>1, NodeStep
<1>3. WithPrev(ix, p, x) = Put(ix, p, nd)
  BY DEF WithPrev, Put
<1>5. nd.entries = ix.node[p].entries /\ nd.prev = x
      /\ nd.leftMost = ix.node[p].leftMost /\ nd.parent = ix.node[p].parent
      /\ nd.next = ix.node[p].next
  BY <1>1 DEF NodesAt, Leaves, Inner
<1> HIDE DEF nd
<1> QED
  BY <1>2, <1>3, <1>5, PutTree DEF PrevSet, Only

LEMMA LeftMostField ==
  ASSUME NEW n, NEW rk, NEW ix, Tree(ix, n, rk), NEW p \in 1 .. n, rk[p] # 0,
         NEW x \in Below(n, rk, rk[p])
  PROVE  Tree(WithLeftMost(ix, p, x), n, rk) /\ LeftMostSet(WithLeftMost(ix, p, x), ix, n, p, x)
<1>1. n \in Nat /\ rk \in [1 .. n -> Nat] /\ ix.node[p] \in NodesAt(n, rk, rk[p])
  BY DEF Tree
<1> DEFINE nd == [ix.node[p] EXCEPT !.leftMost = x]
<1>2. nd \in NodesAt(n, rk, rk[p])
  BY <1>1, NodeStep
<1>3. WithLeftMost(ix, p, x) = Put(ix, p, nd)
  BY DEF WithLeftMost, Put
<1>5. nd.entries = ix.node[p].entries /\ nd.prev = ix.node[p].prev
      /\ nd.leftMost = x /\ nd.parent = ix.node[p].parent /\ nd.next = ix.node[p].next
  BY <1>1 DEF NodesAt, Leaves, Inner
<1> HIDE DEF nd
<1> QED
  BY <1>2, <1>3, <1>5, PutTree DEF LeftMostSet, Only

LEMMA KeyField ==
  ASSUME NEW n, NEW rk, NEW ix, Tree(ix, n, rk), NEW p \in 1 .. n, rk[p] # 0,
         NEW k \in 1 .. Num(ix, p), NEW key \in Keys
  PROVE  Tree(WithKey(ix, p, k, key), n, rk) /\ KeySet(WithKey(ix, p, k, key), ix, n, p, k, key)
<1> DEFINE s == ix.node[p].entries
           t == [s EXCEPT ![k] = [@ EXCEPT !.key = key]]
<1>2. s \in Lists(Ents(n, rk, rk[p])) /\ s \in Seq(Ents(n, rk, rk[p]))
      /\ Ents(n, rk, rk[p]) = Kids(n, rk, rk[p])
  BY PageFields DEF Ents
<1>3. s \in Seq(Kids(n, rk, rk[p])) /\ k \in 1 .. Len(s)
  BY <1>2 DEF Num
<1>4. /\ [s[k] EXCEPT !.key = key] \in Kids(n, rk, rk[p])
      /\ [s[k] EXCEPT !.key = key].key = key
      /\ [s[k] EXCEPT !.key = key].child = s[k].child
  <2>1. s[k] \in Kids(n, rk, rk[p])
    BY <1>3
  <2> QED
    BY <2>1 DEF Kids
<1>5. /\ t \in Seq(Kids(n, rk, rk[p])) /\ Len(t) = Len(s)
      /\ \A i \in 1 .. Len(s) : t[i] = IF i = k THEN [s[k] EXCEPT !.key = key] ELSE s[i]
  BY <1>3, <1>4, ExceptSeq
<1>6. t \in Lists(Ents(n, rk, rk[p]))
  BY <1>2, <1>5 DEF Lists
<1>7. WithKey(ix, p, k, key) = WithEntries(ix, p, t)
  BY DEF WithKey, WithEntries
<1>8. \A i \in 1 .. Len(s) : t[i].child = s[i].child /\ t[i].key = IF i = k THEN key ELSE s[i].key
  BY <1>4, <1>5
<1> HIDE DEF t
<1>9. Tree(WithEntries(ix, p, t), n, rk) /\ EntriesSet(WithEntries(ix, p, t), ix, n, p, t)
  BY <1>6, EntriesField
<1> QED
  BY <1>5, <1>7, <1>8, <1>9 DEF EntriesSet, KeySet, Num, Key

-----------------------------------------------------------------------------
\* A page is what it was, but perhaps for its parent.
SameBody(jx, ix, q) ==
    /\ jx.node[q].entries = ix.node[q].entries /\ jx.node[q].leftMost = ix.node[q].leftMost
    /\ jx.node[q].next = ix.node[q].next /\ jx.node[q].prev = ix.node[q].prev

\* What holds at the start of a count and stays, holds throughout.
LEMMA Counts ==
  ASSUME NEW last \in Nat, NEW Q, 0 \in Q, \A m \in 1 .. last : m - 1 \in Q => m \in Q
  PROVE  \A m \in 0 .. last : m \in Q
<1> DEFINE Bad == {m \in 0 .. last : m \notin Q}
<1>1. Bad = {}
  <2> SUFFICES ASSUME Bad # {} PROVE FALSE
    OBVIOUS
  <2>0. Bad \in SUBSET Nat
    OBVIOUS
  <2>1. PICK k \in Bad : \A m \in Bad : k <= m
    BY <2>0, Least
  <2>2. k \in 1 .. last /\ k - 1 \in 0 .. last /\ ~(k <= k - 1)
    OBVIOUS
  <2>3. k - 1 \in Q
    BY <2>1, <2>2
  <2> QED
    BY <2>1, <2>2, <2>3
<1> QED
  BY <1>1

\* setChildrenParent tells the children their parent, and nobody else.
Told(jx, ix, n, children, parent) ==
    /\ \A q \in 1 .. n : SameBody(jx, ix, q)
    /\ \A i \in 1 .. Len(children) : Par(jx, children[i]) = parent
    /\ \A q \in 1 .. n : (\A i \in 1 .. Len(children) : children[i] # q) => Par(jx, q) = Par(ix, q)
    /\ jx.pins = ix.pins
    /\ jx.info = ix.info
LEMMA ToldParents ==
  ASSUME NEW n, NEW rk, NEW ix, Tree(ix, n, rk), NEW parent \in 1 .. n,
         NEW children \in Seq(Below(n, rk, rk[parent]))
  PROVE  /\ Tree(SetChildrenParent(ix, children, parent), n, rk)
         /\ Told(SetChildrenParent(ix, children, parent), ix, n, children, parent)
<1> DEFINE last == Len(children)
           Tell(jx, m) == WithParent(jx, children[m], parent)
           S == {jx \in Files(n, rk) : Tree(jx, n, rk)}
           G == [m \in 1 .. last |-> [jx \in S |-> Tell(jx, m)]]
           f == CHOOSE f : f = [m \in 0 .. last |-> IF m = 0 THEN ix ELSE Tell(f[m - 1], m)]
<1>1. last \in Nat
  OBVIOUS
<1>2. ix \in S
  BY TreeIsFile
<1>3. ASSUME NEW jx \in S, NEW m \in 1 .. last
      PROVE  /\ children[m] \in 1 .. n /\ Tell(jx, m) \in S
             /\ ParentSet(Tell(jx, m), jx, n, children[m], parent)
  <2> DEFINE c == children[m]
  <2>1. c \in 1 .. n /\ parent \in Above(n, rk, rk[c])
    <3>1. c \in Below(n, rk, rk[parent])
      BY <1>1
    <3>2. rk \in [1 .. n -> Nat]
      BY DEF Tree
    <3> QED
      BY <3>1, <3>2 DEF Below, Above
  <2>2. Tree(jx, n, rk)
    OBVIOUS
  <2> HIDE DEF S
  <2>3. Tree(Tell(jx, m), n, rk) /\ ParentSet(Tell(jx, m), jx, n, c, parent)
    <3> HIDE DEF c
    <3>1. Tree(WithParent(jx, c, parent), n, rk) /\ ParentSet(WithParent(jx, c, parent), jx, n, c, parent)
      BY <2>1, <2>2, ParentField
    <3> QED
      BY <3>1 DEF c
  <2> HIDE DEF Tell
  <2> QED
    BY <2>1, <2>3, TreeIsFile DEF S
<1> HIDE DEF Tell, S, last
<1>4. G \in [1 .. last -> [S -> S]]
  BY <1>3
<1>5. \A jx \in S : \A m \in 1 .. last : G[m][jx] = Tell(jx, m)
  OBVIOUS
<1> HIDE DEF G
<1>6. PICK g \in [0 .. last -> S] :
        g[0] = ix /\ \A m \in 1 .. last : g[m] = G[m][g[m - 1]]
  <2>1. Loops(S, ix, last, G)
    BY <1>1, <1>2, <1>4, LoopExists
  <2> QED
    BY <2>1 DEF Loops
<1>7. g = [m \in 0 .. last |-> IF m = 0 THEN ix ELSE Tell(g[m - 1], m)]
  <2>1. ASSUME NEW m \in 0 .. last PROVE g[m] = IF m = 0 THEN ix ELSE Tell(g[m - 1], m)
    <3>1. m # 0 => m \in 1 .. last /\ g[m - 1] \in S
      BY <1>1
    <3> QED
      BY <1>5, <1>6, <3>1
  <2>2. g = [m \in 0 .. last |-> g[m]]
    OBVIOUS
  <2> QED
    BY <2>1, <2>2
<1>8. f = [m \in 0 .. last |-> IF m = 0 THEN ix ELSE Tell(f[m - 1], m)]
  BY <1>7
<1>9. SetChildrenParent(ix, children, parent) = f[last]
  BY DEF SetChildrenParent, WithParent, Tell, last
<1> HIDE DEF f
<1>10. \A m \in 0 .. last : f[m] \in S
  <2>1. f[0] \in S
    BY <1>1, <1>2, <1>8
  <2>2. \A m \in 1 .. last : f[m - 1] \in S => f[m] \in S
    BY <1>1, <1>3, <1>8
  <2> QED
    BY <1>1, <2>1, <2>2, LoopKeeps
<1> DEFINE At(m) == /\ \A q \in 1 .. n : SameBody(f[m], ix, q)
                    /\ \A i \in 1 .. m : Par(f[m], children[i]) = parent
                    /\ \A q \in 1 .. n :
                          (\A i \in 1 .. m : children[i] # q) => Par(f[m], q) = Par(ix, q)
                    /\ f[m].pins = ix.pins
                    /\ f[m].info = ix.info
           Q == {m \in 0 .. last : At(m)}
<1>11. 0 \in Q
  <2>1. f[0] = ix
    BY <1>1, <1>8
  <2> QED
    BY <1>1, <2>1 DEF SameBody
<1>12. ASSUME NEW m \in 1 .. last, m - 1 \in Q PROVE m \in Q
  <2>1. m - 1 \in 0 .. last /\ m \in 0 .. last
    BY <1>1
  <2>2. f[m - 1] \in S /\ f[m] = Tell(f[m - 1], m)
    BY <1>8, <1>10, <1>12, <2>1
  <2>3. ParentSet(f[m], f[m - 1], n, children[m], parent) /\ children[m] \in 1 .. n
    BY <1>3, <2>2
  <2>4. At(m - 1)
    BY <1>12
  <2>5. \A i \in 1 .. m - 1 : children[i] \in 1 .. n
    BY <1>1, <1>2, <1>3
  <2> HIDE DEF Q
  <2>6. \A q \in 1 .. n : SameBody(f[m], ix, q)
    BY SMTT(40), <2>3, <2>4 DEF ParentSet, Only, SameBody
  <2>7. \A i \in 1 .. m : Par(f[m], children[i]) = parent
    <3>1. \A i \in 1 .. m : i = m \/ i \in 1 .. m - 1
      BY <1>1
    <3>2. Par(f[m], children[m]) = parent
      BY <2>3 DEF ParentSet, Par
    <3>3. \A q \in 1 .. n : q # children[m] => Par(f[m], q) = Par(f[m - 1], q)
      BY <2>3 DEF ParentSet, Only, Par
    <3> QED
      BY <2>4, <2>5, <3>1, <3>2, <3>3
  <2>8. ASSUME NEW q \in 1 .. n, \A i \in 1 .. m : children[i] # q PROVE Par(f[m], q) = Par(ix, q)
    <3>1. (\A i \in 1 .. m - 1 : children[i] # q) /\ children[m] # q
      BY <1>1, <2>8
    <3>2. Par(f[m - 1], q) = Par(ix, q)
      BY <2>4, <3>1
    <3> QED
      BY <2>3, <3>1, <3>2 DEF ParentSet, Only, Par
  <2>9. f[m].pins = ix.pins /\ f[m].info = ix.info
    BY <2>3, <2>4 DEF ParentSet, Only
  <2> QED
    BY <2>1, <2>6, <2>7, <2>8, <2>9 DEF Q
<1>13. \A m \in 0 .. last : m \in Q
  <2> HIDE DEF Q
  <2> QED
    BY <1>1, <1>11, <1>12, Counts
<1>14. At(last) /\ f[last] \in S
  BY <1>1, <1>10, <1>13
<1> QED
  BY <1>9, <1>14 DEF S, Told, last

\* A new page, and the others as they were.
Added(jx, ix, n, nd) ==
    /\ \A q \in 1 .. n : jx.node[q] = ix.node[q]
    /\ jx.node[n + 1] = nd
    /\ \A q \in 1 .. n : jx.pins[q] = ix.pins[q]
    /\ jx.pins[n + 1] = 0
    /\ jx.info = ix.info
LEMMA AddedPage ==
  ASSUME NEW n, NEW rk, NEW ix, Tree(ix, n, rk), NEW r, NEW m, NEW rk1,
         Grown(n, rk, r, m, rk1), NEW nd \in NodesAt(m, rk1, r)
  PROVE  /\ Tree(AddPage(ix, nd), m, rk1)
         /\ Added(AddPage(ix, nd), ix, n, nd)
         /\ NewPage(ix) = m
<1> DEFINE new == AddPage(ix, nd)
<1>0. /\ n \in Nat /\ ix.pins \in [1 .. n -> Nat]
      /\ ix = [created |-> ix.created, node |-> ix.node, pins |-> ix.pins, info |-> ix.info]
  BY DEF Tree
<1>1. Tree(new, m, rk1) /\ Adds(new, ix, n, nd) /\ NewPage(ix) = m
  BY AddTree
<1>2. new.info = ix.info /\ new.pins = Append(ix.pins, 0)
  <2>1. PICK c, f, g, h : ix = [created |-> c, node |-> f, pins |-> g, info |-> h]
    BY <1>0
  <2>2. ix.node = f /\ ix.pins = g /\ ix.info = h
    BY <2>1
  <2>3. new = [ix EXCEPT !.node = Append(ix.node, nd), !.pins = Append(ix.pins, 0)]
    BY DEF AddPage
  <2> DEFINE a == Append(ix.node, nd)
             b == Append(ix.pins, 0)
  <2> HIDE DEF new, a, b
  <2>4. new = [ix EXCEPT !.node = a, !.pins = b]
    BY <2>3 DEF a, b
  <2>5. new = [created |-> c, node |-> a, pins |-> b, info |-> h]
    BY <2>1, <2>4
  <2> QED
    BY <2>2, <2>5 DEF a, b
<1>3. new.pins[n + 1] = 0 /\ \A q \in 1 .. n : new.pins[q] = ix.pins[q]
  <2> DEFINE g == ix.pins
  <2>1. g \in [1 .. n -> Nat] /\ 0 \in Nat
    BY <1>0
  <2> HIDE DEF g
  <2>2. Append(g, 0)[n + 1] = 0 /\ \A q \in 1 .. n : Append(g, 0)[q] = g[q]
    BY <1>0, <2>1, AppendedSeq
  <2> QED
    BY <1>2, <2>2 DEF g
<1> QED
  BY <1>1, <1>2, <1>3 DEF Added, Adds

\* What follows from the entries and the left-most child.
LEMMA SameBodyMeans ==
  ASSUME NEW ix, NEW jx, NEW q, SameBody(jx, ix, q)
  PROVE  /\ Num(jx, q) = Num(ix, q) /\ SameKids(jx, ix, q)
         /\ \A i \in 1 .. Num(ix, q) : Key(jx, q, i) = Key(ix, q, i)
         /\ \A i : Kid(jx, q, i) = Kid(ix, q, i)
BY DEF SameBody, Num, SameKids, Kid, Key, ChildAt

LEMMA KidsOfPage ==
  ASSUME NEW n, NEW rk, NEW ix, Tree(ix, n, rk), NEW p \in 1 .. n
  PROVE  /\ Num(ix, p) \in Nat /\ Num(ix, p) = Len(ix.node[p].entries)
         /\ Kid(ix, p, 0) = ix.node[p].leftMost
         /\ \A i \in 1 .. Num(ix, p) : Kid(ix, p, i) = ix.node[p].entries[i].child
         /\ \A i \in 1 .. Num(ix, p) : ix.node[p].entries[i].key = Key(ix, p, i) /\ Key(ix, p, i) \in Keys
         /\ \A i \in 1 .. Num(ix, p) : ix.node[p].entries[i] \in Ents(n, rk, rk[p])
         /\ rk[p] # 0 => \A i \in 0 .. Num(ix, p) : Kid(ix, p, i) \in 1 .. n /\ rk[Kid(ix, p, i)] + 1 = rk[p]
<1>1. /\ n \in Nat /\ ix.node[p].entries \in Seq(Ents(n, rk, rk[p])) /\ Len(ix.node[p].entries) \in Nat
  BY PageFields
<1>2. \A i \in 1 .. Num(ix, p) : ix.node[p].entries[i] \in Ents(n, rk, rk[p])
  BY <1>1, ElementOfSeq DEF Num
<1>3. \A i \in 1 .. Num(ix, p) : Key(ix, p, i) \in Keys
  BY <1>1, <1>2, EntryFields DEF Key
<1>4. ASSUME rk[p] # 0, NEW i \in 0 .. Num(ix, p)
      PROVE Kid(ix, p, i) \in 1 .. n /\ rk[Kid(ix, p, i)] + 1 = rk[p]
  <2>1. Kid(ix, p, i) \in Below(n, rk, rk[p])
    BY <1>4, Neighbours DEF Kid, Num
  <2> QED
    BY <2>1 DEF Below
<1> QED
  BY <1>1, <1>2, <1>3, <1>4 DEF Num, Kid, Key, ChildAt

-----------------------------------------------------------------------------
\* What splits and new nodes change.
Item(ix, p, i) == ix.node[p].entries[i]

\* Leaf `page' keeps the first entries of `all', and m, to its right, gets the others.
LeafHalved(jx, ix, n, page, all, mid, m) ==
    /\ \A q \in 1 .. n : q # page => jx.node[q] = ix.node[q]
    /\ Num(jx, page) = mid /\ \A i \in 1 .. mid : Item(jx, page, i) = all[i]
    /\ jx.node[page].next = m /\ jx.node[page].prev = ix.node[page].prev
    /\ Par(jx, page) = Par(ix, page)
    /\ Num(jx, m) = Len(all) - mid
    /\ \A i \in 1 .. Len(all) - mid : Item(jx, m, i) = all[mid + i]
    /\ jx.node[m].next = ix.node[page].next /\ jx.node[m].prev = page
    /\ Par(jx, m) = Par(ix, page)
    /\ \A q \in 1 .. n : jx.pins[q] = ix.pins[q]
    /\ jx.pins[m] = 0
    /\ jx.info = ix.info

LeafCut(ix, page, all) ==
    LET mid == Len(all) \div 2
        new == NewLeaf(SubSeq(all, mid + 1, Len(all)), page, ix.node[page].next, ix.node[page].parent)
    IN  WithNext(WithEntries(AddPage(ix, new), page, SubSeq(all, 1, mid)), page, NewPage(ix))

LEMMA LeafCutEffect ==
  ASSUME NEW n, NEW rk, NEW ix, Tree(ix, n, rk), NEW page \in 1 .. n, rk[page] = 0,
         NEW all \in Seq(Records), Len(all) >= 2, MaxKeys % 2 = 0 => Len(all) <= MaxKeys + 1,
         NEW mid, mid = Len(all) \div 2, NEW m, m = n + 1, NEW rk1, Grown(n, rk, 0, m, rk1)
  PROVE  /\ NewPage(ix) = m
         /\ Tree(LeafCut(ix, page, all), m, rk1)
         /\ LeafHalved(LeafCut(ix, page, all), ix, n, page, all, mid, m)
<1> DEFINE nd == ix.node[page]
           first == SubSeq(all, 1, mid)
           rest == SubSeq(all, mid + 1, Len(all))
           new == NewLeaf(rest, page, nd.next, nd.parent)
           a == AddPage(ix, new)
           b == WithEntries(a, page, first)
           cut == WithNext(b, page, m)
<1>1. n \in Nat /\ rk \in [1 .. n -> Nat] /\ m \in Nat
  BY DEF Tree
<1>3. /\ m \in 1 .. m /\ page \in 1 .. m /\ rk1 \in [1 .. m -> Nat] /\ rk1[m] = 0 /\ rk1[page] = 0
      /\ page # m /\ \A q \in 1 .. n : q # m /\ q \in 1 .. m
  BY <1>1 DEF Grown
<1>5. /\ mid \in Nat /\ mid + 1 \in 1 .. Len(all)
      /\ first \in Lists(Records) /\ rest \in Lists(Records)
  BY Halves
<1>6. /\ Len(first) = mid /\ \A i \in 1 .. mid : first[i] = all[i]
      /\ Len(rest) = Len(all) - mid /\ \A i \in 1 .. Len(all) - mid : rest[i] = all[mid + i]
  <2>0. Len(all) \in Nat
    OBVIOUS
  <2>1. /\ mid \in 0 .. Len(all) /\ 1 \in 1 .. Len(all) + 1 /\ mid + 1 \in 1 .. Len(all) + 1
        /\ Len(all) \in 0 .. Len(all) /\ 1 <= mid + 1 /\ mid + 1 <= Len(all) + 1
    BY <1>5, <2>0
  <2>2. Len(first) = mid - 1 + 1 /\ \A i \in 1 .. mid - 1 + 1 : first[i] = all[1 + i - 1]
    BY <2>1, PartItems
  <2> DEFINE lo == mid + 1
             hi == Len(all)
  <2>9. lo \in 1 .. Len(all) + 1 /\ hi \in 0 .. Len(all) /\ lo <= hi + 1 /\ all \in Seq(Records)
    BY <2>0, <2>1
  <2> HIDE DEF lo, hi
  <2>10. /\ Len(SubSeq(all, lo, hi)) = hi - lo + 1
         /\ \A i \in 1 .. hi - lo + 1 : SubSeq(all, lo, hi)[i] = all[lo + i - 1]
    BY <2>9, PartItems
  <2>3. /\ Len(rest) = Len(all) - (mid + 1) + 1
        /\ \A i \in 1 .. Len(all) - (mid + 1) + 1 : rest[i] = all[mid + 1 + i - 1]
    BY <2>10 DEF lo, hi
  <2> HIDE DEF first, rest
  <2>4. \A i \in 1 .. mid : 1 + i - 1 = i
    BY <2>1
  <2>5. \A i \in 1 .. Len(all) - mid : mid + 1 + i - 1 = mid + i
    BY <2>1
  <2>6. mid - 1 + 1 = mid /\ Len(all) - (mid + 1) + 1 = Len(all) - mid
    BY <2>0, <2>1
  <2> QED
    BY <2>2, <2>3, <2>4, <2>5, <2>6
<1> HIDE DEF first, rest
<1>7. new \in NodesAt(m, rk1, 0)
  <2>1. nd.next \in 0 .. n /\ nd.parent \in Above(n, rk, 0)
    BY PageFields
  <2>2. nd.next \in 0 .. m /\ page \in 0 .. m
    BY <1>1, <2>1
  <2>3. nd.parent \in Above(m, rk1, 0)
    BY <2>1, GrownRanks
  <2> HIDE DEF nd
  <2> QED
    BY <1>1, <1>5, <2>2, <2>3, NewLeafNode
<1>8. /\ new.entries = rest /\ new.prev = page /\ new.next = nd.next /\ new.parent = nd.parent
  BY DEF NewLeaf, EmptyNode
<1> HIDE DEF new
<1>9. Tree(a, m, rk1) /\ Added(a, ix, n, new) /\ NewPage(ix) = m
  BY <1>7, AddedPage
<1>10. Tree(b, m, rk1) /\ EntriesSet(b, a, m, page, first)
  <2> HIDE DEF a
  <2>1. first \in Lists(Ents(m, rk1, rk1[page]))
    BY <1>3, <1>5 DEF Ents
  <2> QED
    BY <1>3, <1>9, <2>1, EntriesField
<1>11. Tree(cut, m, rk1) /\ NextSet(cut, b, m, page, m)
  <2> HIDE DEF b
  <2>1. m \in 0 .. m
    BY <1>1
  <2> QED
    BY <1>3, <1>10, <2>1, NextField
<1>12. LeafCut(ix, page, all) = cut
  BY <1>9 DEF LeafCut, new, first, rest
<1> HIDE DEF a, b, cut, nd
<1>13. \A q \in 1 .. n : q # page => cut.node[q] = ix.node[q]
  BY <1>3, <1>9, <1>10, <1>11 DEF Added, EntriesSet, NextSet, Only
<1>14. /\ cut.node[page].entries = first /\ cut.node[page].next = m
       /\ cut.node[page].prev = ix.node[page].prev /\ cut.node[page].parent = ix.node[page].parent
  BY <1>3, <1>9, <1>10, <1>11 DEF Added, EntriesSet, NextSet, Only
<1>15. cut.node[m] = new
  BY <1>3, <1>9, <1>10, <1>11 DEF Added, EntriesSet, NextSet, Only
<1>16. (\A q \in 1 .. n : cut.pins[q] = ix.pins[q]) /\ cut.pins[m] = 0 /\ cut.info = ix.info
  BY <1>3, <1>9, <1>10, <1>11 DEF Added, EntriesSet, NextSet, Only
<1>17. LeafHalved(cut, ix, n, page, all, mid, m)
  BY <1>6, <1>8, <1>13, <1>14, <1>15, <1>16 DEF LeafHalved, Num, Item, Par, nd
<1>18. NewPage(ix) = m /\ Tree(cut, m, rk1)
  BY <1>9, <1>11
<1> QED
  BY SMTT(30), <1>12, <1>17, <1>18

\* The keys and children of P when (key, X) comes after child `at'.
Inserts(jx, ix, P, at, key, X) ==
    /\ GetsKid(jx, ix, P, at, X)
    /\ \A i \in 1 .. Num(ix, P) + 1 :
          Key(jx, P, i) = IF i <= at THEN Key(ix, P, i)
                          ELSE IF i = at + 1 THEN key ELSE Key(ix, P, i - 1)

\* Entries s are those of P with (key, X) at place at + 1.
LEMMA InsertsEntry ==
  ASSUME NEW n, NEW rk, NEW ix, Tree(ix, n, rk), NEW P \in 1 .. n, rk[P] # 0,
         NEW at \in 0 .. Num(ix, P), NEW key \in Keys, NEW X \in Below(n, rk, rk[P]),
         NEW s, s = InsertAt(ix.node[P].entries, at + 1, [key |-> key, child |-> X])
  PROVE  /\ s \in Seq(Ents(n, rk, rk[P])) /\ Len(s) = Num(ix, P) + 1
         /\ \A jx : jx.node[P].entries = s /\ jx.node[P].leftMost = ix.node[P].leftMost =>
               Inserts(jx, ix, P, at, key, X)
<1> DEFINE t == ix.node[P].entries
           e == [key |-> key, child |-> X]
<1>1. t \in Seq(Ents(n, rk, rk[P])) /\ Len(t) \in Nat /\ n \in Nat
  BY PageFields
<1>2. e \in Ents(n, rk, rk[P]) /\ e.key = key /\ e.child = X
  BY <1>1, EntryOf
<1>3. at + 1 \in 1 .. Len(t) + 1 /\ s = InsertAt(t, at + 1, e)
  BY <1>1 DEF Num
<1> HIDE DEF e, t
<1> DEFINE u == at + 1
<1>6. u \in 1 .. Len(t) + 1 /\ s = InsertAt(t, u, e)
  BY <1>3
<1> HIDE DEF u
<1>9. InsertedAt(InsertAt(t, u, e), Ents(n, rk, rk[P]), t, u, e)
  BY <1>1, <1>2, <1>6, InsertedIs
<1>7. InsertedAt(s, Ents(n, rk, rk[P]), t, u, e)
  BY <1>6, <1>9
<1>4. /\ s \in Seq(Ents(n, rk, rk[P])) /\ Len(s) = Len(t) + 1
      /\ \A j \in 1 .. Len(t) + 1 : j < at + 1 => s[j] = t[j]
      /\ s[at + 1] = e
      /\ \A j \in 1 .. Len(t) + 1 : j > at + 1 => s[j] = t[j - 1]
  BY <1>7 DEF u, InsertedAt
<1>5. ASSUME NEW jx, jx.node[P].entries = s, jx.node[P].leftMost = ix.node[P].leftMost
      PROVE Inserts(jx, ix, P, at, key, X)
  <2>0. Num(ix, P) = Len(t) /\ Num(jx, P) = Len(t) + 1 /\ at \in Nat
    BY <1>1, <1>4, <1>5 DEF Num, t
  <2>1. ASSUME NEW i \in 0 .. Num(ix, P) + 1
        PROVE Kid(jx, P, i) = IF i <= at THEN Kid(ix, P, i)
                              ELSE IF i = at + 1 THEN X ELSE Kid(ix, P, i - 1)
    <3>1. Kid(jx, P, i) = IF i = 0 THEN ix.node[P].leftMost ELSE s[i].child
      BY <1>1, <1>4, <1>5, <2>0 DEF Kid, ChildAt
    <3>2. \A j \in 0 .. Len(t) : Kid(ix, P, j) = IF j = 0 THEN ix.node[P].leftMost ELSE t[j].child
      BY <1>1 DEF Kid, ChildAt, t
    <3>3. CASE i <= at
      BY <1>1, <1>4, <2>0, <3>1, <3>2, <3>3
    <3>4. CASE i = at + 1
      BY <1>1, <1>2, <1>4, <2>0, <3>1, <3>4
    <3>5. CASE i > at + 1
      <4>1. s[i] = t[i - 1] /\ i - 1 \in 0 .. Len(t) /\ i # 0 /\ i - 1 # 0
        BY <1>1, <1>4, <2>0, <3>5
      <4> QED
        BY <2>0, <3>1, <3>2, <3>5, <4>1
    <3> QED
      BY <2>0, <3>3, <3>4, <3>5
  <2>2. ASSUME NEW i \in 1 .. Num(ix, P) + 1
        PROVE Key(jx, P, i) = IF i <= at THEN Key(ix, P, i)
                              ELSE IF i = at + 1 THEN key ELSE Key(ix, P, i - 1)
    <3>1. Key(jx, P, i) = s[i].key /\ \A j : Key(ix, P, j) = t[j].key
      BY <1>5 DEF Key, t
    <3>2. CASE i <= at
      <4>1. s[i] = t[i]
        BY <1>1, <1>4, <2>0, <3>2
      <4> QED
        BY <3>1, <3>2, <4>1
    <3>3. CASE i = at + 1
      <4>1. s[i] = e
        BY <1>4, <3>3
      <4> QED
        BY <1>2, <2>0, <3>1, <3>3, <4>1
    <3>4. CASE i > at + 1
      <4>1. s[i] = t[i - 1]
        BY <1>1, <1>4, <2>0, <3>4
      <4> QED
        BY <2>0, <3>1, <3>4, <4>1
    <3> QED
      BY <2>0, <3>2, <3>3, <3>4
  <2> QED
    BY <2>0, <2>1, <2>2 DEF Inserts, GetsKid
<1> QED
  BY <1>1, <1>4, <1>5 DEF Num, t

-----------------------------------------------------------------------------
\* The header of q is what it was, but perhaps for its entries and its left-most child.
SameChain(jx, ix, q) ==
    jx.node[q].next = ix.node[q].next /\ jx.node[q].prev = ix.node[q].prev

\* P gets (key, X) after child `at'.
Joined(jx, ix, n, P, at, key, X) ==
    /\ Inserts(jx, ix, P, at, key, X) /\ SameChain(jx, ix, P)
    /\ \A q \in 1 .. n : q # P => SameBody(jx, ix, q)
    /\ \A q \in 1 .. n : Par(jx, q) = IF q = X THEN P ELSE Par(ix, q)
    /\ jx.pins = ix.pins
    /\ jx.info = ix.info

JoinAt(ix, P, at, key, X) ==
    WithParent(WithEntries(ix, P, InsertAt(ix.node[P].entries, at + 1, [key |-> key, child |-> X])),
               X, P)

LEMMA JoinEffect ==
  ASSUME NEW n, NEW rk, NEW ix, Tree(ix, n, rk), NEW P \in 1 .. n, rk[P] # 0,
         Num(ix, P) < MaxKeys,
         NEW at \in 0 .. Num(ix, P), NEW key \in Keys, NEW X \in Below(n, rk, rk[P])
  PROVE  /\ Tree(JoinAt(ix, P, at, key, X), n, rk)
         /\ Joined(JoinAt(ix, P, at, key, X), ix, n, P, at, key, X)
<1> DEFINE s == InsertAt(ix.node[P].entries, at + 1, [key |-> key, child |-> X])
           a == WithEntries(ix, P, s)
           b == WithParent(a, X, P)
<1>1. n \in Nat /\ rk \in [1 .. n -> Nat] /\ Num(ix, P) \in Nat
  BY KidsOfPage DEF Tree
<1>2. X \in 1 .. n /\ rk[X] + 1 = rk[P] /\ P \in Above(n, rk, rk[X]) /\ X # P
  BY <1>1 DEF Below, Above
<1>3. /\ s \in Seq(Ents(n, rk, rk[P])) /\ Len(s) = Num(ix, P) + 1
      /\ \A jx : jx.node[P].entries = s /\ jx.node[P].leftMost = ix.node[P].leftMost =>
            Inserts(jx, ix, P, at, key, X)
  BY InsertsEntry
<1>4. JoinAt(ix, P, at, key, X) = b
  BY DEF JoinAt
<1> HIDE DEF s
<1>5. s \in Lists(Ents(n, rk, rk[P]))
  <2>1. Len(s) <= MaxKeys
    BY <1>1, <1>3, MinKeysFits
  <2> QED
    BY <1>3, <2>1 DEF Lists
<1>6. Tree(a, n, rk) /\ EntriesSet(a, ix, n, P, s)
  BY <1>5, EntriesField
<1>7. Tree(b, n, rk) /\ ParentSet(b, a, n, X, P)
  <2> HIDE DEF a
  <2> QED
    BY <1>2, <1>6, ParentField
<1> HIDE DEF a, b
<1>8. b.node[P].entries = s /\ b.node[P].leftMost = ix.node[P].leftMost
  BY <1>2, <1>6, <1>7 DEF EntriesSet, ParentSet, Only
<1>9. Inserts(b, ix, P, at, key, X)
  BY <1>3, <1>8
<1>10. \A q \in 1 .. n : q # P => SameBody(b, ix, q)
  BY <1>2, <1>6, <1>7 DEF EntriesSet, ParentSet, Only, SameBody
<1>11. \A q \in 1 .. n : Par(b, q) = IF q = X THEN P ELSE Par(ix, q)
  BY <1>2, <1>6, <1>7 DEF EntriesSet, ParentSet, Only, Par
<1>12. SameChain(b, ix, P) /\ b.pins = ix.pins /\ b.info = ix.info
  BY <1>2, <1>6, <1>7 DEF EntriesSet, ParentSet, Only, SameChain
<1> QED
  BY <1>4, <1>7, <1>9, <1>10, <1>11, <1>12 DEF Joined

\* The root m above left and X.
Rooted(jx, ix, n, m, left, key, X, height) ==
    /\ \A q \in 1 .. n : SameBody(jx, ix, q)
    /\ Num(jx, m) = 1 /\ Kid(jx, m, 0) = left /\ Kid(jx, m, 1) = X /\ Key(jx, m, 1) = key
    /\ Par(jx, m) = NoPage
    /\ \A q \in 1 .. n : Par(jx, q) = IF q \in {left, X} THEN m ELSE Par(ix, q)
    /\ \A q \in 1 .. n : jx.pins[q] = ix.pins[q]
    /\ jx.pins[m] = 0
    /\ jx.info = [root |-> m, height |-> height]

LEMMA InfoSet ==
  ASSUME NEW n, NEW rk, NEW ix, Tree(ix, n, rk), NEW root, NEW height, NEW jx,
         jx = UpdateIndexInfo(ix, root, height)
  PROVE  jx.node = ix.node /\ jx.pins = ix.pins /\ jx.info = [root |-> root, height |-> height]
<1>1. PICK c, f, g, h : ix = [created |-> c, node |-> f, pins |-> g, info |-> h]
  BY DEF Tree
<1> QED
  BY <1>1 DEF UpdateIndexInfo

LEMMA RootEffect ==
  ASSUME NEW n, NEW rk, NEW ix, Tree(ix, n, rk), NEW left \in 1 .. n, NEW X \in 1 .. n,
         rk[left] = rk[X], NEW key \in Keys, NEW call, call.info.height \in Nat,
         NEW m, m = n + 1, NEW rk1, Grown(n, rk, rk[left] + 1, m, rk1)
  PROVE  /\ Tree(NewRoot(ix, call, left, key, X), m, rk1)
         /\ Rooted(NewRoot(ix, call, left, key, X), ix, n, m, left, key, X,
                   AtLeastOne(call.info.height) + 1)
<1> DEFINE r == rk[left] + 1
           e == [key |-> key, child |-> X]
           root == NewInternal(left, <<e>>)
           a == AddPage(ix, root)
           kids == <<left, X>>
           b == SetChildrenParent(a, kids, m)
           h == AtLeastOne(call.info.height) + 1
           c == UpdateIndexInfo(b, m, h)
<1>1. n \in Nat /\ rk \in [1 .. n -> Nat] /\ r \in Nat /\ m \in Nat /\ r # 0
  BY DEF Tree
<1>3. /\ m \in 1 .. m /\ rk1 \in [1 .. m -> Nat] /\ rk1[m] = r
      /\ left \in Below(m, rk1, r) /\ X \in Below(m, rk1, r)
      /\ \A q \in 1 .. n : q # m /\ q \in 1 .. m
  <2>1. \A p \in 1 .. n : p \in 1 .. m /\ rk1[p] = rk[p]
    BY <1>1 DEF Grown
  <2> QED
    BY <1>1, <2>1 DEF Grown, Below
<1> HIDE DEF r
<1>4. /\ root \in NodesAt(m, rk1, r)
      /\ root.leftMost = left /\ root.entries = <<e>> /\ root.parent = NoPage
  <2>1. e \in Kids(m, rk1, r)
    BY <1>3 DEF Kids
  <2>2. <<e>> \in Seq(Kids(m, rk1, r)) /\ Len(<<e>>) = 1
    BY <2>1
  <2>3. <<e>> \in Lists(Ents(m, rk1, r))
    BY <1>1, <2>2, MinKeysFits DEF Lists, Ents
  <2>4. root.leftMost = left /\ root.entries = <<e>> /\ root.parent = NoPage
    BY DEF NewInternal, EmptyNode
  <2> HIDE DEF e
  <2>5. NewInternal(left, <<e>>) \in NodesAt(m, rk1, r)
    BY <1>1, <1>3, <2>3, NewInternalNode
  <2> QED
    BY <2>4, <2>5
<1>5. e.key = key /\ e.child = X /\ Len(<<e>>) = 1 /\ <<e>>[1] = e
  OBVIOUS
<1> HIDE DEF root, e
<1>6. Tree(a, m, rk1) /\ Added(a, ix, n, root) /\ NewPage(ix) = m
  <2>1. Grown(n, rk, r, m, rk1)
    BY DEF r
  <2> QED
    BY <1>4, <2>1, AddedPage
<1>7. /\ kids \in Seq(Below(m, rk1, rk1[m]))
      /\ Len(kids) = 2 /\ kids[1] = left /\ kids[2] = X /\ \A i \in 1 .. 2 : i = 1 \/ i = 2
  BY <1>3
<1> HIDE DEF kids
<1>8. Tree(b, m, rk1) /\ Told(b, a, m, kids, m)
  <2> HIDE DEF a
  <2> QED
    BY <1>3, <1>6, <1>7, ToldParents
<1>9. h \in Nat /\ m \in 0 .. m
  BY <1>1 DEF AtLeastOne
<1>10. /\ Tree(c, m, rk1)
       /\ c.node = b.node /\ c.pins = b.pins /\ c.info = [root |-> m, height |-> h]
  <2> HIDE DEF b, h
  <2> QED
    BY <1>8, <1>9, InfoTree, InfoSet
<1>11. NewRoot(ix, call, left, key, X) = c
  BY <1>6 DEF NewRoot, NewInternal, root, e, kids
<1> HIDE DEF a, b, c, h
<1>12. \A q \in 1 .. n : SameBody(c, ix, q)
  BY <1>3, <1>6, <1>8, <1>10 DEF Told, Added, SameBody
<1>13. c.node[m].entries = <<e>> /\ c.node[m].leftMost = left
  BY <1>3, <1>4, <1>6, <1>8, <1>10 DEF Told, Added, SameBody
<1>14. Num(c, m) = 1 /\ Kid(c, m, 0) = left /\ Kid(c, m, 1) = X /\ Key(c, m, 1) = key
  BY <1>5, <1>13 DEF Num, Kid, Key, ChildAt
<1>15. /\ Par(b, left) = m /\ Par(b, X) = m
       /\ \A q \in 1 .. m : q \notin {left, X} => Par(b, q) = Par(a, q)
  BY <1>7, <1>8 DEF Told
<1>16. Par(c, m) = NoPage
  <2>1. m \notin {left, X}
    BY <1>3
  <2>2. Par(a, m) = NoPage
    BY <1>3, <1>4, <1>6 DEF Added, Par
  <2> QED
    BY <1>3, <1>10, <1>15, <2>1, <2>2 DEF Par
<1>17. \A q \in 1 .. n : Par(c, q) = IF q \in {left, X} THEN m ELSE Par(ix, q)
  <2>1. \A q \in 1 .. n : Par(a, q) = Par(ix, q)
    BY <1>6 DEF Added, Par
  <2>2. \A q \in 1 .. m : Par(c, q) = Par(b, q)
    BY <1>10 DEF Par
  <2> QED
    BY <1>3, <1>15, <2>1, <2>2
<1>18. (\A q \in 1 .. n : c.pins[q] = ix.pins[q]) /\ c.pins[m] = 0
  BY <1>3, <1>6, <1>8, <1>10 DEF Told, Added
<1>19. Rooted(c, ix, n, m, left, key, X, h)
  BY <1>10, <1>12, <1>14, <1>16, <1>17, <1>18 DEF Rooted
<1> QED
  BY <1>10, <1>11, <1>19 DEF h

-----------------------------------------------------------------------------
\* The index with entries s in page P, however many they are.
Wide(ix, P, s) ==
    [node |-> [q \in DOMAIN ix.node |->
                  IF q = P THEN [entries |-> s, leftMost |-> ix.node[P].leftMost,
                                 parent |-> ix.node[P].parent]
                  ELSE ix.node[q]]]

LEMMA WideMeans ==
  ASSUME NEW n, NEW rk, NEW ix, Tree(ix, n, rk), NEW P \in 1 .. n, NEW s, NEW vx, vx = Wide(ix, P, s)
  PROVE  /\ \A q \in 1 .. n : q # P => vx.node[q] = ix.node[q]
         /\ vx.node[P].entries = s /\ vx.node[P].leftMost = ix.node[P].leftMost
         /\ vx.node[P].parent = ix.node[P].parent
<1>1. DOMAIN ix.node = 1 .. n
  BY SizeOf
<1> QED
  BY <1>1 DEF Wide

\* An internal node vx, too wide, keeps the first entries, the one at mid + 1 goes up, and m
\* gets the others.
NodeHalved(jx, vx, n, P, mid, m) ==
    /\ Halved(jx, vx, P, m, mid)
    /\ \A i \in 1 .. mid : Key(jx, P, i) = Key(vx, P, i)
    /\ \A i \in 1 .. Num(vx, P) - mid - 1 : Key(jx, m, i) = Key(vx, P, mid + 1 + i)
    /\ \A q \in 1 .. n : q # P => SameBody(jx, vx, q)
    /\ \A i \in mid + 1 .. Num(vx, P) : Par(jx, Kid(vx, P, i)) = m
    /\ \A q \in 1 .. n : (\A i \in mid + 1 .. Num(vx, P) : Kid(vx, P, i) # q) => Par(jx, q) = Par(vx, q)

NodeCut(ix, P, all) ==
    LET mid == Len(all) \div 2
        new == NewInternal(all[mid + 1].child, SubSeq(all, mid + 2, Len(all)))
    IN  SetChildrenParent(WithEntries(AddPage(ix, new), P, SubSeq(all, 1, mid)),
                          ChildrenOf(SubSeq(all, mid + 1, Len(all))), NewPage(ix))

\* The first entries, those from mid + 1 on, and those after.
PartsAre(all, mid) ==
    /\ Len(all) \in Nat /\ mid \in Nat /\ mid + 1 \in 1 .. Len(all) /\ mid >= 1
    /\ Len(SubSeq(all, 1, mid)) = mid
    /\ \A i \in 1 .. mid : SubSeq(all, 1, mid)[i] = all[i]
    /\ Len(SubSeq(all, mid + 1, Len(all))) = Len(all) - mid
    /\ \A i \in 1 .. Len(all) - mid : SubSeq(all, mid + 1, Len(all))[i] = all[mid + i]
    /\ Len(SubSeq(all, mid + 2, Len(all))) = Len(all) - mid - 1
    /\ \A i \in 1 .. Len(all) - mid - 1 : SubSeq(all, mid + 2, Len(all))[i] = all[mid + 1 + i]
LEMMA Parts ==
  ASSUME NEW S, NEW all \in Seq(S), NEW mid, mid = Len(all) \div 2, Len(all) >= 2
  PROVE  PartsAre(all, mid)
<1> DEFINE hi == Len(all)
           a == mid + 1
           b == mid + 2
           one == 1
<1>1. hi \in Nat /\ mid \in Nat /\ mid >= 1 /\ mid + 1 <= hi
  OBVIOUS
<1>2. /\ one \in 1 .. Len(all) + 1 /\ mid \in 0 .. Len(all) /\ one <= mid + 1
      /\ a \in 1 .. Len(all) + 1 /\ hi \in 0 .. Len(all) /\ a <= hi + 1
      /\ b \in 1 .. Len(all) + 1 /\ b <= hi + 1
  BY <1>1
<1> HIDE DEF hi, a, b, one
<1>3. /\ Len(SubSeq(all, one, mid)) = mid - one + 1
      /\ \A i \in 1 .. mid - one + 1 : SubSeq(all, one, mid)[i] = all[one + i - 1]
  BY <1>2, PartItems
<1>4. /\ Len(SubSeq(all, a, hi)) = hi - a + 1
      /\ \A i \in 1 .. hi - a + 1 : SubSeq(all, a, hi)[i] = all[a + i - 1]
  BY <1>2, PartItems
<1>5. /\ Len(SubSeq(all, b, hi)) = hi - b + 1
      /\ \A i \in 1 .. hi - b + 1 : SubSeq(all, b, hi)[i] = all[b + i - 1]
  BY <1>2, PartItems
<1>6. /\ mid - one + 1 = mid /\ \A i \in 1 .. mid : one + i - 1 = i
      /\ hi - a + 1 = hi - mid /\ \A i \in 1 .. hi - mid : a + i - 1 = mid + i
      /\ hi - b + 1 = hi - mid - 1 /\ \A i \in 1 .. hi - mid - 1 : b + i - 1 = mid + 1 + i
  BY <1>1 DEF a, b, one
<1>7. Len(SubSeq(all, one, mid)) = mid /\ \A i \in 1 .. mid : SubSeq(all, one, mid)[i] = all[i]
  BY <1>3, <1>6
<1>8. /\ Len(SubSeq(all, a, hi)) = hi - mid
      /\ \A i \in 1 .. hi - mid : SubSeq(all, a, hi)[i] = all[mid + i]
  BY ZenonT(60), <1>4, <1>6
<1>9. /\ Len(SubSeq(all, b, hi)) = hi - mid - 1
      /\ \A i \in 1 .. hi - mid - 1 : SubSeq(all, b, hi)[i] = all[mid + 1 + i]
  BY ZenonT(60), <1>5, <1>6
<1>10. mid + 1 \in 1 .. hi
  BY <1>1
<1> QED
  BY <1>1, <1>7, <1>8, <1>9, <1>10 DEF PartsAre, a, b, hi, one

NodeCutIs(jx, ix, vx, n, P, mid, m, rk1) ==
    /\ Tree(jx, m, rk1)
    /\ NodeHalved(jx, vx, n, P, mid, m)
    /\ \A q \in 1 .. n : SameChain(jx, ix, q) /\ jx.pins[q] = ix.pins[q]
    /\ jx.pins[m] = 0 /\ jx.info = ix.info
LEMMA NodeCutEffect ==
  ASSUME NEW n, NEW rk, NEW ix, Tree(ix, n, rk), NEW P \in 1 .. n, rk[P] # 0,
         NEW all \in Seq(Ents(n, rk, rk[P])), Len(all) >= 2,
         MaxKeys % 2 = 0 => Len(all) <= MaxKeys + 1,
         NEW mid, mid = Len(all) \div 2, NEW m, m = n + 1,
         NEW rk1, Grown(n, rk, rk[P], m, rk1), NEW vx, vx = Wide(ix, P, all),
         NEW jx, jx = NodeCut(ix, P, all)
  PROVE  NodeCutIs(jx, ix, vx, n, P, mid, m, rk1)
<1> DEFINE r   == rk[P]
           first == SubSeq(all, 1, mid)
           rest == SubSeq(all, mid + 2, Len(all))
           up == SubSeq(all, mid + 1, Len(all))
           children == ChildrenOf(up)
           new == NewInternal(all[mid + 1].child, rest)
           a == AddPage(ix, new)
           cut == WithEntries(a, P, first)
           told == SetChildrenParent(cut, children, m)
<1>1. n \in Nat /\ rk \in [1 .. n -> Nat] /\ r \in Nat /\ m \in Nat
  BY DEF Tree
<1>3. /\ m \in 1 .. m /\ P \in 1 .. m /\ rk1 \in [1 .. m -> Nat] /\ rk1[m] = r /\ rk1[P] = r
      /\ \A q \in 1 .. n : q # m /\ q \in 1 .. m
  BY <1>1 DEF Grown
<1>4. all \in Seq(Ents(m, rk1, r))
  <2>1. Ents(n, rk, r) \subseteq Ents(m, rk1, r)
    BY GrownRanks
  <2> QED
    BY <2>1, SeqMonotonic
<1>5. /\ Len(all) \in Nat /\ mid \in Nat /\ mid + 1 \in 1 .. Len(all) /\ mid >= 1
      /\ Len(first) = mid /\ \A i \in 1 .. mid : first[i] = all[i]
      /\ Len(up) = Len(all) - mid /\ \A i \in 1 .. Len(all) - mid : up[i] = all[mid + i]
      /\ Len(rest) = Len(all) - mid - 1
      /\ \A i \in 1 .. Len(all) - mid - 1 : rest[i] = all[mid + 1 + i]
  <2>1. PartsAre(all, mid)
    BY Parts
  <2> QED
    BY <2>1 DEF PartsAre
<1>6. /\ first \in Lists(Ents(m, rk1, r)) /\ rest \in Lists(Ents(m, rk1, r))
      /\ up \in Seq(Ents(m, rk1, r))
  BY <1>4, Halves
<1> HIDE DEF r, first, rest, up
<1>7. all[mid + 1].child \in Below(m, rk1, r) /\ r # 0
  <2>1. all[mid + 1] \in Ents(m, rk1, r) /\ r # 0
    BY <1>4, <1>5, ElementOfSeq DEF r
  <2> QED
    BY <1>1, <2>1, EntryFields
<1>8. /\ children \in Seq(Below(m, rk1, r)) /\ Len(children) = Len(all) - mid
      /\ \A i \in 1 .. Len(all) - mid : children[i] = all[mid + i].child
  <2>1. children \in Seq(Below(m, rk1, r))
    BY <1>1, <1>6, <1>7, ChildrenOfEntries
  <2>2. DOMAIN up = 1 .. Len(all) - mid
    BY <1>5, <1>6
  <2>3. Len(all) - mid \in Nat
    BY <1>5
  <2> QED
    BY <1>5, <2>1, <2>2, <2>3 DEF ChildrenOf
<1>9. /\ new \in NodesAt(m, rk1, r)
      /\ new.leftMost = all[mid + 1].child /\ new.entries = rest
  <2>1. new.leftMost = all[mid + 1].child /\ new.entries = rest
    BY DEF NewInternal, EmptyNode
  <2> QED
    BY <1>1, <1>6, <1>7, <2>1, NewInternalNode
<1> HIDE DEF children, new
<1>10. Tree(a, m, rk1) /\ Added(a, ix, n, new) /\ NewPage(ix) = m
  <2>1. Grown(n, rk, r, m, rk1)
    BY DEF r
  <2> QED
    BY <1>9, <2>1, AddedPage
<1>11. Tree(cut, m, rk1) /\ EntriesSet(cut, a, m, P, first)
  <2> HIDE DEF a
  <2> QED
    BY <1>3, <1>6, <1>10, EntriesField
<1>12. Tree(told, m, rk1) /\ Told(told, cut, m, children, m)
  <2> HIDE DEF cut
  <2> QED
    BY <1>3, <1>8, <1>11, ToldParents
<1>13. jx = told
  BY <1>10 DEF NodeCut, new, first, rest, up, children
<1> HIDE DEF a, cut, told
<1>14. /\ \A q \in 1 .. n : q # P => vx.node[q] = ix.node[q]
       /\ vx.node[P].entries = all /\ vx.node[P].leftMost = ix.node[P].leftMost
       /\ vx.node[P].parent = ix.node[P].parent
  BY WideMeans
<1>15. /\ Num(vx, P) = Len(all)
       /\ Kid(vx, P, 0) = ix.node[P].leftMost
       /\ \A i \in 1 .. Len(all) : Kid(vx, P, i) = all[i].child /\ Key(vx, P, i) = all[i].key
  BY <1>14 DEF Num, Kid, Key, ChildAt
<1>16. \A q \in 1 .. n : q # P => SameBody(jx, vx, q)
  BY <1>3, <1>10, <1>11, <1>12, <1>13, <1>14 DEF Added, EntriesSet, Only, Told, SameBody
<1>17. /\ jx.node[P].entries = first /\ jx.node[P].leftMost = ix.node[P].leftMost
       /\ jx.node[m].entries = rest /\ jx.node[m].leftMost = all[mid + 1].child
  BY <1>3, <1>9, <1>10, <1>11, <1>12, <1>13 DEF Added, EntriesSet, Only, Told, SameBody
<1>18. Num(jx, P) = mid /\ \A i \in 0 .. mid : Kid(jx, P, i) = Kid(vx, P, i)
  <2>1. \A i \in 1 .. mid : i \in 1 .. Len(all)
    BY <1>5
  <2> QED
    BY <1>5, <1>15, <1>17, <2>1 DEF Num, Kid, ChildAt
<1>19. /\ Num(jx, m) = Num(vx, P) - mid - 1
       /\ \A i \in 0 .. Num(vx, P) - mid - 1 : Kid(jx, m, i) = Kid(vx, P, mid + 1 + i)
  <2>1. Num(jx, m) = Len(all) - mid - 1
    BY <1>5, <1>17 DEF Num
  <2>2. ASSUME NEW i \in 0 .. Len(all) - mid - 1 PROVE Kid(jx, m, i) = Kid(vx, P, mid + 1 + i)
    <3>1. mid + 1 + i \in 1 .. Len(all)
      BY <1>5
    <3>2. Kid(vx, P, mid + 1 + i) = all[mid + 1 + i].child
      BY <1>15, <3>1
    <3>3. CASE i = 0
      <4>1. Kid(jx, m, i) = all[mid + 1].child /\ mid + 1 + i = mid + 1
        BY <1>5, <1>17, <3>3 DEF Kid, ChildAt
      <4> QED
        BY <3>2, <4>1
    <3>4. CASE i # 0
      <4>1. i \in 1 .. Len(all) - mid - 1 /\ i <= Len(rest)
        BY <1>5, <3>4
      <4>2. Kid(jx, m, i) = rest[i].child
        BY <1>17, <3>4, <4>1 DEF Kid, ChildAt
      <4> QED
        BY <1>5, <3>2, <4>1, <4>2
    <3> QED
      BY <3>3, <3>4
  <2> QED
    BY <1>15, <2>1, <2>2
<1>20. \A i \in 1 .. mid : Key(jx, P, i) = Key(vx, P, i)
  BY <1>5, <1>15, <1>17 DEF Key
<1>21. \A i \in 1 .. Num(vx, P) - mid - 1 : Key(jx, m, i) = Key(vx, P, mid + 1 + i)
  <2>1. ASSUME NEW i \in 1 .. Len(all) - mid - 1 PROVE Key(jx, m, i) = Key(vx, P, mid + 1 + i)
    <3>1. mid + 1 + i \in 1 .. Len(all)
      BY <1>5
    <3>2. Key(jx, m, i) = rest[i].key
      BY <1>17 DEF Key
    <3> QED
      BY <1>5, <1>15, <3>1, <3>2
  <2> QED
    BY <1>15, <2>1
<1>22. \A i \in mid + 1 .. Num(vx, P) : \E j \in 1 .. Len(children) : children[j] = Kid(vx, P, i)
  <2>1. ASSUME NEW i \in mid + 1 .. Len(all) PROVE \E j \in 1 .. Len(children) : children[j] = Kid(vx, P, i)
    <3>1. i - mid \in 1 .. Len(all) - mid /\ mid + (i - mid) = i /\ i \in 1 .. Len(all)
      BY <1>5
    <3>2. children[i - mid] = all[i].child
      BY <1>8, <3>1
    <3> QED
      BY <1>8, <1>15, <3>1, <3>2
  <2> QED
    BY <1>15, <2>1
<1>23. \A j \in 1 .. Len(children) : \E i \in mid + 1 .. Num(vx, P) : children[j] = Kid(vx, P, i)
  <2>1. ASSUME NEW j \in 1 .. Len(all) - mid PROVE \E i \in mid + 1 .. Len(all) : children[j] = Kid(vx, P, i)
    <3>1. mid + j \in mid + 1 .. Len(all) /\ mid + j \in 1 .. Len(all)
      BY <1>5
    <3> QED
      BY <1>8, <1>15, <3>1
  <2> QED
    BY <1>8, <1>15, <2>1
<1>24. \A i \in mid + 1 .. Num(vx, P) : Par(jx, Kid(vx, P, i)) = m
  <2>1. \A j \in 1 .. Len(children) : Par(jx, children[j]) = m
    BY <1>12, <1>13 DEF Told
  <2> QED
    BY <1>22, <2>1
<1>25. ASSUME NEW q \in 1 .. n, \A i \in mid + 1 .. Num(vx, P) : Kid(vx, P, i) # q
       PROVE  Par(jx, q) = Par(vx, q)
  <2>1. \A j \in 1 .. Len(children) : children[j] # q
    BY <1>23, <1>25
  <2>2. Par(jx, q) = Par(cut, q)
    BY <1>3, <1>12, <1>13, <2>1 DEF Told
  <2>3. Par(cut, q) = Par(ix, q)
    BY <1>3, <1>10, <1>11 DEF Added, EntriesSet, Only, Par
  <2>4. Par(vx, q) = Par(ix, q)
    BY <1>14 DEF Par
  <2> QED
    BY <2>2, <2>3, <2>4
<1>26. NodeHalved(jx, vx, n, P, mid, m)
  BY <1>16, <1>18, <1>19, <1>20, <1>21, <1>24, <1>25 DEF NodeHalved, Halved
<1>27. \A q \in 1 .. n : SameChain(jx, ix, q)
  BY <1>3, <1>10, <1>11, <1>12, <1>13 DEF Added, EntriesSet, Only, Told, SameBody, SameChain
<1>28. (\A q \in 1 .. n : jx.pins[q] = ix.pins[q]) /\ jx.pins[m] = 0 /\ jx.info = ix.info
  BY SMTT(40), <1>3, <1>10, <1>11, <1>12, <1>13 DEF Added, EntriesSet, Only, Told
<1> QED
  BY <1>12, <1>13, <1>26, <1>27, <1>28 DEF NodeCutIs

-----------------------------------------------------------------------------
\* Which keys belong below a page: R says it for every page of the tree.  Below left, seen from
\* its parent, are those of left and of X, if X is the right half of left that no parent has yet.
See(R, left, X, p) == IF X # NoPage /\ p = left THEN R[left] \union R[X] ELSE R[p]
Between(ix, R, p, i, x) ==
    x \in R[p] /\ (i # 0 => Key(ix, p, i) <= x) /\ (i # Num(ix, p) => x < Key(ix, p, i + 1))
Convex(A) == \A x, y \in A : \A z \in Int : x < z /\ z < y => z \in A
Sorted(ix, p) == \A i, j \in 1 .. Num(ix, p) : i < j => Key(ix, p, i) < Key(ix, p, j)
Keyed(ix, rk, T, root, left, X, key, R) ==
    /\ \A p \in T : R[p] \subseteq Int /\ R[p] # {} /\ Convex(See(R, left, X, p))
    /\ See(R, left, X, root) = Int
    /\ \A p \in T : rk[p] # 0 =>
          \A i \in 0 .. Num(ix, p) : \A x \in Int :
             x \in See(R, left, X, Kid(ix, p, i)) <=> Between(ix, R, p, i, x)
    /\ \A p \in T : \A i \in 1 .. Num(ix, p) : Key(ix, p, i) \in R[p]
    /\ \A p \in T : Sorted(ix, p)
    /\ X # NoPage => /\ \A x \in R[left] : x < key
                     /\ \A x \in R[X] : key <= x
                     /\ key \in R[X]
KeyedAs(ix, rk, T, root, R) == Keyed(ix, rk, T, root, NoPage, NoPage, 0, R)

\* Page p has the same keys, in the same order.
SameKeys(jx, ix, p) ==
    Num(jx, p) = Num(ix, p) /\ \A i \in 1 .. Num(ix, p) : Key(jx, p, i) = Key(ix, p, i)

\* Without a half that waits, what a page is seen to have is what it has.
LEMMA KeyedPlain ==
  ASSUME NEW ix, NEW rk, NEW T, NEW root, NEW R, KeyedAs(ix, rk, T, root, R), root \in T,
         NEW X, Family(ix, rk, T, root, X)
  PROVE  /\ \A p \in T : R[p] \subseteq Int /\ R[p] # {} /\ Convex(R[p])
         /\ R[root] = Int
         /\ \A p \in T : rk[p] # 0 =>
               \A i \in 0 .. Num(ix, p) : \A x \in Int :
                  x \in R[Kid(ix, p, i)] <=> Between(ix, R, p, i, x)
         /\ \A p \in T : \A i \in 1 .. Num(ix, p) : Key(ix, p, i) \in R[p]
         /\ \A p \in T : Sorted(ix, p)
BY DEF KeyedAs, Keyed, See
LEMMA PlainKeyed ==
  ASSUME NEW ix, NEW rk, NEW T, NEW root, NEW R,
         \A p \in T : R[p] \subseteq Int /\ R[p] # {} /\ Convex(R[p]),
         R[root] = Int,
         \A p \in T : rk[p] # 0 =>
               \A i \in 0 .. Num(ix, p) : \A x \in Int :
                  x \in R[Kid(ix, p, i)] <=> Between(ix, R, p, i, x),
         \A p \in T : \A i \in 1 .. Num(ix, p) : Key(ix, p, i) \in R[p],
         \A p \in T : Sorted(ix, p)
  PROVE  KeyedAs(ix, rk, T, root, R)
BY DEF KeyedAs, Keyed, See

\* A leaf gets other keys of its own.
LEMMA KeyedLeaf ==
  ASSUME NEW ix, NEW jx, NEW rk, NEW T, NEW root, NEW R, KeyedAs(ix, rk, T, root, R),
         Family(ix, rk, T, root, NoPage),
         \A p \in T : rk[p] # 0 => SameKids(jx, ix, p) /\ SameKeys(jx, ix, p),
         \A p \in T : rk[p] = 0 => /\ Sorted(jx, p)
                                   /\ \A i \in 1 .. Num(jx, p) : Key(jx, p, i) \in R[p]
  PROVE  KeyedAs(jx, rk, T, root, R)
<1>0. root \in T /\ \A p \in T : Num(ix, p) \in Nat
  BY DEF Family
<1>1. /\ \A p \in T : R[p] \subseteq Int /\ R[p] # {} /\ Convex(R[p])
      /\ R[root] = Int
      /\ \A p \in T : rk[p] # 0 =>
               \A i \in 0 .. Num(ix, p) : \A x \in Int :
                  x \in R[Kid(ix, p, i)] <=> Between(ix, R, p, i, x)
      /\ \A p \in T : \A i \in 1 .. Num(ix, p) : Key(ix, p, i) \in R[p]
      /\ \A p \in T : Sorted(ix, p)
  BY <1>0, KeyedPlain
<1>2. ASSUME NEW p \in T, rk[p] # 0, NEW i \in 0 .. Num(jx, p), NEW x \in Int
      PROVE  x \in R[Kid(jx, p, i)] <=> Between(jx, R, p, i, x)
  <2>1. Num(jx, p) = Num(ix, p) /\ Kid(jx, p, i) = Kid(ix, p, i) /\ Num(ix, p) \in Nat
    BY <1>0, <1>2 DEF SameKids
  <2>2. i # 0 => Key(jx, p, i) = Key(ix, p, i)
    BY <1>2, <2>1 DEF SameKeys
  <2>3. i # Num(ix, p) => Key(jx, p, i + 1) = Key(ix, p, i + 1)
    BY <1>2, <2>1 DEF SameKeys
  <2> QED
    BY <1>1, <1>2, <2>1, <2>2, <2>3 DEF Between
<1>3. ASSUME NEW p \in T PROVE Sorted(jx, p) /\ \A i \in 1 .. Num(jx, p) : Key(jx, p, i) \in R[p]
  BY <1>1 DEF SameKeys, Sorted
<1> QED
  BY <1>1, <1>2, <1>3, PlainKeyed

\* The keys of a page that are smaller than `key' stay there, the others go to m.
Divided(R, T, page, m, key) ==
    [p \in T \union {m} |-> IF p = page THEN {x \in R[page] : x < key}
                            ELSE IF p = m THEN {x \in R[page] : key <= x}
                            ELSE R[p]]

\* A leaf is split before `key'.
LEMMA KeyedLeafHalves ==
  ASSUME NEW ix, NEW jx, NEW rk, NEW rk1, NEW T, NEW root, NEW R, KeyedAs(ix, rk, T, root, R),
         Family(ix, rk, T, root, NoPage), NEW page \in T, rk[page] = 0, NEW m, m \notin T, m # NoPage,
         \A p \in T : rk1[p] = rk[p], rk1[m] = 0, NEW key \in R[page],
         \A p \in T : p # page => SameKeys(jx, ix, p) /\ SameKids(jx, ix, p),
         Sorted(jx, page), Sorted(jx, m), Num(jx, page) \in Nat \ {0}, Num(jx, m) \in Nat,
         \A i \in 1 .. Num(jx, page) : Key(jx, page, i) \in R[page] /\ Key(jx, page, i) < key,
         \A i \in 1 .. Num(jx, m) : Key(jx, m, i) \in R[page] /\ key <= Key(jx, m, i),
         NEW R1, R1 = Divided(R, T, page, m, key)
  PROVE  Keyed(jx, rk1, T \union {m}, root, page, m, key, R1)
<1> USE DEF Divided
<1> DEFINE U == T \union {m}
<1>0. root \in T /\ (\A p \in T : Num(ix, p) \in Nat) /\ page # m
  BY DEF Family
<1>1. /\ \A p \in T : R[p] \subseteq Int /\ R[p] # {} /\ Convex(R[p])
      /\ R[root] = Int
      /\ \A p \in T : rk[p] # 0 =>
               \A i \in 0 .. Num(ix, p) : \A x \in Int :
                  x \in R[Kid(ix, p, i)] <=> Between(ix, R, p, i, x)
      /\ \A p \in T : \A i \in 1 .. Num(ix, p) : Key(ix, p, i) \in R[p]
      /\ \A p \in T : Sorted(ix, p)
  BY <1>0, KeyedPlain
<1>2. key \in Int /\ R[page] \subseteq Int
  BY <1>1
<1>3. /\ R1[page] = {x \in R[page] : x < key} /\ R1[m] = {x \in R[page] : key <= x}
      /\ \A p \in T : p # page => R1[p] = R[p]
  BY <1>0
<1> HIDE DEF U
<1>a. \A p : p \in U <=> p \in T \/ p = m
  BY DEF U
<1>4. \A p \in T : See(R1, page, m, p) = R[p]
  <2>1. R1[page] \union R1[m] = R[page]
    BY <1>2, <1>3
  <2> QED
    BY <1>3, <2>1 DEF See
<1>5. See(R1, page, m, m) = R1[m]
  BY <1>0 DEF See
<1>6. R1[page] # {} /\ R1[m] # {} /\ Convex(R1[m]) /\ key \in R1[m]
  <2>1. Key(jx, page, 1) \in R1[page]
    BY <1>3
  <2>2. key \in R1[m]
    BY <1>2, <1>3
  <2>3. Convex(R1[m])
    BY <1>1, <1>2, <1>3 DEF Convex
  <2> QED
    BY <2>1, <2>2, <2>3
<1>7. \A p \in U : R1[p] \subseteq Int /\ R1[p] # {} /\ Convex(See(R1, page, m, p))
  BY <1>a, <1>1, <1>3, <1>4, <1>5, <1>6
<1>8. ASSUME NEW p \in U, rk1[p] # 0, NEW i \in 0 .. Num(jx, p), NEW x \in Int
      PROVE  x \in See(R1, page, m, Kid(jx, p, i)) <=> Between(jx, R1, p, i, x)
  <2>1. p \in T /\ p # page /\ rk[p] # 0
    BY <1>a, <1>8
  <2>2. Num(jx, p) = Num(ix, p) /\ Kid(jx, p, i) = Kid(ix, p, i) /\ Num(ix, p) \in Nat
    BY <1>0, <1>8, <2>1 DEF SameKids
  <2>3. i # 0 => Key(jx, p, i) = Key(ix, p, i)
    BY <1>8, <2>1, <2>2 DEF SameKeys
  <2>4. i # Num(ix, p) => Key(jx, p, i + 1) = Key(ix, p, i + 1)
    BY <1>8, <2>1, <2>2 DEF SameKeys
  <2>5. Kid(ix, p, i) \in T
    BY <1>8, <2>1, <2>2 DEF Family, IsChild
  <2>6. R1[p] = R[p]
    BY <1>3, <2>1
  <2>7. x \in R[Kid(ix, p, i)] <=> Between(ix, R, p, i, x)
    BY <1>1, <1>8, <2>1, <2>2
  <2>8. Between(jx, R1, p, i, x) <=> Between(ix, R, p, i, x)
    BY <1>8, <2>2, <2>3, <2>4, <2>6 DEF Between
  <2>9. See(R1, page, m, Kid(jx, p, i)) = R[Kid(ix, p, i)]
    BY <1>4, <2>2, <2>5
  <2> QED
    BY <2>7, <2>8, <2>9
<1>9. ASSUME NEW p \in U PROVE Sorted(jx, p) /\ \A i \in 1 .. Num(jx, p) : Key(jx, p, i) \in R1[p]
  <2>1. CASE p \in T /\ p # page
    BY <1>1, <1>3, <2>1 DEF SameKeys, Sorted
  <2>2. CASE p = page
    BY <1>3, <2>2
  <2>3. CASE p = m
    BY <1>3, <2>3
  <2> QED
    BY <1>a, <2>1, <2>2, <2>3
<1>10. See(R1, page, m, root) = Int
  BY <1>0, <1>1, <1>4
<1>11. (\A x \in R1[page] : x < key) /\ (\A x \in R1[m] : key <= x)
  BY <1>3
<1>12. Keyed(jx, rk1, U, root, page, m, key, R1)
  BY <1>6, <1>7, <1>8, <1>9, <1>10, <1>11 DEF Keyed
<1> QED
  BY <1>12 DEF U

-----------------------------------------------------------------------------
\* What waits after left comes next to it in its parent P.
LEMMA KeyedJoin ==
  ASSUME NEW ix, NEW jx, NEW rk, NEW T, NEW root, NEW R, NEW left, NEW X, NEW key,
         Keyed(ix, rk, T, root, left, X, key, R), Family(ix, rk, T, root, X),
         X \in T, X # left, X # root, left \in T, left # root,
         NEW P \in T, rk[P] # 0, NEW at \in 0 .. Num(ix, P), Kid(ix, P, at) = left,
         Inserts(jx, ix, P, at, key, X),
         \A p \in T : p # P => SameKeys(jx, ix, p) /\ SameKids(jx, ix, p)
  PROVE  KeyedAs(jx, rk, T, root, R)
<1>0. root \in T /\ (\A p \in T : Num(ix, p) \in Nat) /\ NoPage \notin T
  BY DEF Family
<1>1. /\ \A p \in T : R[p] \subseteq Int /\ R[p] # {} /\ Convex(See(R, left, X, p))
      /\ See(R, left, X, root) = Int
      /\ \A p \in T : rk[p] # 0 =>
             \A i \in 0 .. Num(ix, p) : \A x \in Int :
                x \in See(R, left, X, Kid(ix, p, i)) <=> Between(ix, R, p, i, x)
      /\ \A p \in T : \A i \in 1 .. Num(ix, p) : Key(ix, p, i) \in R[p]
      /\ \A p \in T : Sorted(ix, p)
      /\ (\A x \in R[left] : x < key) /\ (\A x \in R[X] : key <= x) /\ key \in R[X]
  BY <1>0 DEF Keyed
<1>2. /\ \A p \in T : p # left => See(R, left, X, p) = R[p]
      /\ See(R, left, X, left) = R[left] \union R[X]
  BY <1>0 DEF See
<1>3. /\ \A p \in T : rk[p] # 0 =>
             \A i \in 0 .. Num(ix, p) : /\ Kid(ix, p, i) \in T /\ Kid(ix, p, i) # X
                                        /\ Kid(ix, p, i) = left => p = P
      /\ \A i \in 0 .. Num(ix, P) : Kid(ix, P, i) = left => i = at
  <2>1. \A p \in T : rk[p] # 0 =>
             \A i \in 0 .. Num(ix, p) : Kid(ix, p, i) \in T /\ Kid(ix, p, i) # X /\ Par(ix, Kid(ix, p, i)) = p
    BY DEF Family, IsChild
  <2>2. \A i, j \in 0 .. Num(ix, P) : Kid(ix, P, i) = Kid(ix, P, j) => i = j
    BY DEF Family
  <2> QED
    BY <2>1, <2>2
<1>4. \A p \in T : R[p] \subseteq Int /\ R[p] # {} /\ Convex(R[p])
  <2>1. R[left] \subseteq Int /\ R[X] \subseteq Int /\ key \in Int
    BY <1>1
  <2>2. Convex(R[left] \union R[X])
    BY <1>1, <1>2
  <2>3. Convex(R[left]) /\ Convex(R[X])
    BY <1>1, <2>1, <2>2 DEF Convex
  <2> QED
    BY <1>1, <1>2, <2>3
<1>5. ASSUME NEW p \in T, p # P, rk[p] # 0, NEW i \in 0 .. Num(jx, p), NEW x \in Int
      PROVE  x \in R[Kid(jx, p, i)] <=> Between(jx, R, p, i, x)
  <2>2. Num(jx, p) = Num(ix, p) /\ Kid(jx, p, i) = Kid(ix, p, i) /\ Num(ix, p) \in Nat
    BY <1>0, <1>5 DEF SameKids
  <2>3. i # 0 => Key(jx, p, i) = Key(ix, p, i)
    BY <1>5, <2>2 DEF SameKeys
  <2>4. i # Num(ix, p) => Key(jx, p, i + 1) = Key(ix, p, i + 1)
    BY <1>5, <2>2 DEF SameKeys
  <2>5. Kid(ix, p, i) \in T /\ Kid(ix, p, i) # left
    BY <1>3, <1>5, <2>2
  <2>7. x \in See(R, left, X, Kid(ix, p, i)) <=> Between(ix, R, p, i, x)
    BY <1>1, <1>5, <2>2
  <2>8. Between(jx, R, p, i, x) <=> Between(ix, R, p, i, x)
    BY <1>5, <2>2, <2>3, <2>4 DEF Between
  <2> QED
    BY <1>2, <2>2, <2>5, <2>7, <2>8
<1>6. /\ Num(jx, P) = Num(ix, P) + 1 /\ Num(ix, P) \in Nat /\ at \in Nat
      /\ \A i \in 0 .. Num(ix, P) + 1 :
            Kid(jx, P, i) = IF i <= at THEN Kid(ix, P, i)
                            ELSE IF i = at + 1 THEN X ELSE Kid(ix, P, i - 1)
      /\ \A i \in 1 .. Num(ix, P) + 1 :
            Key(jx, P, i) = IF i <= at THEN Key(ix, P, i)
                            ELSE IF i = at + 1 THEN key ELSE Key(ix, P, i - 1)
  BY <1>0 DEF Inserts, GetsKid
<1>7. \A x \in Int : x \in R[left] \union R[X] <=> Between(ix, R, P, at, x)
  BY <1>1, <1>2
<1>8. key \in R[P] /\ (at # 0 => Key(ix, P, at) < key) /\ (at # Num(ix, P) => key < Key(ix, P, at + 1))
  <2>1. Between(ix, R, P, at, key)
    BY <1>1, <1>7
  <2>2. PICK y \in R[left] : TRUE
    BY <1>1
  <2>3. Between(ix, R, P, at, y) /\ y < key /\ y \in Int /\ key \in Int
    BY <1>1, <1>7
  <2>4. at # 0 => Key(ix, P, at) \in Int
    BY <1>1, <1>6
  <2> QED
    BY <2>1, <2>3, <2>4 DEF Between
<1>9. \A i \in 1 .. Num(ix, P) : Key(ix, P, i) \in Int
  BY <1>1
<1>10. ASSUME NEW i \in 0 .. Num(jx, P), NEW x \in Int
       PROVE  x \in R[Kid(jx, P, i)] <=> Between(jx, R, P, i, x)
  <2>0. i \in 0 .. Num(ix, P) + 1
    BY <1>6
  <2>1. CASE i < at
    <3>1. i \in 0 .. Num(ix, P) /\ Kid(jx, P, i) = Kid(ix, P, i) /\ i + 1 \in 1 .. Num(ix, P)
      BY <1>6, <2>0, <2>1
    <3>2. x \in R[Kid(ix, P, i)] <=> Between(ix, R, P, i, x)
      BY <1>1, <1>2, <1>3, <2>1, <3>1
    <3>3. i # 0 => Key(jx, P, i) = Key(ix, P, i)
      BY <1>6, <2>1, <3>1
    <3>4. Key(jx, P, i + 1) = Key(ix, P, i + 1)
      BY <1>6, <2>1, <3>1
    <3> QED
      BY <1>6, <2>1, <3>1, <3>2, <3>3, <3>4 DEF Between
  <2>2. CASE i = at
    <3>1. Kid(jx, P, i) = left
      BY <1>6, <2>0, <2>2
    <3>2. i # 0 => Key(jx, P, i) = Key(ix, P, i)
      BY <1>6, <2>2
    <3>3. Key(jx, P, i + 1) = key /\ i # Num(jx, P)
      BY <1>6, <2>2
    <3>4. x \in R[left] <=> Between(ix, R, P, at, x) /\ x < key
      BY <1>1, <1>7
    <3>5. x < key => (at # Num(ix, P) => x < Key(ix, P, at + 1))
      BY <1>1, <1>6, <1>8, <1>9
    <3> QED
      BY <2>2, <3>1, <3>2, <3>3, <3>4, <3>5 DEF Between
  <2>3. CASE i = at + 1
    <3>1. Kid(jx, P, i) = X
      BY <1>6, <2>0, <2>3
    <3>2. i # 0 /\ Key(jx, P, i) = key
      BY <1>6, <2>3
    <3>3. i # Num(jx, P) => at # Num(ix, P) /\ Key(jx, P, i + 1) = Key(ix, P, at + 1)
      BY <1>6, <2>0, <2>3
    <3>4. at # Num(ix, P) => i # Num(jx, P)
      BY <1>6, <2>3
    <3>5. x \in R[X] <=> Between(ix, R, P, at, x) /\ key <= x
      BY <1>1, <1>7
    <3>6. key <= x => (at # 0 => Key(ix, P, at) <= x)
      BY <1>1, <1>6, <1>8, <1>9
    <3> QED
      BY <2>3, <3>1, <3>2, <3>3, <3>4, <3>5, <3>6 DEF Between
  <2>4. CASE i > at + 1
    <3>1. /\ i - 1 \in 0 .. Num(ix, P) /\ i - 1 # at /\ i - 1 # 0 /\ Kid(jx, P, i) = Kid(ix, P, i - 1)
          /\ i - 1 + 1 = i
      BY <1>6, <2>0, <2>4
    <3>2. x \in R[Kid(ix, P, i - 1)] <=> Between(ix, R, P, i - 1, x)
      BY <1>1, <1>2, <1>3, <2>4, <3>1
    <3>3. Key(jx, P, i) = Key(ix, P, i - 1)
      BY <1>6, <2>0, <2>4
    <3>4. i # Num(jx, P) => i - 1 # Num(ix, P) /\ Key(jx, P, i + 1) = Key(ix, P, i)
      BY <1>6, <2>0, <2>4
    <3>5. i - 1 # Num(ix, P) => i # Num(jx, P)
      BY <1>6, <3>1
    <3> QED
      BY <2>4, <3>1, <3>2, <3>3, <3>4, <3>5 DEF Between
  <2> QED
    BY <1>6, <2>0, <2>1, <2>2, <2>3, <2>4
<1>11. \A i \in 1 .. Num(jx, P) : Key(jx, P, i) \in R[P]
  BY <1>1, <1>6, <1>8
<1>12. Sorted(jx, P)
  <2>1. \A i, j \in 1 .. Num(ix, P) : i < j => Key(ix, P, i) < Key(ix, P, j)
    BY <1>1 DEF Sorted
  <2>2. \A i \in 1 .. Num(ix, P) : i <= at => Key(ix, P, i) < key
    BY <1>1, <1>6, <1>8, <1>9, <2>1
  <2>3. \A i \in 1 .. Num(ix, P) : i > at => key < Key(ix, P, i)
    BY <1>1, <1>6, <1>8, <1>9, <2>1
  <2>4. ASSUME NEW i \in 1 .. Num(ix, P) + 1, NEW j \in 1 .. Num(ix, P) + 1, i < j
        PROVE  Key(jx, P, i) < Key(jx, P, j)
    <3>1. CASE j <= at
      <4>1. i \in 1 .. Num(ix, P) /\ j \in 1 .. Num(ix, P) /\ i <= at
        BY <1>6, <2>4, <3>1
      <4> QED
        BY <1>6, <2>1, <2>4, <3>1, <4>1
    <3>2. CASE j = at + 1
      <4>1. i \in 1 .. Num(ix, P) /\ i <= at
        BY <1>6, <2>4, <3>2
      <4> QED
        BY <1>6, <2>2, <3>2, <4>1
    <3>3. CASE j > at + 1
      <4>1. j - 1 \in 1 .. Num(ix, P) /\ j - 1 > at
        BY <1>6, <2>4, <3>3
      <4>2. Key(jx, P, j) = Key(ix, P, j - 1)
        BY <1>6, <2>4, <3>3
      <4>3. CASE i <= at
        <5>1. i \in 1 .. Num(ix, P) /\ i < j - 1 /\ Key(jx, P, i) = Key(ix, P, i)
          BY <1>6, <3>3, <4>1, <4>3
        <5> QED
          BY <2>1, <4>1, <4>2, <5>1
      <4>4. CASE i = at + 1
        BY <1>6, <2>3, <4>1, <4>2, <4>4
      <4>5. CASE i > at + 1
        <5>1. i - 1 \in 1 .. Num(ix, P) /\ i - 1 < j - 1 /\ Key(jx, P, i) = Key(ix, P, i - 1)
          BY <1>6, <2>4, <4>5
        <5> QED
          BY <2>1, <4>1, <4>2, <5>1
      <4> QED
        BY <1>6, <4>3, <4>4, <4>5
    <3> QED
      BY <1>6, <3>1, <3>2, <3>3
  <2> QED
    BY <1>6, <2>4 DEF Sorted
<1>13. R[root] = Int
  BY <1>0, <1>1, <1>2
<1>14. ASSUME NEW p \in T PROVE Sorted(jx, p) /\ \A i \in 1 .. Num(jx, p) : Key(jx, p, i) \in R[p]
  <2>1. CASE p # P
    BY <1>1, <2>1 DEF SameKeys, Sorted
  <2> QED
    BY <1>11, <1>12, <2>1
<1>15. \A p \in T : rk[p] # 0 =>
          \A i \in 0 .. Num(jx, p) : \A x \in Int : x \in R[Kid(jx, p, i)] <=> Between(jx, R, p, i, x)
  BY <1>5, <1>10
<1> QED
  BY <1>4, <1>13, <1>14, <1>15, PlainKeyed

\* The new root m has all keys.
WithAll(R, T, m) == [p \in T \union {m} |-> IF p = m THEN Int ELSE R[p]]
LEMMA KeyedRoot ==
  ASSUME NEW ix, NEW jx, NEW rk, NEW rk1, NEW T, NEW root, NEW R, NEW X, NEW key,
         Keyed(ix, rk, T, root, root, X, key, R), Family(ix, rk, T, root, X),
         X \in T, X # root, NEW m, m \notin T, m # NoPage,
         \A p \in T : rk1[p] = rk[p],
         Num(jx, m) = 1, Kid(jx, m, 0) = root, Kid(jx, m, 1) = X, Key(jx, m, 1) = key,
         \A p \in T : SameKeys(jx, ix, p) /\ SameKids(jx, ix, p),
         NEW R1, R1 = WithAll(R, T, m)
  PROVE  KeyedAs(jx, rk1, T \union {m}, m, R1)
<1> USE DEF WithAll
<1> DEFINE U == T \union {m}
<1>0. root \in T /\ (\A p \in T : Num(ix, p) \in Nat) /\ NoPage \notin T
  BY DEF Family
<1>1. /\ \A p \in T : R[p] \subseteq Int /\ R[p] # {} /\ Convex(See(R, root, X, p))
      /\ See(R, root, X, root) = Int
      /\ \A p \in T : rk[p] # 0 =>
             \A i \in 0 .. Num(ix, p) : \A x \in Int :
                x \in See(R, root, X, Kid(ix, p, i)) <=> Between(ix, R, p, i, x)
      /\ \A p \in T : \A i \in 1 .. Num(ix, p) : Key(ix, p, i) \in R[p]
      /\ \A p \in T : Sorted(ix, p)
      /\ (\A x \in R[root] : x < key) /\ (\A x \in R[X] : key <= x) /\ key \in R[X]
  BY <1>0 DEF Keyed
<1>2. /\ \A p \in T : p # root => See(R, root, X, p) = R[p]
      /\ See(R, root, X, root) = R[root] \union R[X]
  BY <1>0 DEF See
<1>3. R1[m] = Int /\ \A p \in T : R1[p] = R[p]
  OBVIOUS
<1> HIDE DEF U
<1>a. (\A p : p \in U <=> p \in T \/ p = m) /\ key \in Int
  BY <1>1 DEF U
<1>4. \A p \in U : R1[p] \subseteq Int /\ R1[p] # {} /\ Convex(R1[p])
  <2>1. R[root] \subseteq Int /\ R[X] \subseteq Int
    BY <1>0, <1>1
  <2>2. R[root] \union R[X] = Int
    BY <1>1, <1>2
  <2>3. Convex(R[root]) /\ Convex(Int)
    BY <1>a, <1>1, <2>1, <2>2 DEF Convex
  <2> QED
    BY <1>a, <1>1, <1>2, <1>3, <2>3
<1>5. ASSUME NEW p \in T, rk[p] # 0, NEW i \in 0 .. Num(jx, p), NEW x \in Int
      PROVE  x \in R1[Kid(jx, p, i)] <=> Between(jx, R1, p, i, x)
  <2>2. Num(jx, p) = Num(ix, p) /\ Kid(jx, p, i) = Kid(ix, p, i) /\ Num(ix, p) \in Nat
    BY <1>0, <1>5 DEF SameKids
  <2>3. i # 0 => Key(jx, p, i) = Key(ix, p, i)
    BY <1>5, <2>2 DEF SameKeys
  <2>4. i # Num(ix, p) => Key(jx, p, i + 1) = Key(ix, p, i + 1)
    BY <1>5, <2>2 DEF SameKeys
  <2>5. Kid(ix, p, i) \in T /\ Kid(ix, p, i) # root
    BY <1>5, <2>2 DEF Family, IsChild
  <2>7. x \in See(R, root, X, Kid(ix, p, i)) <=> Between(ix, R, p, i, x)
    BY <1>1, <1>5, <2>2
  <2>8. Between(jx, R1, p, i, x) <=> Between(ix, R, p, i, x)
    BY <1>3, <1>5, <2>2, <2>3, <2>4 DEF Between
  <2> QED
    BY <1>2, <1>3, <2>2, <2>5, <2>7, <2>8
<1>6. ASSUME NEW i \in 0 .. Num(jx, m), NEW x \in Int
      PROVE  x \in R1[Kid(jx, m, i)] <=> Between(jx, R1, m, i, x)
  <2>1. i = 0 \/ i = 1
    OBVIOUS
  <2>2. x \in R[root] <=> x < key
    BY <1>a, <1>0, <1>1, <1>2
  <2>3. x \in R[X] <=> key <= x
    BY <1>a, <1>0, <1>1, <1>2
  <2>4. CASE i = 0
    BY <1>0, <1>3, <2>2, <2>4 DEF Between
  <2>5. CASE i = 1
    BY <1>0, <1>3, <2>3, <2>5 DEF Between
  <2> QED
    BY <2>1, <2>4, <2>5
<1>7. Sorted(jx, m) /\ \A i \in 1 .. Num(jx, m) : Key(jx, m, i) \in R1[m]
  <2>1. \A i \in 1 .. 1 : i = 1
    OBVIOUS
  <2>2. \A i, j \in 1 .. 1 : ~(i < j)
    OBVIOUS
  <2> QED
    BY <1>a, <1>3, <2>1, <2>2 DEF Sorted
<1>8. ASSUME NEW p \in U PROVE Sorted(jx, p) /\ \A i \in 1 .. Num(jx, p) : Key(jx, p, i) \in R1[p]
  <2>1. CASE p \in T
    BY <1>1, <1>3, <2>1 DEF SameKeys, Sorted
  <2> QED
    BY <1>a, <1>7, <2>1
<1>9. \A p \in U : rk1[p] # 0 =>
          \A i \in 0 .. Num(jx, p) : \A x \in Int : x \in R1[Kid(jx, p, i)] <=> Between(jx, R1, p, i, x)
  BY <1>a, <1>5, <1>6
<1>10. KeyedAs(jx, rk1, U, m, R1)
  BY <1>3, <1>4, <1>8, <1>9, PlainKeyed
<1> QED
  BY <1>10 DEF U

-----------------------------------------------------------------------------
\* An internal node is split at the key after child mid.
LEMMA KeyedNodeHalves ==
  ASSUME NEW ix, NEW jx, NEW rk, NEW rk1, NEW T, NEW root, NEW R, KeyedAs(ix, rk, T, root, R),
         Family(ix, rk, T, root, NoPage), NEW P \in T, rk[P] # 0, NEW m, m \notin T, m # NoPage,
         \A p \in T : rk1[p] = rk[p], rk1[m] = rk[P],
         NEW mid \in Nat \ {0}, mid < Num(ix, P), NEW key, key = Key(ix, P, mid + 1),
         Halved(jx, ix, P, m, mid),
         \A i \in 1 .. mid : Key(jx, P, i) = Key(ix, P, i),
         \A i \in 1 .. Num(ix, P) - mid - 1 : Key(jx, m, i) = Key(ix, P, mid + 1 + i),
         \A p \in T : p # P => SameKeys(jx, ix, p) /\ SameKids(jx, ix, p),
         NEW R1, R1 = Divided(R, T, P, m, key)
  PROVE  Keyed(jx, rk1, T \union {m}, root, P, m, key, R1)
<1> USE DEF Divided
<1> DEFINE U == T \union {m}
<1>0. root \in T /\ (\A p \in T : Num(ix, p) \in Nat) /\ P # m
  BY DEF Family
<1>1. /\ \A p \in T : R[p] \subseteq Int /\ R[p] # {} /\ Convex(R[p])
      /\ R[root] = Int
      /\ \A p \in T : rk[p] # 0 =>
               \A i \in 0 .. Num(ix, p) : \A x \in Int :
                  x \in R[Kid(ix, p, i)] <=> Between(ix, R, p, i, x)
      /\ \A p \in T : \A i \in 1 .. Num(ix, p) : Key(ix, p, i) \in R[p]
      /\ \A p \in T : Sorted(ix, p)
  BY <1>0, KeyedPlain
<1>2. /\ Num(ix, P) \in Nat /\ mid + 1 \in 1 .. Num(ix, P) /\ key \in R[P] /\ key \in Int
      /\ R[P] \subseteq Int
  BY <1>0, <1>1
<1>3. /\ R1[P] = {x \in R[P] : x < key} /\ R1[m] = {x \in R[P] : key <= x}
      /\ \A p \in T : p # P => R1[p] = R[p]
  BY <1>0
<1> HIDE DEF U
<1>a. \A p : p \in U <=> p \in T \/ p = m
  BY DEF U
<1>4. \A p \in T : See(R1, P, m, p) = R[p]
  <2>1. R1[P] \union R1[m] = R[P]
    BY <1>2, <1>3
  <2> QED
    BY <1>3, <2>1 DEF See
<1>5. See(R1, P, m, m) = R1[m]
  BY <1>0 DEF See
<1>b. \A i, j \in 1 .. Num(ix, P) : i < j => Key(ix, P, i) < Key(ix, P, j)
  BY <1>1 DEF Sorted
<1>c. \A i \in 1 .. Num(ix, P) : Key(ix, P, i) \in R[P] /\ Key(ix, P, i) \in Int
  BY <1>1
<1>d. /\ Num(jx, P) = mid /\ Num(jx, m) = Num(ix, P) - mid - 1
      /\ \A i \in 0 .. mid : Kid(jx, P, i) = Kid(ix, P, i)
      /\ \A i \in 0 .. Num(ix, P) - mid - 1 : Kid(jx, m, i) = Kid(ix, P, mid + 1 + i)
  BY DEF Halved
<1>6. R1[P] # {} /\ R1[m] # {} /\ Convex(R1[m]) /\ key \in R1[m]
  <2>1. 1 \in 1 .. Num(ix, P) /\ 1 < mid + 1
    BY <1>2
  <2>2. Key(ix, P, 1) \in R[P] /\ Key(ix, P, 1) < key
    BY <1>b, <1>c, <1>2, <2>1
  <2>3. Key(ix, P, 1) \in R1[P]
    BY <1>3, <2>2
  <2>4. key \in R1[m]
    BY <1>2, <1>3
  <2>5. Convex(R1[m])
    BY <1>1, <1>2, <1>3 DEF Convex
  <2> QED
    BY <2>3, <2>4, <2>5
<1>7. \A p \in U : R1[p] \subseteq Int /\ R1[p] # {} /\ Convex(See(R1, P, m, p))
  BY <1>a, <1>1, <1>3, <1>4, <1>5, <1>6
<1>e. \A p \in T : rk[p] # 0 => \A i \in 0 .. Num(ix, p) : Kid(ix, p, i) \in T
  BY DEF Family, IsChild
<1>8. ASSUME NEW p \in T, p # P, rk[p] # 0, NEW i \in 0 .. Num(jx, p), NEW x \in Int
      PROVE  x \in See(R1, P, m, Kid(jx, p, i)) <=> Between(jx, R1, p, i, x)
  <2>2. Num(jx, p) = Num(ix, p) /\ Kid(jx, p, i) = Kid(ix, p, i) /\ Num(ix, p) \in Nat
    BY <1>0, <1>8 DEF SameKids
  <2>3. i # 0 => Key(jx, p, i) = Key(ix, p, i)
    BY <1>8, <2>2 DEF SameKeys
  <2>4. i # Num(ix, p) => Key(jx, p, i + 1) = Key(ix, p, i + 1)
    BY <1>8, <2>2 DEF SameKeys
  <2>5. Kid(ix, p, i) \in T
    BY <1>e, <1>8, <2>2
  <2>6. R1[p] = R[p]
    BY <1>3, <1>8
  <2>7. x \in R[Kid(ix, p, i)] <=> Between(ix, R, p, i, x)
    BY <1>1, <1>8, <2>2
  <2>8. Between(jx, R1, p, i, x) <=> Between(ix, R, p, i, x)
    BY <1>8, <2>2, <2>3, <2>4, <2>6 DEF Between
  <2>9. See(R1, P, m, Kid(jx, p, i)) = R[Kid(ix, p, i)]
    BY <1>4, <2>2, <2>5
  <2> QED
    BY <2>7, <2>8, <2>9
<1>9. ASSUME NEW i \in 0 .. mid, NEW x \in Int
      PROVE  x \in See(R1, P, m, Kid(jx, P, i)) <=> Between(jx, R1, P, i, x)
  <2>1. i \in 0 .. Num(ix, P) /\ i # Num(ix, P) /\ i + 1 \in 1 .. Num(ix, P) /\ i \in Nat
    BY <1>2
  <2>2. See(R1, P, m, Kid(jx, P, i)) = R[Kid(ix, P, i)]
    BY <1>4, <1>d, <1>e, <2>1
  <2>3. x \in R[Kid(ix, P, i)] <=> Between(ix, R, P, i, x)
    BY <1>1, <2>1
  <2>4. i # 0 => Key(jx, P, i) = Key(ix, P, i)
    BY <2>1
  <2>5. CASE i = mid
    <3>1. x \in R1[P] <=> x \in R[P] /\ x < Key(ix, P, i + 1)
      BY <1>3, <2>5
    <3> QED
      BY <1>d, <2>1, <2>2, <2>3, <2>4, <2>5, <3>1 DEF Between
  <2>6. CASE i # mid
    <3>1. i + 1 \in 1 .. mid /\ Key(jx, P, i + 1) = Key(ix, P, i + 1) /\ Key(ix, P, i + 1) <= key
      <4>1. i + 1 \in 1 .. mid /\ i + 1 < mid + 1
        BY <2>1, <2>6
      <4> QED
        BY <1>2, <1>b, <1>c, <2>1, <4>1
    <3>2. x < Key(ix, P, i + 1) => x < key
      BY <1>2, <1>c, <2>1, <3>1
    <3>3. x \in R1[P] <=> x \in R[P] /\ x < key
      BY <1>3
    <3> QED
      BY <1>d, <2>1, <2>2, <2>3, <2>4, <2>6, <3>1, <3>2, <3>3 DEF Between
  <2> QED
    BY <2>5, <2>6
<1>10. ASSUME NEW i \in 0 .. Num(ix, P) - mid - 1, NEW x \in Int
       PROVE  x \in See(R1, P, m, Kid(jx, m, i)) <=> Between(jx, R1, m, i, x)
  <2> DEFINE k == mid + 1 + i
  <2>1. k \in 1 .. Num(ix, P) /\ k \in 0 .. Num(ix, P) /\ k # 0 /\ i \in Nat
    BY <1>2
  <2>2. See(R1, P, m, Kid(jx, m, i)) = R[Kid(ix, P, k)]
    BY <1>4, <1>d, <1>e, <2>1
  <2>3. x \in R[Kid(ix, P, k)] <=> Between(ix, R, P, k, x)
    <3> HIDE DEF k
    <3> QED
      BY <1>1, <2>1
  <2>4. i # Num(jx, m) <=> k # Num(ix, P)
    BY <1>2, <1>d
  <2>5. i # Num(jx, m) => Key(jx, m, i + 1) = Key(ix, P, k + 1)
    <3>1. ASSUME i # Num(jx, m)
          PROVE  i + 1 \in 1 .. Num(ix, P) - mid - 1 /\ mid + 1 + (i + 1) = k + 1
      BY <1>2, <1>d, <3>1
    <3> QED
      BY <3>1
  <2>6. x \in R1[m] <=> x \in R[P] /\ key <= x
    BY <1>3
  <2>7. CASE i = 0
    BY <2>1, <2>2, <2>3, <2>4, <2>5, <2>6, <2>7 DEF Between
  <2>8. CASE i # 0
    <3>1. i \in 1 .. Num(ix, P) - mid - 1 /\ mid + 1 < k
      BY <1>2, <2>1, <2>8
    <3>2. Key(jx, m, i) = Key(ix, P, k)
      BY <3>1
    <3>3. Key(ix, P, k) <= x => key <= x
      BY <1>2, <1>b, <1>c, <2>1, <3>1
    <3> QED
      BY <2>1, <2>2, <2>3, <2>4, <2>5, <2>6, <2>8, <3>2, <3>3 DEF Between
  <2> QED
    BY <2>7, <2>8
<1>11. \A p \in U : rk1[p] # 0 =>
          \A i \in 0 .. Num(jx, p) : \A x \in Int :
             x \in See(R1, P, m, Kid(jx, p, i)) <=> Between(jx, R1, p, i, x)
  BY <1>a, <1>d, <1>8, <1>9, <1>10
<1>12. ASSUME NEW p \in U PROVE Sorted(jx, p) /\ \A i \in 1 .. Num(jx, p) : Key(jx, p, i) \in R1[p]
  <2>1. CASE p \in T /\ p # P
    BY <1>1, <1>3, <2>1 DEF SameKeys, Sorted
  <2>2. CASE p = P
    <3>1. \A i \in 1 .. mid : i \in 1 .. Num(ix, P) /\ i < mid + 1
      BY <1>2
    <3>2. \A i \in 1 .. mid : Key(jx, P, i) \in R1[P]
      BY <1>2, <1>3, <1>b, <1>c, <3>1
    <3>3. \A i, j \in 1 .. mid : i < j => Key(jx, P, i) < Key(jx, P, j)
      BY <1>b, <3>1
    <3> QED
      BY <1>d, <2>2, <3>2, <3>3 DEF Sorted
  <2>3. CASE p = m
    <3>1. \A i \in 1 .. Num(ix, P) - mid - 1 : mid + 1 + i \in 1 .. Num(ix, P) /\ mid + 1 < mid + 1 + i
      BY <1>2
    <3>2. ASSUME NEW i \in 1 .. Num(ix, P) - mid - 1 PROVE Key(jx, m, i) \in R1[m]
      <4>1. Key(ix, P, mid + 1) < Key(ix, P, mid + 1 + i) /\ Key(ix, P, mid + 1 + i) \in R[P]
            /\ Key(ix, P, mid + 1 + i) \in Int
        BY <1>2, <1>b, <1>c, <3>1
      <4> QED
        BY <1>2, <1>3, <4>1
    <3>3. ASSUME NEW i \in 1 .. Num(ix, P) - mid - 1, NEW j \in 1 .. Num(ix, P) - mid - 1, i < j
          PROVE  Key(jx, m, i) < Key(jx, m, j)
      <4>1. mid + 1 + i < mid + 1 + j
        BY <3>3
      <4> QED
        BY <1>b, <3>1, <4>1
    <3> QED
      BY <1>d, <2>3, <3>2, <3>3 DEF Sorted
  <2> QED
    BY <1>a, <2>1, <2>2, <2>3
<1>13. See(R1, P, m, root) = Int
  BY <1>0, <1>1, <1>4
<1>14. (\A x \in R1[P] : x < key) /\ (\A x \in R1[m] : key <= x)
  BY <1>3
<1>15. Keyed(jx, rk1, U, root, P, m, key, R1)
  BY <1>6, <1>7, <1>11, <1>12, <1>13, <1>14 DEF Keyed
<1> QED
  BY <1>15 DEF U

Regained(ix, rk, R, U, left, X) ==
    [p \in U |-> IF p = left \/ (rk[left] # 0 /\ p = Kid(ix, left, Num(ix, left)))
                 THEN R[p] \union R[X] ELSE R[p]]

\* X is lost: left, and its last child if it has children, stand for the keys of both.
LEMMA KeyedLose ==
  ASSUME NEW ix, NEW rk, NEW T, NEW root, NEW R, NEW left, NEW X, NEW key,
         Keyed(ix, rk, T, root, left, X, key, R), Family(ix, rk, T, root, X),
         X \in T, X # root, left \in T, X # left, rk[left] = rk[X], rk[X] <= 1,
         NEW U, U = T \ Lost(ix, rk, T, X),
         NEW R1, R1 = Regained(ix, rk, R, U, left, X)
  PROVE  KeyedAs(ix, rk, U, root, R1)
<1> USE DEF Regained
<1>0. /\ root \in T /\ (\A p \in T : Num(ix, p) \in Nat /\ rk[p] \in Nat) /\ NoPage \notin T
  BY DEF Family
<1>1. /\ \A p \in T : R[p] \subseteq Int /\ R[p] # {} /\ Convex(See(R, left, X, p))
      /\ See(R, left, X, root) = Int
      /\ \A p \in T : rk[p] # 0 =>
             \A i \in 0 .. Num(ix, p) : \A x \in Int :
                x \in See(R, left, X, Kid(ix, p, i)) <=> Between(ix, R, p, i, x)
      /\ \A p \in T : \A i \in 1 .. Num(ix, p) : Key(ix, p, i) \in R[p]
      /\ \A p \in T : Sorted(ix, p)
      /\ (\A x \in R[left] : x < key) /\ (\A x \in R[X] : key <= x) /\ key \in R[X]
  BY <1>0 DEF Keyed
<1>2. /\ \A p \in T : p # left => See(R, left, X, p) = R[p]
      /\ See(R, left, X, left) = R[left] \union R[X]
  BY <1>0 DEF See
<1>3. Family(ix, rk, U, root, NoPage)
  BY LoseFamily
<1>4. \A p \in T : rk[p] # 0 => \A i \in 0 .. Num(ix, p) :
         Kid(ix, p, i) \in T /\ rk[Kid(ix, p, i)] + 1 = rk[p] /\ Par(ix, Kid(ix, p, i)) = p
  BY DEF Family, IsChild
<1>5. \A p \in T : rk[p] # 0 => \A i, j \in 0 .. Num(ix, p) : Kid(ix, p, i) = Kid(ix, p, j) => i = j
  BY DEF Family
<1>6. U \subseteq T
  OBVIOUS
<1>7. left \in U
  <2>1. \A i \in 0 .. Num(ix, X) : rk[X] # 0 => Kid(ix, X, i) # left
    BY <1>0, <1>4
  <2> QED
    BY <2>1 DEF Lost
<1>b. \A p \in T : p = X => p \notin U
  BY DEF Lost
<1> DEFINE z == Kid(ix, left, Num(ix, left))
<1>8. rk[left] # 0 => z \in T /\ rk[z] = 0 /\ z # left /\ Par(ix, z) = left
  <2>1. rk[left] # 0 => Num(ix, left) \in 0 .. Num(ix, left)
    BY <1>0
  <2> QED
    BY <1>0, <1>4, <2>1
<1>9. /\ \A p \in U : p = left => R1[p] = R[left] \union R[X]
      /\ \A p \in U : rk[left] # 0 /\ p = z => R1[p] = R[p] \union R[X]
      /\ \A p \in U : p # left /\ ~(rk[left] # 0 /\ p = z) => R1[p] = R[p]
      /\ \A p \in U : R[p] \subseteq R1[p]
  BY <1>7
<1> HIDE DEF z
<1>10. key \in Int /\ R[X] \subseteq Int /\ R[left] \subseteq Int
  BY <1>1
<1>11. rk[left] # 0 => \A x \in Int : x \in R[z] <=> Between(ix, R, left, Num(ix, left), x)
  <2>1. rk[left] # 0 => Num(ix, left) \in 0 .. Num(ix, left) /\ See(R, left, X, z) = R[z]
    BY <1>0, <1>2, <1>8
  <2> QED
    BY <1>1, <2>1 DEF z
<1>12. rk[left] # 0 /\ Num(ix, left) # 0 => \A x \in R[X] : Key(ix, left, Num(ix, left)) <= x
  <2>1. ASSUME rk[left] # 0, Num(ix, left) # 0 PROVE Key(ix, left, Num(ix, left)) \in R[left]
    <3>1. Num(ix, left) \in 1 .. Num(ix, left)
      BY <1>0, <2>1
    <3> QED
      BY <1>1, <3>1
  <2> QED
    BY <1>1, <1>10, <2>1
<1>13. rk[left] # 0 => \A x \in Int : x \in R[z] \union R[X] <=>
                          x \in R[left] \union R[X] /\ (Num(ix, left) # 0 => Key(ix, left, Num(ix, left)) <= x)
  <2>1. rk[left] # 0 => \A x \in Int : x \in R[z] <=>
            x \in R[left] /\ (Num(ix, left) # 0 => Key(ix, left, Num(ix, left)) <= x)
    BY <1>11 DEF Between
  <2> QED
    BY <1>12, <2>1
<1>14. \A p \in U : R1[p] \subseteq Int /\ R1[p] # {} /\ Convex(R1[p])
  <2>1. Convex(R[left] \union R[X])
    BY <1>1, <1>2, <1>6, <1>7
  <2>2. rk[left] # 0 => Convex(R[z] \union R[X])
    <3>1. ASSUME rk[left] # 0, Num(ix, left) # 0 PROVE Key(ix, left, Num(ix, left)) \in Int
      <4>1. Num(ix, left) \in 1 .. Num(ix, left)
        BY <1>0, <3>1
      <4> QED
        BY <1>1, <4>1
    <3>2. rk[left] # 0 => R[z] \subseteq Int
      BY <1>1, <1>8
    <3> QED
      BY <1>10, <1>13, <2>1, <3>1, <3>2 DEF Convex
  <2>3. \A p \in U : p # left => Convex(R[p]) /\ R[p] \subseteq Int /\ R[p] # {}
    BY <1>1, <1>2, <1>6
  <2>4. R[left] # {}
    BY <1>1
  <2>5. ASSUME NEW p \in U, p = left PROVE R1[p] \subseteq Int /\ R1[p] # {} /\ Convex(R1[p])
    <3>1. R1[p] = R[left] \union R[X]
      BY <1>9, <2>5
    <3> QED
      BY <1>10, <2>1, <2>4, <3>1
  <2>6. ASSUME NEW p \in U, rk[left] # 0, p = z PROVE R1[p] \subseteq Int /\ R1[p] # {} /\ Convex(R1[p])
    <3>1. R1[p] = R[z] \union R[X] /\ z # left
      BY <1>8, <1>9, <2>6
    <3> QED
      BY <1>10, <2>2, <2>3, <2>6, <3>1
  <2> QED
    BY ZenonT(60), <1>9, <2>3, <2>5, <2>6
<1>15. ASSUME NEW p \in U, rk[p] # 0, NEW i \in 0 .. Num(ix, p), NEW x \in Int
       PROVE  x \in R1[Kid(ix, p, i)] <=> Between(ix, R1, p, i, x)
  <2>0. Kid(ix, p, i) \in U /\ Kid(ix, p, i) \in T /\ p \in T /\ Par(ix, Kid(ix, p, i)) = p /\ Num(ix, p) \in Nat
    BY <1>0, <1>3, <1>6, <1>15 DEF Family, IsChild
  <2>1. CASE p = left /\ i = Num(ix, p)
    <3>1. Kid(ix, p, i) = z
      BY <2>1 DEF z
    <3>2. R1[z] = R[z] \union R[X] /\ R1[p] = R[left] \union R[X]
      BY <1>9, <1>15, <2>0, <2>1, <3>1
    <3> QED
      BY <1>13, <1>15, <2>1, <3>1, <3>2 DEF Between
  <2>2. CASE p = left /\ i # Num(ix, p)
    <3>1. Kid(ix, p, i) # z /\ Kid(ix, p, i) # left
      <4>1. i \in 0 .. Num(ix, left) /\ Num(ix, left) \in 0 .. Num(ix, left)
        BY <2>0, <2>2
      <4> QED
        BY <1>0, <1>4, <1>5, <1>15, <2>0, <2>2, <4>1 DEF z
    <3>2. R1[Kid(ix, p, i)] = R[Kid(ix, p, i)] /\ R1[p] = R[left] \union R[X]
      BY <1>9, <2>0, <2>2, <3>1
    <3>3. x \in R[Kid(ix, p, i)] <=> Between(ix, R, p, i, x)
      BY <1>1, <1>2, <1>15, <2>0, <3>1
    <3>4. x \in R[X] => ~(x < Key(ix, p, i + 1))
      <4>1. i + 1 \in 1 .. Num(ix, left)
        BY <2>0, <2>2
      <4>2. Key(ix, left, i + 1) \in R[left]
        BY <1>1, <4>1
      <4> QED
        BY <1>1, <1>10, <2>2, <4>2
    <3> QED
      BY <2>2, <3>2, <3>3, <3>4 DEF Between
  <2>3. CASE p # left /\ Kid(ix, p, i) # left
    <3>1. ~(rk[left] # 0 /\ Kid(ix, p, i) = z)
      BY <1>8, <2>0, <2>3
    <3>2. ~(rk[left] # 0 /\ p = z)
      BY <1>8, <1>15
    <3>3. R1[Kid(ix, p, i)] = R[Kid(ix, p, i)] /\ R1[p] = R[p]
      BY <1>9, <2>0, <2>3, <3>1, <3>2
    <3>4. x \in R[Kid(ix, p, i)] <=> Between(ix, R, p, i, x)
      BY <1>1, <1>2, <1>15, <2>0, <2>3
    <3> QED
      BY <3>3, <3>4 DEF Between
  <2>4. CASE p # left /\ Kid(ix, p, i) = left
    <3>1. ~(rk[left] # 0 /\ p = z)
      BY <1>8, <1>15
    <3>2. R1[Kid(ix, p, i)] = R[left] \union R[X] /\ R1[p] = R[p]
      BY <1>9, <2>0, <2>4, <3>1
    <3>3. x \in R[left] \union R[X] <=> Between(ix, R, p, i, x)
      BY <1>1, <1>2, <1>15, <2>0, <2>4
    <3> QED
      BY <3>2, <3>3 DEF Between
  <2> QED
    BY <2>1, <2>2, <2>3, <2>4
<1>16. ASSUME NEW p \in U PROVE Sorted(ix, p) /\ \A i \in 1 .. Num(ix, p) : Key(ix, p, i) \in R1[p]
  BY <1>1, <1>6, <1>9
<1>17. R1[root] = Int
  <2>1. root \in U
    BY <1>3 DEF Family
  <2>2. CASE root = left
    BY <1>1, <1>2, <1>9, <2>1, <2>2
  <2>3. CASE root # left
    <3>1. ~(rk[left] # 0 /\ root = z)
      <4>1. rk[left] # 0 => Num(ix, left) \in 0 .. Num(ix, left)
        BY <1>0
      <4>2. rk[left] # 0 => z # root
        BY <4>1 DEF Family, IsChild, z
      <4> QED
        BY <4>2
    <3> QED
      BY <1>1, <1>2, <1>9, <2>1, <2>3, <3>1
  <2> QED
    BY <2>2, <2>3
<1> QED
  BY <1>14, <1>15, <1>16, <1>17, PlainKeyed

-----------------------------------------------------------------------------
\* The chain of the leaves, seen from the keys that belong in each: the next leaf has those
\* that follow at once, and what a leaf calls its predecessor, if it still is a leaf of the tree,
\* has smaller ones.
Meets(A, B) == \A x \in A : \A y \in B : x < y /\ \A z \in Int : x < z /\ z < y => z \in A \union B
Chained(ix, rk, T, R) ==
    \A p \in T : rk[p] = 0 =>
        LET nd == ix.node[p]
        IN  /\ nd.next = NoPage => \A x \in R[p] : \A y \in Int : x < y => y \in R[p]
            /\ nd.next # NoPage => nd.next \in T /\ rk[nd.next] = 0 /\ Meets(R[p], R[nd.next])
            /\ nd.prev \in T /\ rk[nd.prev] = 0 => \A x \in R[nd.prev] : \A y \in R[p] : x < y

LEMMA ChainedSame ==
  ASSUME NEW ix, NEW jx, NEW rk, NEW rk1, NEW T, NEW T1, NEW R, NEW R1, Chained(ix, rk, T, R),
         \A p : (p \in T1 /\ rk1[p] = 0) <=> (p \in T /\ rk[p] = 0),
         \A p \in T : rk[p] = 0 => SameChain(jx, ix, p) /\ R1[p] = R[p]
  PROVE  Chained(jx, rk1, T1, R1)
<1> SUFFICES ASSUME NEW p \in T1, rk1[p] = 0
             PROVE  /\ jx.node[p].next = NoPage => \A x \in R1[p] : \A y \in Int : x < y => y \in R1[p]
                    /\ jx.node[p].next # NoPage => /\ jx.node[p].next \in T1 /\ rk1[jx.node[p].next] = 0
                                                   /\ Meets(R1[p], R1[jx.node[p].next])
                    /\ jx.node[p].prev \in T1 /\ rk1[jx.node[p].prev] = 0 =>
                          \A x \in R1[jx.node[p].prev] : \A y \in R1[p] : x < y
  BY DEF Chained
<1>1. /\ p \in T /\ rk[p] = 0 /\ R1[p] = R[p]
      /\ jx.node[p].next = ix.node[p].next /\ jx.node[p].prev = ix.node[p].prev
  BY DEF SameChain
<1>2. /\ ix.node[p].next = NoPage => \A x \in R[p] : \A y \in Int : x < y => y \in R[p]
      /\ ix.node[p].next # NoPage => /\ ix.node[p].next \in T /\ rk[ix.node[p].next] = 0
                                     /\ Meets(R[p], R[ix.node[p].next])
      /\ ix.node[p].prev \in T /\ rk[ix.node[p].prev] = 0 =>
            \A x \in R[ix.node[p].prev] : \A y \in R[p] : x < y
  BY <1>1 DEF Chained
<1> QED
  BY <1>1, <1>2

LEMMA ChainedHalves ==
  ASSUME NEW ix, NEW jx, NEW rk, NEW rk1, NEW T, NEW R, Chained(ix, rk, T, R), NoPage \notin T,
         NEW page \in T, rk[page] = 0, NEW m, m \notin T, m # NoPage,
         \A p \in T : rk1[p] = rk[p], rk1[m] = 0,
         \A p \in T : ix.node[p].next # m /\ ix.node[p].prev # m,
         \A p \in T : R[p] \subseteq Int /\ R[p] # {} /\ Convex(R[p]),
         NEW key \in R[page],
         NEW R1, R1 = Divided(R, T, page, m, key),
         jx.node[page].next = m, jx.node[page].prev = ix.node[page].prev,
         jx.node[m].next = ix.node[page].next, jx.node[m].prev = page,
         \A p \in T : p # page => jx.node[p] = ix.node[p]
  PROVE  Chained(jx, rk1, T \union {m}, R1)
<1> USE DEF Divided
<1> DEFINE U == T \union {m}
           Fine(p) ==
               /\ jx.node[p].next = NoPage => \A x \in R1[p] : \A y \in Int : x < y => y \in R1[p]
               /\ jx.node[p].next # NoPage => /\ jx.node[p].next \in U /\ rk1[jx.node[p].next] = 0
                                              /\ Meets(R1[p], R1[jx.node[p].next])
               /\ jx.node[p].prev \in U /\ rk1[jx.node[p].prev] = 0 =>
                     \A x \in R1[jx.node[p].prev] : \A y \in R1[p] : x < y
<1>a. page # m /\ key \in Int
  OBVIOUS
<1>3. /\ R1[page] = {x \in R[page] : x < key} /\ R1[m] = {x \in R[page] : key <= x}
      /\ \A p \in T : p # page => R1[p] = R[p]
  BY <1>a
<1>2. ASSUME NEW p \in T, rk[p] = 0
      PROVE  /\ ix.node[p].next = NoPage => \A x \in R[p] : \A y \in Int : x < y => y \in R[p]
             /\ ix.node[p].next # NoPage => /\ ix.node[p].next \in T /\ rk[ix.node[p].next] = 0
                                            /\ Meets(R[p], R[ix.node[p].next])
             /\ ix.node[p].prev \in T /\ rk[ix.node[p].prev] = 0 =>
                   \A x \in R[ix.node[p].prev] : \A y \in R[p] : x < y
  BY <1>2 DEF Chained
<1>b. \A p : p \in U <=> p \in T \/ p = m
  OBVIOUS
<1> HIDE DEF U
<1>4. Fine(page)
  <2>1. Meets(R1[page], R1[m])
    BY <1>a, <1>3 DEF Meets, Convex
  <2>2. ix.node[page].prev # m /\ ix.node[page].prev # page
    <3>1. ix.node[page].prev = page => \A x \in R[page] : x < x
      BY <1>2
    <3> QED
      BY <1>a, <3>1
  <2>3. ix.node[page].prev \in T /\ rk[ix.node[page].prev] = 0 =>
           \A x \in R1[ix.node[page].prev] : \A y \in R1[page] : x < y
    BY <1>2, <1>3, <2>2
  <2> QED
    BY <1>b, <2>1, <2>2, <2>3
<1>5. Fine(m)
  <2>1. ix.node[page].next # page
    <3>1. ix.node[page].next = page => \A x \in R[page] : x < x
      BY <1>2 DEF Meets
    <3> QED
      BY <1>a, <3>1
  <2>2. ix.node[page].next = NoPage => \A x \in R1[m] : \A y \in Int : x < y => y \in R1[m]
    BY <1>a, <1>2, <1>3
  <2>3. ASSUME ix.node[page].next # NoPage
        PROVE  /\ ix.node[page].next \in U /\ rk1[ix.node[page].next] = 0
               /\ Meets(R1[m], R1[ix.node[page].next])
    <3>1. /\ ix.node[page].next \in T /\ rk[ix.node[page].next] = 0
          /\ Meets(R[page], R[ix.node[page].next]) /\ R1[ix.node[page].next] = R[ix.node[page].next]
      BY <1>2, <1>3, <2>1, <2>3
    <3> DEFINE B == R[ix.node[page].next]
    <3>2. Meets(R[page], B) /\ B \subseteq Int
      BY <3>1
    <3> HIDE DEF B
    <3>3. Meets(R1[m], B)
      BY <1>a, <1>3, <3>2 DEF Meets
    <3> QED
      BY <1>b, <3>1, <3>3 DEF B
  <2>4. \A x \in R1[page] : \A y \in R1[m] : x < y
    BY <1>a, <1>3
  <2> QED
    BY <2>2, <2>3, <2>4
<1>6. ASSUME NEW p \in T, p # page, rk[p] = 0 PROVE Fine(p)
  <2>0. jx.node[p].next = ix.node[p].next /\ jx.node[p].prev = ix.node[p].prev /\ R1[p] = R[p]
        /\ ix.node[p].next # m /\ ix.node[p].prev # m
    BY <1>3, <1>6
  <2>1. ix.node[p].next = NoPage => \A x \in R1[p] : \A y \in Int : x < y => y \in R1[p]
    BY <1>2, <1>6, <2>0
  <2>2. ASSUME ix.node[p].next # NoPage
        PROVE  /\ ix.node[p].next \in U /\ rk1[ix.node[p].next] = 0
               /\ Meets(R1[p], R1[ix.node[p].next])
    <3>1. /\ ix.node[p].next \in T /\ rk[ix.node[p].next] = 0 /\ Meets(R[p], R[ix.node[p].next])
      BY <1>2, <1>6, <2>2
    <3>2. CASE ix.node[p].next # page
      BY <1>b, <1>3, <2>0, <3>1, <3>2
    <3>3. CASE ix.node[p].next = page
      <4>1. Meets(R[p], R[page]) /\ R[p] \subseteq Int
        BY <3>1, <3>3
      <4>2. Meets(R[p], R1[page])
        BY <1>a, <1>3, <4>1 DEF Meets
      <4> QED
        BY <1>b, <2>0, <3>1, <3>3, <4>2
    <3> QED
      BY <3>2, <3>3
  <2>3. ASSUME ix.node[p].prev \in U, rk1[ix.node[p].prev] = 0
        PROVE  \A x \in R1[ix.node[p].prev] : \A y \in R1[p] : x < y
    <3>1. /\ ix.node[p].prev \in T /\ rk[ix.node[p].prev] = 0
      BY <1>b, <2>0, <2>3
    <3>2. \A x \in R[ix.node[p].prev] : \A y \in R[p] : x < y
      BY <1>2, <1>6, <3>1
    <3>3. R1[ix.node[p].prev] \subseteq R[ix.node[p].prev]
      BY <1>3, <3>1
    <3> QED
      BY <2>0, <3>2, <3>3
  <2> QED
    BY <2>0, <2>1, <2>2, <2>3
<1>7. \A p \in U : rk1[p] = 0 => Fine(p)
  BY ZenonT(60), <1>b, <1>4, <1>5, <1>6
<1> HIDE DEF Fine
<1>8. Chained(jx, rk1, U, R1)
  <2> USE DEF Fine
  <2> QED
    BY <1>7 DEF Chained
<1> QED
  BY <1>8 DEF U

-----------------------------------------------------------------------------
\* How many entries a node has at least: half of its room, if the room is even.  An internal
\* node has one in any case, so that it has a sibling and a search finds its way.
AtLeast(r) == IF MaxKeys % 2 = 0 THEN MinKeys ELSE IF r = 0 THEN 0 ELSE 1
Need(rk, root, p) == IF p = root THEN (IF rk[p] = 0 THEN 0 ELSE 1) ELSE AtLeast(rk[p])
Filled(ix, rk, T, root, thin) ==
    \A p \in T : Num(ix, p) + (IF p = thin THEN 1 ELSE 0) >= Need(rk, root, p)

\* What is in the leaves.
Items(ix, rk, T) == {e \in Records : \E p \in T : rk[p] = 0 /\ \E i \in 1 .. Num(ix, p) : Item(ix, p, i) = e}

Shape(ix, n, rk, T, root, X) ==
    /\ Tree(ix, n, rk) /\ T \subseteq 1 .. n /\ Family(ix, rk, T, root, X)
    /\ Par(ix, root) = NoPage
    /\ \A p \in T : rk[p] <= rk[root]

\* The pages T of a file are a tree below root with the entries s; node thin may lack one entry.
Good(ix, n, rk, T, root, thin, whole, s) ==
    /\ Shape(ix, n, rk, T, root, NoPage)
    /\ MaxKeys >= 2 => Filled(ix, rk, T, root, thin)
    /\ Unique => \E R : KeyedAs(ix, rk, T, root, R) /\ (whole => Chained(ix, rk, T, R))
    /\ Items(ix, rk, T) = s

\* They are, but for X, the right half of left, that waits for a place in a parent.
Waiting(ix, n, rk, T, root, left, X, key, whole, s) ==
    /\ Shape(ix, n, rk, T, root, X)
    /\ left \in T /\ X \in T /\ X # root /\ X # left /\ rk[left] = rk[X] /\ key \in Keys
    /\ rk[X] = 0 => Par(ix, X) = Par(ix, left)
    /\ MaxKeys >= 2 => Filled(ix, rk, T, root, NoPage) /\ Num(ix, left) >= AtLeast(rk[left])
    /\ Unique => \E R : Keyed(ix, rk, T, root, left, X, key, R) /\ (whole => Chained(ix, rk, T, R))
    /\ Items(ix, rk, T) = s

\* A search for `key' ends at `page'.
Belongs(ix, rk, T, root, page, key) == \A R : KeyedAs(ix, rk, T, root, R) => key \in R[page]

LEMMA RecordKeys ==
  ASSUME NEW r \in Records
  PROVE  r.key \in Int /\ r.key \in Keys /\ r.rid \in Int
BY IndexAssumption DEF Keys

SortedSeq(s) == \A i, j \in 1 .. Len(s) : i < j => s[i].key < s[j].key
LEMMA SortedInsert ==
  ASSUME NEW s \in Seq(Records), SortedSeq(s), NEW r \in Records,
         \A i \in 1 .. Len(s) : s[i].key # r.key,
         NEW u, u = Upper(s, r.key), NEW t, InsertedAt(t, Records, s, u, r)
  PROVE  SortedSeq(t)
<1> DEFINE K(i) == s[i].key
           L(i) == t[i].key
           key == r.key
           n == Len(s)
<1>1. /\ u \in 1 .. n + 1 /\ n \in Nat
      /\ \A j \in 1 .. n : j < u => ~(key < K(j))
      /\ u \in 1 .. n => key < K(u)
  BY UpperMeans
<1>2. key \in Int /\ \A i \in 1 .. n : K(i) \in Int
  BY RecordKeys, ElementOfSeq
<1>3. \A i, j \in 1 .. n : i < j => K(i) < K(j)
  BY DEF SortedSeq
<1>4. \A i \in 1 .. n : K(i) # key
  OBVIOUS
<1>5. /\ Len(t) = n + 1
      /\ \A j \in 1 .. n + 1 : j < u => L(j) = K(j)
      /\ L(u) = key
      /\ \A j \in 1 .. n + 1 : j > u => L(j) = K(j - 1)
  BY DEF InsertedAt
<1> HIDE DEF K, L, key, n
<1>6. \A j \in 1 .. n : j < u => K(j) < key
  BY <1>1, <1>2, <1>4
<1>7. \A j \in 1 .. n : j >= u => key < K(j)
  BY <1>1, <1>2, <1>3
<1>8. ASSUME NEW i \in 1 .. n + 1, NEW j \in 1 .. n + 1, i < j PROVE L(i) < L(j)
  <2>1. CASE j < u
    <3>1. i \in 1 .. n /\ j \in 1 .. n /\ i < u
      BY <1>1, <1>8, <2>1
    <3> QED
      BY <1>3, <1>5, <1>8, <2>1, <3>1
  <2>2. CASE j = u
    <3>1. i \in 1 .. n /\ i < u
      BY <1>1, <1>8, <2>2
    <3> QED
      BY <1>5, <1>6, <2>2, <3>1
  <2>3. CASE j > u
    <3>1. j - 1 \in 1 .. n /\ j - 1 >= u /\ L(j) = K(j - 1)
      BY <1>1, <1>5, <1>8, <2>3
    <3>2. CASE i < u
      <4>1. i \in 1 .. n /\ i < j - 1 /\ L(i) = K(i)
        BY <1>1, <1>5, <3>1, <3>2
      <4> QED
        BY <1>3, <3>1, <4>1
    <3>3. CASE i = u
      BY <1>5, <1>7, <3>1, <3>3
    <3>4. CASE i > u
      <4>1. i - 1 \in 1 .. n /\ i - 1 < j - 1 /\ L(i) = K(i - 1)
        BY <1>1, <1>5, <1>8, <3>4
      <4> QED
        BY <1>3, <3>1, <4>1
    <3> QED
      BY <1>1, <3>2, <3>3, <3>4
  <2> QED
    BY <1>1, <2>1, <2>2, <2>3
<1> QED
  BY <1>5, <1>8 DEF SortedSeq, L

\* Items and keys, if one leaf is not what it was.
SameNodeOf(jx, ix, p) ==
         /\ Num(jx, p) = Num(ix, p) /\ Par(jx, p) = Par(ix, p)
         /\ \A i : Key(jx, p, i) = Key(ix, p, i) /\ Item(jx, p, i) = Item(ix, p, i)
         /\ \A i : Kid(jx, p, i) = Kid(ix, p, i)
         /\ SameKids(jx, ix, p) /\ SameKeys(jx, ix, p) /\ SameChain(jx, ix, p) /\ SameBody(jx, ix, p)
         /\ (Sorted(jx, p) <=> Sorted(ix, p))
LEMMA SameNode ==
  ASSUME NEW ix, NEW jx, NEW p, jx.node[p] = ix.node[p]
  PROVE  SameNodeOf(jx, ix, p)
BY DEF SameNodeOf, Num, Par, Key, Item, Kid, SameKids, SameKeys, SameChain, SameBody, Sorted

LEMMA KeyOfItem ==
  ASSUME NEW ix, NEW p, NEW i
  PROVE  Key(ix, p, i) = Item(ix, p, i).key
BY DEF Key, Item

\* Record r gets its place in leaf `page'.
LeafInsert(ix, page, r) ==
    WithEntries(ix, page, InsertAt(ix.node[page].entries, Upper(ix.node[page].entries, r.key), r))

LEMMA LeafInsertGood ==
  ASSUME NEW ix, NEW n, NEW rk, NEW T, NEW root, NEW whole, NEW s,
         Good(ix, n, rk, T, root, NoPage, whole, s),
         NEW page \in T, rk[page] = 0, Num(ix, page) < MaxKeys, NEW r \in Records,
         Unique => /\ Belongs(ix, rk, T, root, page, r.key)
                   /\ \A i \in 1 .. Num(ix, page) : Key(ix, page, i) # r.key
  PROVE  /\ Good(LeafInsert(ix, page, r), n, rk, T, root, NoPage, whole, s \union {r})
         /\ LeafInsert(ix, page, r).pins = ix.pins /\ LeafInsert(ix, page, r).info = ix.info
<1> DEFINE old == ix.node[page].entries
           u == Upper(old, r.key)
           t == InsertAt(old, u, r)
           jx == WithEntries(ix, page, t)
<1>1. /\ Tree(ix, n, rk) /\ T \subseteq 1 .. n /\ Family(ix, rk, T, root, NoPage)
      /\ Par(ix, root) = NoPage /\ \A p \in T : rk[p] <= rk[root]
  BY DEF Good, Shape
<1>2. page \in 1 .. n /\ root \in T /\ \A p \in T : Num(ix, p) \in Nat /\ rk[p] \in Nat
  BY <1>1 DEF Family
<1>3. old \in Seq(Records) /\ Num(ix, page) = Len(old)
  BY <1>1, <1>2, PageFields DEF Num, Ents
<1>4. \A i \in 1 .. Len(old) : Item(ix, page, i) = old[i] /\ Key(ix, page, i) = old[i].key
  BY DEF Item, Key
<1> HIDE DEF old
<1>5. u \in 1 .. Len(old) + 1
  BY <1>3, UpperPlace
<1> HIDE DEF u
<1>6. InsertedAt(t, Records, old, u, r)
  BY <1>3, <1>5, InsertedIs
<1> HIDE DEF t
<1>7. t \in Lists(Ents(n, rk, rk[page]))
  <2>1. t \in Seq(Records) /\ Len(t) = Len(old) + 1 /\ Len(old) \in Nat
    BY <1>6 DEF InsertedAt
  <2>2. Len(t) <= MaxKeys
    BY <1>3, <2>1, MinKeysFits
  <2> QED
    BY <2>1, <2>2 DEF Lists, Ents
<1>8. Tree(jx, n, rk) /\ EntriesSet(jx, ix, n, page, t)
  BY <1>1, <1>2, <1>7, EntriesField
<1>9. LeafInsert(ix, page, r) = jx
  BY DEF LeafInsert, t, u, old
<1> HIDE DEF jx
<1>10. \A p \in T : p # page => jx.node[p] = ix.node[p]
  BY <1>1, <1>8 DEF EntriesSet, Only
<1>19. ASSUME NEW p \in T, p # page
       PROVE  /\ Num(jx, p) = Num(ix, p) /\ Par(jx, p) = Par(ix, p) /\ SameChain(jx, ix, p)
              /\ SameKids(jx, ix, p) /\ SameKeys(jx, ix, p)
              /\ \A i : Item(jx, p, i) = Item(ix, p, i) /\ Key(jx, p, i) = Key(ix, p, i)
              /\ (Sorted(jx, p) <=> Sorted(ix, p))
  <2>1. jx.node[p] = ix.node[p]
    BY <1>10, <1>19
  <2>2. SameNodeOf(jx, ix, p)
    BY <2>1, SameNode
  <2> QED
    BY <2>2 DEF SameNodeOf
<1>11. /\ Num(jx, page) = Num(ix, page) + 1 /\ Par(jx, page) = Par(ix, page) /\ SameChain(jx, ix, page)
       /\ \A i \in 1 .. Num(ix, page) + 1 : Item(jx, page, i) = t[i] /\ Key(jx, page, i) = t[i].key
  BY <1>3, <1>6, <1>8 DEF EntriesSet, Num, Par, SameChain, Item, Key, InsertedAt
<1>12. \A p \in T : Num(jx, p) \in Nat /\ Par(jx, p) = Par(ix, p) /\ SameChain(jx, ix, p)
  BY <1>2, <1>11, <1>19
<1>13. \A p \in T : rk[p] # 0 => SameKids(jx, ix, p) /\ SameKeys(jx, ix, p)
  BY <1>19
<1>14. Shape(jx, n, rk, T, root, NoPage)
  <2>1. Family(jx, rk, T, root, NoPage)
    BY <1>1, <1>12, <1>13, SameFamily
  <2> QED
    BY <1>1, <1>2, <1>8, <1>12, <2>1 DEF Shape
<1>15. MaxKeys >= 2 => Filled(jx, rk, T, root, NoPage)
  <2>1. \A p \in T : Num(jx, p) >= Num(ix, p) /\ Num(jx, p) \in Nat /\ p # NoPage
    BY <1>1, <1>2, <1>11, <1>19 DEF Family
  <2>2. MaxKeys >= 2 => Filled(ix, rk, T, root, NoPage)
    BY DEF Good
  <2>3. \A p \in T : Need(rk, root, p) \in Nat
    BY MinKeysFits DEF Need, AtLeast
  <2> QED
    BY <1>2, <2>1, <2>2, <2>3 DEF Filled
<1>16. ASSUME Unique PROVE \E R : KeyedAs(jx, rk, T, root, R) /\ (whole => Chained(jx, rk, T, R))
  <2>1. PICK R : KeyedAs(ix, rk, T, root, R) /\ (whole => Chained(ix, rk, T, R))
    BY <1>16 DEF Good
  <2>2. r.key \in R[page] /\ \A i \in 1 .. Num(ix, page) : Key(ix, page, i) # r.key
    BY <1>16, <2>1 DEF Belongs
  <2>3. /\ \A p \in T : \A i \in 1 .. Num(ix, p) : Key(ix, p, i) \in R[p]
        /\ \A p \in T : Sorted(ix, p)
    BY <1>1, <1>2, <2>1, KeyedPlain
  <2>4. SortedSeq(t)
    <3>1. SortedSeq(old)
      BY <1>2, <1>3, <1>4, <2>3 DEF SortedSeq, Sorted
    <3>2. \A i \in 1 .. Len(old) : old[i].key # r.key
      BY <1>3, <1>4, <2>2
    <3> QED
      BY <1>3, <1>6, <3>1, <3>2, SortedInsert DEF u
  <2>5. Sorted(jx, page)
    <3>1. Len(t) = Num(jx, page) /\ Num(jx, page) = Num(ix, page) + 1
      BY <1>3, <1>6, <1>11 DEF InsertedAt
    <3> QED
      BY <1>11, <2>4, <3>1 DEF SortedSeq, Sorted
  <2>6. \A i \in 1 .. Num(jx, page) : Key(jx, page, i) \in R[page]
    <3>1. ASSUME NEW i \in 1 .. Num(ix, page) + 1 PROVE t[i].key \in R[page]
      <4>1. CASE i < u
        <5>1. i \in 1 .. Len(old) /\ t[i] = old[i]
          BY <1>2, <1>3, <1>5, <1>6, <4>1 DEF InsertedAt
        <5> QED
          BY <1>3, <1>4, <2>3, <5>1
      <4>2. CASE i = u
        BY <1>6, <2>2, <4>2 DEF InsertedAt
      <4>3. CASE i > u
        <5>1. i - 1 \in 1 .. Len(old) /\ t[i] = old[i - 1]
          BY <1>2, <1>3, <1>5, <1>6, <4>3 DEF InsertedAt
        <5> QED
          BY <1>3, <1>4, <2>3, <5>1
      <4> QED
        BY <1>5, <4>1, <4>2, <4>3
    <3> QED
      BY <1>11, <3>1
  <2>7. KeyedAs(jx, rk, T, root, R)
    <3>1. \A p \in T : rk[p] = 0 => Sorted(jx, p) /\ \A i \in 1 .. Num(jx, p) : Key(jx, p, i) \in R[p]
      BY <1>19, <2>3, <2>5, <2>6
    <3> QED
      BY <1>1, <1>13, <2>1, <3>1, KeyedLeaf
  <2>8. whole => Chained(jx, rk, T, R)
    BY <1>12, <2>1, ChainedSame
  <2> QED
    BY <2>7, <2>8
<1>17. Items(jx, rk, T) = s \union {r}
  <2>1. s = Items(ix, rk, T)
    BY DEF Good
  <2>2. ASSUME NEW e \in Records
        PROVE  (\E i \in 1 .. Num(jx, page) : Item(jx, page, i) = e)
                  <=> e = r \/ \E i \in 1 .. Num(ix, page) : Item(ix, page, i) = e
    <3>1. u \in 1 .. Num(jx, page) /\ Item(jx, page, u) = r
      BY <1>3, <1>5, <1>6, <1>11 DEF InsertedAt
    <3>2. ASSUME NEW i \in 1 .. Num(ix, page)
          PROVE  \E j \in 1 .. Num(jx, page) : Item(jx, page, j) = Item(ix, page, i)
      <4>1. CASE i < u
        <5>1. i \in 1 .. Num(ix, page) + 1 /\ t[i] = old[i] /\ i \in 1 .. Len(old)
          BY <1>2, <1>3, <1>5, <1>6, <4>1 DEF InsertedAt
        <5> QED
          BY <1>4, <1>11, <5>1
      <4>2. CASE i >= u
        <5>1. /\ i + 1 \in 1 .. Num(ix, page) + 1 /\ t[i + 1] = old[i + 1 - 1] /\ i + 1 - 1 = i
              /\ i \in 1 .. Len(old)
          BY <1>2, <1>3, <1>5, <1>6, <4>2 DEF InsertedAt
        <5> QED
          BY <1>4, <1>11, <5>1
      <4> QED
        BY <1>5, <4>1, <4>2
    <3>3. ASSUME NEW j \in 1 .. Num(jx, page)
          PROVE  Item(jx, page, j) = r \/ \E i \in 1 .. Num(ix, page) : Item(ix, page, i) = Item(jx, page, j)
      <4>0. j \in 1 .. Num(ix, page) + 1
        BY <1>11
      <4>1. CASE j < u
        <5>1. j \in 1 .. Len(old) /\ t[j] = old[j]
          BY <1>2, <1>3, <1>5, <1>6, <4>0, <4>1 DEF InsertedAt
        <5> QED
          BY <1>3, <1>4, <1>11, <4>0, <5>1
      <4>2. CASE j = u
        BY <3>1, <4>2
      <4>3. CASE j > u
        <5>1. j - 1 \in 1 .. Len(old) /\ t[j] = old[j - 1]
          BY <1>2, <1>3, <1>5, <1>6, <4>0, <4>3 DEF InsertedAt
        <5> QED
          BY <1>3, <1>4, <1>11, <4>0, <5>1
      <4> QED
        BY <1>5, <4>0, <4>1, <4>2, <4>3
    <3> QED
      BY <3>1, <3>2, <3>3
  <2>3. \A p \in T : p # page => Num(jx, p) = Num(ix, p) /\ \A i : Item(jx, p, i) = Item(ix, p, i)
    BY <1>19
  <2>4. ASSUME NEW e \in Records PROVE e \in Items(jx, rk, T) <=> e \in Items(ix, rk, T) \/ e = r
    <3>1. e \in Items(jx, rk, T) => e \in Items(ix, rk, T) \/ e = r
      BY <2>2, <2>3 DEF Items
    <3>2. e \in Items(ix, rk, T) \/ e = r => e \in Items(jx, rk, T)
      BY <2>2, <2>3 DEF Items
    <3> QED
      BY <3>1, <3>2
  <2>5. Items(jx, rk, T) \subseteq Records /\ Items(ix, rk, T) \subseteq Records
    BY DEF Items
  <2> QED
    BY <2>1, <2>4, <2>5
<1>18. Good(jx, n, rk, T, root, NoPage, whole, s \union {r})
  BY <1>14, <1>15, <1>16, <1>17 DEF Good
<1> QED
  BY <1>8, <1>9, <1>18 DEF EntriesSet, Only

-----------------------------------------------------------------------------
\* What is in a sequence with one more item.
LEMMA InsertedRange ==
  ASSUME NEW S, NEW s, NEW t, NEW e, NEW u \in 1 .. Len(s) + 1, InsertedAt(t, S, s, u, e)
  PROVE  /\ \A i \in 1 .. Len(t) : t[i] = e \/ \E j \in 1 .. Len(s) : s[j] = t[i]
         /\ \A j \in 1 .. Len(s) : \E i \in 1 .. Len(t) : t[i] = s[j]
         /\ u \in 1 .. Len(t) /\ t[u] = e
<1>1. /\ Len(t) = Len(s) + 1 /\ Len(s) \in Nat
      /\ \A j \in 1 .. Len(s) + 1 : j < u => t[j] = s[j]
      /\ t[u] = e
      /\ \A j \in 1 .. Len(s) + 1 : j > u => t[j] = s[j - 1]
  BY DEF InsertedAt
<1>2. ASSUME NEW i \in 1 .. Len(t) PROVE t[i] = e \/ \E j \in 1 .. Len(s) : s[j] = t[i]
  <2>1. CASE i < u
    <3>1. i \in 1 .. Len(s) /\ t[i] = s[i]
      BY <1>1, <2>1
    <3> QED
      BY <3>1
  <2>2. CASE i = u
    BY <1>1, <2>2
  <2>3. CASE i > u
    <3>1. i - 1 \in 1 .. Len(s) /\ t[i] = s[i - 1]
      BY <1>1, <2>3
    <3> QED
      BY <3>1
  <2> QED
    BY <1>1, <2>1, <2>2, <2>3
<1>3. ASSUME NEW j \in 1 .. Len(s) PROVE \E i \in 1 .. Len(t) : t[i] = s[j]
  <2>1. CASE j < u
    <3>1. j \in 1 .. Len(t) /\ t[j] = s[j]
      BY <1>1, <2>1
    <3> QED
      BY <3>1
  <2>2. CASE j >= u
    <3>1. j + 1 \in 1 .. Len(t) /\ t[j + 1] = s[j + 1 - 1] /\ j + 1 - 1 = j
      BY <1>1, <2>2
    <3> QED
      BY <3>1
  <2> QED
    BY <1>1, <2>1, <2>2
<1> QED
  BY <1>1, <1>2, <1>3
\* Where a list with an entry too many is divided.
Middle(all) == Len(all) \div 2

\* Where a record belongs, and its key is not there.
Fits(ix, rk, T, root, page, key) ==
    Unique => /\ Belongs(ix, rk, T, root, page, key)
              /\ \A i \in 1 .. Num(ix, page) : Key(ix, page, i) # key

\* The entries of leaf `page' and record r, where they are divided, and the key there.
LeafDivided(ix, page, r, all, mid, key) ==
    /\ all = InsertAt(ix.node[page].entries, Upper(ix.node[page].entries, r.key), r)
    /\ mid = Middle(all) /\ key = all[mid + 1].key

\* A full leaf is split for record r.
LEMMA SplitLeafWaits ==
  ASSUME NEW ix, NEW n, NEW rk, NEW T, NEW root, NEW whole, NEW s,
         Good(ix, n, rk, T, root, NoPage, whole, s),
         NEW page \in T, rk[page] = 0, Num(ix, page) >= MaxKeys, NEW r \in Records,
         Fits(ix, rk, T, root, page, r.key),
         NEW m, NEW rk1, Grown(n, rk, 0, m, rk1),
         NEW all, NEW mid, NEW key, LeafDivided(ix, page, r, all, mid, key),
         NEW V, V = T \union {m}, NEW jx, jx = LeafCut(ix, page, all)
  PROVE  /\ Waiting(jx, m, rk1, V, root, page, m, key, whole, s \union {r})
         /\ \A q \in 1 .. n : jx.pins[q] = ix.pins[q]
         /\ jx.pins[m] = 0 /\ jx.info = ix.info
<1> DEFINE old == ix.node[page].entries
           u == Upper(old, r.key)
<1>1. /\ Tree(ix, n, rk) /\ T \subseteq 1 .. n /\ Family(ix, rk, T, root, NoPage)
      /\ Par(ix, root) = NoPage /\ \A p \in T : rk[p] <= rk[root]
  BY DEF Good, Shape
<1>2. /\ page \in 1 .. n /\ root \in T /\ NoPage \notin T /\ n \in Nat /\ m = n + 1
      /\ \A p \in T : Num(ix, p) \in Nat /\ rk[p] \in Nat
  BY <1>1 DEF Family, Tree, Grown
<1>3. old \in Seq(Records) /\ Num(ix, page) = Len(old) /\ old \in Lists(Records)
  BY <1>1, <1>2, PageFields DEF Num, Ents
<1>4. \A i \in 1 .. Len(old) : Item(ix, page, i) = old[i] /\ Key(ix, page, i) = old[i].key
  BY DEF Item, Key
<1> HIDE DEF old
<1>5. u \in 1 .. Len(old) + 1
  BY <1>3, UpperPlace
<1>6. all = InsertAt(old, u, r)
  BY DEF old, LeafDivided
<1>27. u = Upper(old, r.key)
  OBVIOUS
<1> HIDE DEF u
<1>7. InsertedAt(all, Records, old, u, r)
  <2>1. InsertedAt(InsertAt(old, u, r), Records, old, u, r)
    BY <1>3, <1>5, InsertedIs
  <2> QED
    BY <1>6, <2>1
<1>8. /\ all \in Seq(Records) /\ Len(all) = Num(ix, page) + 1 /\ Len(all) \in Nat
      /\ Len(all) >= MaxKeys + 1 /\ Len(all) >= 2
  BY <1>2, <1>3, <1>7, MinKeysFits DEF InsertedAt
<1>9. MaxKeys % 2 = 0 => Len(all) = MaxKeys + 1
  <2>1. ASSUME MaxKeys % 2 = 0 PROVE Len(all) = MaxKeys + 1
    <3>1. Len(old) <= MaxKeys
      BY <1>3, <2>1 DEF Lists
    <3>2. Len(old) >= MaxKeys /\ MaxKeys \in Nat /\ Len(old) \in Nat /\ Len(all) = Len(old) + 1
      BY <1>2, <1>3, <1>8, MinKeysFits
    <3> QED
      BY <3>1, <3>2
  <2> QED
    BY <2>1
<1>10. /\ Tree(jx, m, rk1) /\ LeafHalved(jx, ix, n, page, all, mid, m)
  <2>1. MaxKeys % 2 = 0 => Len(all) <= MaxKeys + 1
    BY <1>8, <1>9
  <2>2. /\ Tree(LeafCut(ix, page, all), m, rk1)
        /\ LeafHalved(LeafCut(ix, page, all), ix, n, page, all, mid, m)
    BY <1>1, <1>2, <1>8, <2>1, LeafCutEffect DEF Middle, LeafDivided
  <2> QED
    BY <2>2
<1>11. /\ mid \in Nat /\ mid >= 1 /\ mid + 1 \in 1 .. Len(all) /\ Len(all) - mid >= mid
       /\ MaxKeys % 2 = 0 => mid = MinKeys
  <2>1. /\ mid \in Nat /\ mid >= 1 /\ mid + 1 \in 1 .. Len(all) /\ Len(all) - mid >= mid
    <3>1. mid = Len(all) \div 2
      BY DEF LeafDivided, Middle
    <3> QED
      BY <1>8, <3>1
  <2>2. MaxKeys % 2 = 0 => mid = MinKeys
    <3>1. ASSUME MaxKeys % 2 = 0 PROVE mid = MinKeys
      <4>1. Len(all) = 2 * MinKeys + 1 /\ MinKeys \in Nat
        BY <1>9, <3>1, MinKeysFits
      <4> QED
        BY <4>1 DEF Middle, LeafDivided
    <3> QED
      BY <3>1
  <2> QED
    BY <2>1, <2>2
<1>12. /\ m \notin T /\ m # NoPage /\ m # page
       /\ \A p \in T : rk1[p] = rk[p]
       /\ rk1[m] = 0
  <2>1. m \notin T /\ m # NoPage /\ m # page
    BY <1>1, <1>2 DEF NoPage
  <2> QED
    BY <1>1, <2>1 DEF Grown
<1>13. ASSUME NEW p \in T, p # page
       PROVE  /\ Num(jx, p) = Num(ix, p) /\ Par(jx, p) = Par(ix, p) /\ SameChain(jx, ix, p)
              /\ SameKids(jx, ix, p) /\ SameKeys(jx, ix, p)
              /\ \A i : Item(jx, p, i) = Item(ix, p, i) /\ Key(jx, p, i) = Key(ix, p, i)
              /\ jx.node[p] = ix.node[p]
  <2>1. jx.node[p] = ix.node[p]
    BY <1>1, <1>10, <1>13 DEF LeafHalved
  <2>2. SameNodeOf(jx, ix, p)
    BY <2>1, SameNode
  <2> QED
    BY <2>1, <2>2 DEF SameNodeOf
<1>14. /\ Num(jx, page) = mid /\ Par(jx, page) = Par(ix, page)
       /\ Num(jx, m) = Len(all) - mid /\ Num(jx, m) \in Nat /\ Par(jx, m) = Par(ix, page)
       /\ \A i \in 1 .. mid : Item(jx, page, i) = all[i] /\ Key(jx, page, i) = all[i].key
       /\ \A i \in 1 .. Len(all) - mid : Item(jx, m, i) = all[mid + i] /\ Key(jx, m, i) = all[mid + i].key
  <2>1. /\ Num(jx, page) = mid /\ Par(jx, page) = Par(ix, page)
        /\ Num(jx, m) = Len(all) - mid /\ Par(jx, m) = Par(ix, page)
        /\ \A i \in 1 .. mid : Item(jx, page, i) = all[i]
        /\ \A i \in 1 .. Len(all) - mid : Item(jx, m, i) = all[mid + i]
    BY <1>10 DEF LeafHalved
  <2>2. Len(all) - mid \in Nat
    BY <1>8, <1>11
  <2> QED
    BY <2>1, <2>2, KeyOfItem
<1>15. Shape(jx, m, rk1, V, root, m)
  <2>1. Family(jx, rk1, V, root, m)
    <3>1. \A p \in T : Num(jx, p) \in Nat /\ Par(jx, p) = Par(ix, p)
      BY <1>2, <1>11, <1>13, <1>14
    <3>2. \A p \in T : rk[p] # 0 => SameKids(jx, ix, p)
      BY <1>13
    <3> QED
      BY ZenonT(60), <1>1, <1>12, <1>14, <3>1, <3>2, LeafFamily
  <2>2. \A p \in V : rk1[p] <= rk1[root]
    BY <1>1, <1>2, <1>12
  <2>3. Par(jx, root) = NoPage
    BY <1>1, <1>2, <1>13, <1>14
  <2>4. V \subseteq 1 .. m
    <3>1. \A p \in 1 .. n : p \in 1 .. m
      BY <1>2
    <3>2. m \in 1 .. m
      BY <1>2
    <3> QED
      BY <1>1, <3>1, <3>2
  <2> QED
    BY <1>10, <2>1, <2>2, <2>3, <2>4 DEF Shape
<1>16. MaxKeys >= 2 => Filled(jx, rk1, V, root, NoPage) /\ Num(jx, page) >= AtLeast(rk1[page])
  <2>1. ASSUME MaxKeys >= 2 PROVE Filled(jx, rk1, V, root, NoPage)
    <3>1. Filled(ix, rk, T, root, NoPage)
      BY <2>1 DEF Good
    <3>2. \A p \in T : p # page => Num(jx, p) = Num(ix, p) /\ p # NoPage
      BY <1>2, <1>13
    <3>3. \A p \in T : Need(rk1, root, p) = Need(rk, root, p)
      BY <1>12 DEF Need
    <3>4. Num(jx, page) + 0 >= Need(rk1, root, page)
      BY <1>11, <1>12, <1>14, MinKeysFits DEF Need, AtLeast
    <3>5. Num(jx, m) + 0 >= Need(rk1, root, m)
      BY <1>8, <1>11, <1>12, <1>14, MinKeysFits DEF Need, AtLeast
    <3> QED
      BY <1>2, <1>12, <3>1, <3>2, <3>3, <3>4, <3>5 DEF Filled
  <2>2. Num(jx, page) >= AtLeast(rk1[page])
    BY <1>11, <1>12, <1>14, MinKeysFits DEF AtLeast
  <2> QED
    BY <2>1, <2>2
<1>17. ASSUME Unique
       PROVE  \E R : Keyed(jx, rk1, V, root, page, m, key, R) /\ (whole => Chained(jx, rk1, V, R))
  <2>1. PICK R : KeyedAs(ix, rk, T, root, R) /\ (whole => Chained(ix, rk, T, R))
    BY <1>17 DEF Good
  <2>2. r.key \in R[page] /\ \A i \in 1 .. Num(ix, page) : Key(ix, page, i) # r.key
    BY <1>17, <2>1 DEF Belongs, Fits
  <2>3. /\ \A p \in T : \A i \in 1 .. Num(ix, p) : Key(ix, p, i) \in R[p]
        /\ \A p \in T : Sorted(ix, p)
        /\ \A p \in T : R[p] \subseteq Int /\ R[p] # {} /\ Convex(R[p])
    BY <1>1, <1>2, <2>1, KeyedPlain
  <2>4. SortedSeq(all)
    <3>1. SortedSeq(old)
      BY <1>2, <1>3, <1>4, <2>3 DEF SortedSeq, Sorted
    <3>2. \A i \in 1 .. Len(old) : old[i].key # r.key
      BY <1>3, <1>4, <2>2
    <3> QED
      BY <1>3, <1>7, <1>27, <3>1, <3>2, SortedInsert
  <2>5. \A i \in 1 .. Len(all) : all[i].key \in R[page]
    <3>1. \A j \in 1 .. Len(old) : old[j].key \in R[page]
      BY <1>2, <1>3, <1>4, <2>3
    <3>2. \A i \in 1 .. Len(all) : all[i] = r \/ \E j \in 1 .. Len(old) : old[j] = all[i]
      BY <1>5, <1>7, InsertedRange
    <3> QED
      BY <2>2, <3>1, <3>2
  <2>6. key \in R[page] /\ key = all[mid + 1].key
    BY <1>11, <2>5 DEF LeafDivided
  <2>7. \A i, j \in 1 .. Len(all) : i < j => all[i].key < all[j].key
    BY <2>4 DEF SortedSeq
  <2>15. \A i \in 1 .. mid : i \in 1 .. Len(all) /\ i < mid + 1
    BY <1>8, <1>11
  <2>8. Sorted(jx, page)
    BY <1>14, <2>7, <2>15 DEF Sorted
  <2>9. Sorted(jx, m)
    <3>1. ASSUME NEW i \in 1 .. Num(jx, m), NEW j \in 1 .. Num(jx, m), i < j
          PROVE  Key(jx, m, i) < Key(jx, m, j)
      <4>1. mid + i \in 1 .. Len(all) /\ mid + j \in 1 .. Len(all) /\ mid + i < mid + j
        BY <1>8, <1>11, <1>14, <3>1
      <4>2. all[mid + i].key < all[mid + j].key
        BY <2>7, <4>1
      <4> QED
        BY <1>14, <4>2
    <3> QED
      BY <3>1 DEF Sorted
  <2>10. \A i \in 1 .. Num(jx, page) : Key(jx, page, i) \in R[page] /\ Key(jx, page, i) < key
    BY ZenonT(60), <1>11, <1>14, <2>5, <2>6, <2>7, <2>15
  <2>11. ASSUME NEW i \in 1 .. Num(jx, m) PROVE Key(jx, m, i) \in R[page] /\ key <= Key(jx, m, i)
    <3>1. mid + i \in 1 .. Len(all) /\ mid + 1 <= mid + i
      BY <1>8, <1>11, <1>14, <2>11
    <3>2. all[mid + i].key \in R[page] /\ Key(jx, m, i) = all[mid + i].key
      BY <1>14, <2>5, <2>11, <3>1
    <3>3. CASE i = 1
      <4>1. all[mid + i].key = key /\ key \in Int
        BY <2>3, <2>6, <3>3
      <4> QED
        BY <3>2, <4>1
    <3>4. CASE i # 1
      <4>1. mid + 1 < mid + i
        BY <1>11, <2>11, <3>4, <1>14
      <4>2. key < all[mid + i].key
        BY <1>11, <2>6, <2>7, <3>1, <4>1
      <4>3. key \in Int /\ all[mid + i].key \in Int
        BY <2>3, <2>6, <3>2
      <4> QED
        BY <3>2, <4>2, <4>3
    <3> QED
      BY <3>3, <3>4
  <2> DEFINE R1 == Divided(R, T, page, m, key)
  <2>12. Keyed(jx, rk1, V, root, page, m, key, R1)
    <3>1. \A p \in T : p # page => SameKeys(jx, ix, p) /\ SameKids(jx, ix, p)
      BY <1>13
    <3>2. Num(jx, page) \in Nat \ {0} /\ Num(jx, m) \in Nat
      BY <1>11, <1>14
    <3> QED
      BY <1>1, <1>12, <2>1, <2>6, <2>8, <2>9, <2>10, <2>11, <3>1, <3>2, KeyedLeafHalves
  <2>13. whole => Chained(jx, rk1, V, R1)
    <3>1. \A p \in T : ix.node[p].next # m /\ ix.node[p].prev # m
      <4>1. ASSUME NEW p \in T PROVE ix.node[p].next \in 0 .. n /\ ix.node[p].prev \in 0 .. n
        BY <1>1, PageFields
      <4> QED
        BY <1>2, <4>1
    <3>2. /\ jx.node[page].next = m /\ jx.node[page].prev = ix.node[page].prev
          /\ jx.node[m].next = ix.node[page].next /\ jx.node[m].prev = page
      BY <1>10 DEF LeafHalved
    <3>3. \A p \in T : p # page => jx.node[p] = ix.node[p]
      BY <1>13
    <3>4. R1 = Divided(R, T, page, m, key) /\ V = T \union {m}
      OBVIOUS
    <3>5. /\ \A p \in T : R[p] \subseteq Int /\ R[p] # {} /\ Convex(R[p])
          /\ key \in R[page] /\ NoPage \notin T /\ rk[page] = 0
      BY <1>2, <2>3, <2>6
    <3> HIDE DEF R1
    <3>6. ASSUME Chained(ix, rk, T, R) PROVE Chained(jx, rk1, T \union {m}, R1)
      BY SMTT(40), <1>12, <3>1, <3>2, <3>3, <3>4, <3>5, <3>6, ChainedHalves
    <3> QED
      BY <2>1, <3>4, <3>6
  <2> QED
    BY <2>12, <2>13
<1>18. Items(jx, rk1, V) = s \union {r}
  <2>1. s = Items(ix, rk, T)
    BY DEF Good
  <2>2. /\ \A i \in 1 .. Len(all) : all[i] = r \/ \E j \in 1 .. Len(old) : old[j] = all[i]
        /\ \A j \in 1 .. Len(old) : \E i \in 1 .. Len(all) : all[i] = old[j]
        /\ u \in 1 .. Len(all) /\ all[u] = r
    BY <1>5, <1>7, InsertedRange
  <2>3. ASSUME NEW i \in 1 .. Len(all)
        PROVE  \E p \in {page, m} : \E j \in 1 .. Num(jx, p) : Item(jx, p, j) = all[i]
    <3>1. CASE i <= mid
      <4>1. i \in 1 .. Num(jx, page) /\ Item(jx, page, i) = all[i]
        BY <1>11, <1>14, <3>1
      <4> QED
        BY <4>1
    <3>2. CASE i > mid
      <4>1. i - mid \in 1 .. Len(all) - mid /\ mid + (i - mid) = i
        BY <1>8, <1>11, <3>2
      <4> QED
        BY <1>14, <4>1
    <3> QED
      BY <1>8, <1>11, <3>1, <3>2
  <2>4. ASSUME NEW p \in {page, m}, NEW j \in 1 .. Num(jx, p)
        PROVE  \E i \in 1 .. Len(all) : all[i] = Item(jx, p, j)
    <3>1. CASE p = page
      <4>1. j \in 1 .. Len(all) /\ Item(jx, p, j) = all[j]
        BY <1>8, <1>11, <1>14, <3>1
      <4> QED
        BY <4>1
    <3>2. CASE p = m
      <4>1. mid + j \in 1 .. Len(all) /\ Item(jx, p, j) = all[mid + j]
        BY <1>8, <1>11, <1>14, <3>2
      <4> QED
        BY <4>1
    <3> QED
      BY <2>4, <3>1, <3>2
  <2>5. ASSUME NEW e, NEW p \in T, rk[p] = 0, NEW i \in 1 .. Num(ix, p), Item(ix, p, i) = e
        PROVE  \E q \in V : rk1[q] = 0 /\ \E j \in 1 .. Num(jx, q) : Item(jx, q, j) = e
    <3>1. CASE p = page
      <4>1. \E j \in 1 .. Len(all) : all[j] = e
        BY <1>3, <1>4, <2>2, <2>5, <3>1
      <4> QED
        BY <1>12, <2>3, <4>1
    <3>2. CASE p # page
      BY <1>12, <1>13, <2>5, <3>2
    <3> QED
      BY <3>1, <3>2
  <2>6. \E q \in V : rk1[q] = 0 /\ \E j \in 1 .. Num(jx, q) : Item(jx, q, j) = r
    <3>1. \E p \in {page, m} : \E j \in 1 .. Num(jx, p) : Item(jx, p, j) = r
      BY <2>2, <2>3
    <3>2. \A p \in {page, m} : p \in V /\ rk1[p] = 0
      BY <1>12
    <3> QED
      BY <3>1, <3>2
  <2>7. ASSUME NEW e, NEW q \in V, rk1[q] = 0, NEW j \in 1 .. Num(jx, q), Item(jx, q, j) = e
        PROVE  e = r \/ \E p \in T : rk[p] = 0 /\ \E i \in 1 .. Num(ix, p) : Item(ix, p, i) = e
    <3>1. CASE q \in {page, m}
      <4>1. PICK i \in 1 .. Len(all) : all[i] = e
        BY <2>4, <2>7, <3>1
      <4>2. e = r \/ \E k \in 1 .. Len(old) : old[k] = e
        BY <2>2, <4>1
      <4> QED
        BY <1>3, <1>4, <4>2
    <3>2. CASE q \notin {page, m}
      BY <1>12, <1>13, <2>7, <3>2
    <3> QED
      BY <3>1, <3>2
  <2>8. \A e \in Records : e \in Items(jx, rk1, V) <=> e \in Items(ix, rk, T) \/ e = r
    <3>1. ASSUME NEW e \in Records, e \in Items(ix, rk, T) \/ e = r PROVE e \in Items(jx, rk1, V)
      BY <2>5, <2>6, <3>1 DEF Items
    <3>2. ASSUME NEW e \in Records, e \in Items(jx, rk1, V) PROVE e \in Items(ix, rk, T) \/ e = r
      BY <2>7, <3>2 DEF Items
    <3> QED
      BY <3>1, <3>2
  <2>9. Items(jx, rk1, V) \subseteq Records /\ Items(ix, rk, T) \subseteq Records
    BY DEF Items
  <2> QED
    BY <2>1, <2>8, <2>9
<1>19. key \in Keys
  <2>1. all[mid + 1] \in Records
    BY <1>8, <1>11, ElementOfSeq
  <2> QED
    BY <2>1, RecordKeys DEF LeafDivided
<1>20. Waiting(jx, m, rk1, V, root, page, m, key, whole, s \union {r})
  <2>1. page \in V /\ m \in V /\ m # root /\ rk1[page] = rk1[m] /\ Par(jx, m) = Par(jx, page)
    BY <1>2, <1>12, <1>14
  <2> QED
    BY <1>12, <1>15, <1>16, <1>17, <1>18, <1>19, <2>1 DEF Waiting
<1> QED
  BY <1>10, <1>20 DEF LeafHalved

-----------------------------------------------------------------------------
\* The same leaves have the same entries.
LEMMA ItemsSame ==
  ASSUME NEW ix, NEW jx, NEW rk, NEW rk1, NEW T, NEW T1,
         \A p : (p \in T1 /\ rk1[p] = 0) <=> (p \in T /\ rk[p] = 0),
         \A p \in T : rk[p] = 0 => jx.node[p].entries = ix.node[p].entries
  PROVE  Items(jx, rk1, T1) = Items(ix, rk, T)
<1>1. ASSUME NEW p, p \in T, rk[p] = 0
      PROVE  Num(jx, p) = Num(ix, p) /\ \A i : Item(jx, p, i) = Item(ix, p, i)
  BY <1>1 DEF Num, Item
<1>2. ASSUME NEW e \in Records PROVE e \in Items(jx, rk1, T1) <=> e \in Items(ix, rk, T)
  BY <1>1 DEF Items
<1> QED
  BY <1>2 DEF Items

\* What a waiting half, and its left, are.
LEMMA WaitingFacts ==
  ASSUME NEW ix, NEW n, NEW rk, NEW T, NEW root, NEW left, NEW X, NEW key, NEW whole, NEW s,
         Waiting(ix, n, rk, T, root, left, X, key, whole, s)
  PROVE  /\ Tree(ix, n, rk) /\ T \subseteq 1 .. n /\ Family(ix, rk, T, root, X)
         /\ Par(ix, root) = NoPage /\ root \in T /\ NoPage \notin T /\ n \in Nat
         /\ \A p \in T : rk[p] <= rk[root] /\ rk[p] \in Nat /\ Num(ix, p) \in Nat
         /\ left \in T /\ X \in T /\ X # root /\ X # left /\ rk[left] = rk[X] /\ key \in Keys
         /\ Par(ix, left) = NoPage <=> left = root
         /\ Par(ix, left) # NoPage =>
               /\ Par(ix, left) \in T /\ rk[Par(ix, left)] # 0 /\ rk[X] + 1 = rk[Par(ix, left)]
               /\ left # root /\ Par(ix, left) # left /\ Par(ix, left) # X
               /\ \E i \in 0 .. Num(ix, Par(ix, left)) : Kid(ix, Par(ix, left), i) = left
<1>1. /\ Tree(ix, n, rk) /\ T \subseteq 1 .. n /\ Family(ix, rk, T, root, X)
      /\ Par(ix, root) = NoPage /\ \A p \in T : rk[p] <= rk[root]
      /\ left \in T /\ X \in T /\ X # root /\ X # left /\ rk[left] = rk[X] /\ key \in Keys
  BY DEF Waiting, Shape
<1>2. root \in T /\ NoPage \notin T /\ n \in Nat /\ \A p \in T : rk[p] \in Nat /\ Num(ix, p) \in Nat
  BY <1>1 DEF Family, Tree
<1>3. left # root => HasParent(ix, rk, T, left)
  BY <1>1 DEF Family
<1>4. left # root => /\ Par(ix, left) \in T /\ rk[Par(ix, left)] # 0
                     /\ \E i \in 0 .. Num(ix, Par(ix, left)) : Kid(ix, Par(ix, left), i) = left
  BY <1>3 DEF HasParent
<1>5. left # root => rk[left] + 1 = rk[Par(ix, left)]
  <2>1. \A p \in T : rk[p] # 0 => \A i \in 0 .. Num(ix, p) : IsChild(ix, rk, T, root, X, p, Kid(ix, p, i))
    BY <1>1 DEF Family
  <2>2. left # root => IsChild(ix, rk, T, root, X, Par(ix, left), left)
    BY <1>4, <2>1
  <2> QED
    BY <2>2 DEF IsChild
<1>6. Par(ix, left) = NoPage <=> left = root
  BY <1>1, <1>2, <1>4
<1>7. left # root => Par(ix, left) # left /\ Par(ix, left) # X
  BY <1>1, <1>2, <1>5
<1> QED
  BY <1>1, <1>2, <1>4, <1>5, <1>6, <1>7

\* The place that insertIntoParent takes.
PlaceOf(nd, left) == IF FindChildIndex(nd, left) < 0 THEN 0 ELSE FindChildIndex(nd, left)

LEMMA PlaceMeans ==
  ASSUME NEW n, NEW rk, NEW ix, Tree(ix, n, rk), NEW P \in 1 .. n, NEW left,
         \E i \in 0 .. Num(ix, P) : Kid(ix, P, i) = left
  PROVE  PlaceOf(ix.node[P], left) \in 0 .. Num(ix, P) /\ Kid(ix, P, PlaceOf(ix.node[P], left)) = left
<1> DEFINE k == FindChildIndex(ix.node[P], left)
<1>1. ix.node[P].entries \in Seq(Ents(n, rk, rk[P])) /\ Len(ix.node[P].entries) \in Nat
  BY PageFields
<1>2. /\ k \in -1 .. Num(ix, P)
      /\ k >= 0 => Kid(ix, P, k) = left
      /\ k < 0 => \A i \in 0 .. Num(ix, P) : Kid(ix, P, i) # left
  BY <1>1, ChildMeans DEF Num, Kid
<1>3. PlaceOf(ix.node[P], left) = IF k < 0 THEN 0 ELSE k
  BY DEF PlaceOf
<1> HIDE DEF k
<1>4. Num(ix, P) \in Nat
  BY <1>1 DEF Num
<1> QED
  BY <1>2, <1>3, <1>4

\* The parent has room for the half that waits.
LEMMA JoinGood ==
  ASSUME NEW ix, NEW n, NEW rk, NEW T, NEW root, NEW left, NEW X, NEW key, NEW whole, NEW s,
         Waiting(ix, n, rk, T, root, left, X, key, whole, s),
         NEW P, P = Par(ix, left), P # NoPage, Num(ix, P) < MaxKeys,
         NEW at, at = PlaceOf(ix.node[P], left), NEW jx, jx = JoinAt(ix, P, at, key, X)
  PROVE  Good(jx, n, rk, T, root, NoPage, whole, s) /\ jx.pins = ix.pins /\ jx.info = ix.info
<1>1. /\ Tree(ix, n, rk) /\ T \subseteq 1 .. n /\ Family(ix, rk, T, root, X)
      /\ Par(ix, root) = NoPage /\ root \in T /\ NoPage \notin T /\ n \in Nat
      /\ \A p \in T : rk[p] <= rk[root] /\ rk[p] \in Nat /\ Num(ix, p) \in Nat
      /\ left \in T /\ X \in T /\ X # root /\ X # left /\ rk[left] = rk[X] /\ key \in Keys
  BY WaitingFacts
<1>2. /\ P \in T /\ rk[P] # 0 /\ rk[X] + 1 = rk[P] /\ left # root /\ P # left /\ P # X
      /\ \E i \in 0 .. Num(ix, P) : Kid(ix, P, i) = left
  BY WaitingFacts
<1>3. at \in 0 .. Num(ix, P) /\ Kid(ix, P, at) = left
  BY <1>1, <1>2, PlaceMeans
<1>4. P \in 1 .. n /\ X \in Below(n, rk, rk[P])
  BY <1>1, <1>2 DEF Below
<1>5. Tree(jx, n, rk) /\ Joined(jx, ix, n, P, at, key, X)
  BY <1>1, <1>2, <1>3, <1>4, JoinEffect
<1>6. /\ Inserts(jx, ix, P, at, key, X) /\ SameChain(jx, ix, P)
      /\ \A q \in T : q # P => SameBody(jx, ix, q)
      /\ \A q \in T : Par(jx, q) = IF q = X THEN P ELSE Par(ix, q)
      /\ jx.pins = ix.pins /\ jx.info = ix.info
  BY <1>1, <1>5 DEF Joined
<1>7. ASSUME NEW q \in T, q # P
      PROVE  /\ Num(jx, q) = Num(ix, q) /\ SameKids(jx, ix, q) /\ SameKeys(jx, ix, q)
             /\ jx.node[q].entries = ix.node[q].entries
  <2>1. SameBody(jx, ix, q)
    BY <1>6, <1>7
  <2>2. /\ Num(jx, q) = Num(ix, q) /\ SameKids(jx, ix, q)
        /\ \A i \in 1 .. Num(ix, q) : Key(jx, q, i) = Key(ix, q, i)
    BY <2>1, SameBodyMeans
  <2>3. jx.node[q].entries = ix.node[q].entries
    BY <2>1 DEF SameBody
  <2> QED
    BY <2>2, <2>3 DEF SameKeys
<1>8. \A q \in T : SameChain(jx, ix, q)
  BY <1>6 DEF SameBody, SameChain
<1>9. Num(jx, P) = Num(ix, P) + 1 /\ GetsKid(jx, ix, P, at, X)
  BY <1>6 DEF Inserts, GetsKid
<1>10. Shape(jx, n, rk, T, root, NoPage)
  <2>1. Family(jx, rk, T, root, NoPage)
    <3>1. \A p \in T : p # P => Num(jx, p) = Num(ix, p)
      BY <1>7
    <3>2. \A p \in T : rk[p] # 0 /\ p # P => SameKids(jx, ix, p)
      BY <1>7
    <3>3. \A p \in T : Par(jx, p) = IF p = X THEN P ELSE Par(ix, p)
      BY <1>6
    <3> QED
      <4>1. Family(ix, rk, T, root, X) /\ X \in T /\ X # root /\ P \in T /\ rk[P] # 0 /\ rk[X] + 1 = rk[P]
        BY <1>1, <1>2
      <4>2. at \in 0 .. Num(ix, P) /\ GetsKid(jx, ix, P, at, X)
        BY <1>3, <1>9
      <4> QED
        BY <3>1, <3>2, <3>3, <4>1, <4>2, JoinFamily
  <2>2. Par(jx, root) = NoPage
    BY <1>1, <1>6
  <2> QED
    BY <1>1, <1>5, <2>1, <2>2 DEF Shape
<1>11. MaxKeys >= 2 => Filled(jx, rk, T, root, NoPage)
  <2>1. MaxKeys >= 2 => Filled(ix, rk, T, root, NoPage)
    BY DEF Waiting
  <2>2. \A p \in T : Num(jx, p) >= Num(ix, p) /\ Num(jx, p) \in Nat /\ p # NoPage
    BY <1>1, <1>2, <1>7, <1>9
  <2>3. \A p \in T : Need(rk, root, p) \in Nat
    BY MinKeysFits DEF Need, AtLeast
  <2> QED
    BY <1>1, <2>1, <2>2, <2>3 DEF Filled
<1>12. ASSUME Unique PROVE \E R : KeyedAs(jx, rk, T, root, R) /\ (whole => Chained(jx, rk, T, R))
  <2>1. PICK R : Keyed(ix, rk, T, root, left, X, key, R) /\ (whole => Chained(ix, rk, T, R))
    BY <1>12 DEF Waiting
  <2>2. KeyedAs(jx, rk, T, root, R)
    <3>1. \A p \in T : p # P => SameKeys(jx, ix, p) /\ SameKids(jx, ix, p)
      BY <1>7
    <3> QED
      BY <1>1, <1>2, <1>3, <1>6, <2>1, <3>1, KeyedJoin
  <2>3. whole => Chained(jx, rk, T, R)
    BY <1>8, <2>1, ChainedSame
  <2> QED
    BY <2>2, <2>3
<1>13. Items(jx, rk, T) = s
  <2>1. Items(jx, rk, T) = Items(ix, rk, T)
    BY <1>2, <1>7, ItemsSame
  <2> QED
    BY <2>1 DEF Waiting
<1> QED
  BY <1>6, <1>10, <1>11, <1>12, <1>13 DEF Good

\* The root was split: there is a new one.
LEMMA RootGood ==
  ASSUME NEW ix, NEW n, NEW rk, NEW T, NEW root, NEW left, NEW X, NEW key, NEW whole, NEW s,
         Waiting(ix, n, rk, T, root, left, X, key, whole, s), Par(ix, left) = NoPage,
         NEW call, call.info.height \in Nat, NEW m, NEW rk1, Grown(n, rk, rk[left] + 1, m, rk1),
         NEW jx, jx = NewRoot(ix, call, left, key, X), NEW V, V = T \union {m}
  PROVE  /\ Good(jx, m, rk1, V, m, NoPage, whole, s)
         /\ \A q \in 1 .. n : jx.pins[q] = ix.pins[q]
         /\ jx.pins[m] = 0
         /\ jx.info = [root |-> m, height |-> AtLeastOne(call.info.height) + 1]
<1>1. /\ Tree(ix, n, rk) /\ T \subseteq 1 .. n /\ Family(ix, rk, T, root, X)
      /\ Par(ix, root) = NoPage /\ root \in T /\ NoPage \notin T /\ n \in Nat
      /\ \A p \in T : rk[p] <= rk[root] /\ rk[p] \in Nat /\ Num(ix, p) \in Nat
      /\ left \in T /\ X \in T /\ X # root /\ X # left /\ rk[left] = rk[X] /\ key \in Keys
      /\ left = root
  BY WaitingFacts
<1>11. m = n + 1
  BY DEF Grown
<1>2. /\ rk1[m] = rk[root] + 1 /\ rk1[m] # 0 /\ rk[root] <= rk1[m] /\ rk1[m] \in Nat
      /\ \A p \in T : rk1[p] = rk[p]
  <2>1. rk1[m] = rk[root] + 1 /\ rk[root] \in Nat
    BY <1>1 DEF Grown
  <2>2. \A p \in T : rk1[p] = rk[p]
    BY <1>1 DEF Grown
  <2> QED
    BY <2>1, <2>2
<1>3. m \notin T /\ m # NoPage
  BY <1>1, <1>11 DEF NoPage
<1>4. /\ Tree(jx, m, rk1)
      /\ Rooted(jx, ix, n, m, left, key, X, AtLeastOne(call.info.height) + 1)
  BY <1>1, <1>11, RootEffect
<1>5. /\ Num(jx, m) = 1 /\ Kid(jx, m, 0) = root /\ Kid(jx, m, 1) = X /\ Key(jx, m, 1) = key
      /\ Par(jx, m) = NoPage
      /\ \A q \in T : SameBody(jx, ix, q)
      /\ \A q \in T : Par(jx, q) = IF q \in {root, X} THEN m ELSE Par(ix, q)
  BY <1>1, <1>4 DEF Rooted
<1>6. ASSUME NEW q \in T
      PROVE  /\ Num(jx, q) = Num(ix, q) /\ SameKids(jx, ix, q) /\ SameKeys(jx, ix, q)
             /\ jx.node[q].entries = ix.node[q].entries /\ SameChain(jx, ix, q)
  <2>1. SameBody(jx, ix, q)
    BY <1>5
  <2>2. /\ Num(jx, q) = Num(ix, q) /\ SameKids(jx, ix, q)
        /\ \A i \in 1 .. Num(ix, q) : Key(jx, q, i) = Key(ix, q, i)
    BY <2>1, SameBodyMeans
  <2>3. jx.node[q].entries = ix.node[q].entries /\ SameChain(jx, ix, q)
    BY <2>1 DEF SameBody, SameChain
  <2> QED
    BY <2>2, <2>3 DEF SameKeys
<1>7. Shape(jx, m, rk1, V, m, NoPage)
  <2>1. Family(jx, rk1, T \union {m}, m, NoPage)
    <3>1. \A p \in T : Num(jx, p) = Num(ix, p)
      BY <1>6
    <3>2. \A p \in T : rk[p] # 0 => SameKids(jx, ix, p)
      BY <1>6
    <3>3. rk[X] = rk[root]
      BY <1>1
    <3> QED
      <4>1. /\ Family(ix, rk, T, root, X) /\ X \in T /\ X # root
            /\ rk1[m] = rk[root] + 1 /\ \A p \in T : rk1[p] = rk[p]
        BY <1>1, <1>2
      <4>2. \A p \in T : Par(jx, p) = IF p \in {root, X} THEN m ELSE Par(ix, p)
        BY <1>5
      <4>3. Num(jx, m) = 1 /\ Kid(jx, m, 0) = root /\ Kid(jx, m, 1) = X
        BY <1>5
      <4> QED
        BY <1>3, <3>1, <3>2, <3>3, <4>1, <4>2, <4>3, RootFamily
  <2>2. \A p \in V : rk1[p] <= rk1[m]
    BY <1>1, <1>2
  <2>3. V \subseteq 1 .. m
    <3>1. (\A p \in 1 .. n : p \in 1 .. m) /\ m \in 1 .. m
      BY <1>1, <1>11
    <3> QED
      BY <1>1, <3>1
  <2> QED
    BY <1>4, <1>5, <2>1, <2>2, <2>3 DEF Shape
<1>8. MaxKeys >= 2 => Filled(jx, rk1, V, m, NoPage)
  <2>1. ASSUME MaxKeys >= 2 PROVE Filled(jx, rk1, V, m, NoPage)
    <3>1. Filled(ix, rk, T, root, NoPage) /\ Num(ix, root) >= AtLeast(rk[root])
      BY <1>1, <2>1 DEF Waiting
    <3>2. \A p \in T : p # NoPage /\ p # m
      BY <1>1, <1>3
    <3>3. ASSUME NEW p \in T PROVE Num(jx, p) + (IF p = NoPage THEN 1 ELSE 0) >= Need(rk1, m, p)
      <4>1. Need(rk1, m, p) = AtLeast(rk[p])
        BY <1>2, <3>2 DEF Need
      <4>2. p # root => Num(ix, p) + 0 >= AtLeast(rk[p])
        BY <3>1, <3>2 DEF Filled, Need
      <4>3. AtLeast(rk[p]) \in Nat
        BY MinKeysFits DEF AtLeast
      <4> QED
        BY <1>1, <1>6, <3>1, <3>2, <4>1, <4>2, <4>3
    <3>4. Num(jx, m) + (IF m = NoPage THEN 1 ELSE 0) >= Need(rk1, m, m)
      BY <1>1, <1>2, <1>3, <1>5 DEF Need
    <3> QED
      BY <3>3, <3>4 DEF Filled
  <2> QED
    BY <2>1
<1>9. ASSUME Unique PROVE \E R : KeyedAs(jx, rk1, V, m, R) /\ (whole => Chained(jx, rk1, V, R))
  <2>1. PICK R : Keyed(ix, rk, T, root, root, X, key, R) /\ (whole => Chained(ix, rk, T, R))
    BY <1>1, <1>9 DEF Waiting
  <2> DEFINE R1 == WithAll(R, T, m)
  <2>2. \A p \in T : R1[p] = R[p]
    BY <1>3 DEF WithAll
  <2> HIDE DEF R1
  <2>3. R1 = WithAll(R, T, m)
    BY DEF R1
  <2>4. KeyedAs(jx, rk1, T \union {m}, m, R1)
    <3>1. \A p \in T : SameKeys(jx, ix, p) /\ SameKids(jx, ix, p)
      BY <1>6
    <3> QED
      <4>1. Family(ix, rk, T, root, X) /\ X \in T /\ X # root /\ \A p \in T : rk1[p] = rk[p]
        BY <1>1, <1>2
      <4>2. Num(jx, m) = 1 /\ Kid(jx, m, 0) = root /\ Kid(jx, m, 1) = X /\ Key(jx, m, 1) = key
        BY <1>5
      <4> QED
        BY <1>3, <2>1, <2>3, <3>1, <4>1, <4>2, KeyedRoot
  <2>5. whole => Chained(jx, rk1, V, R1)
    <3>1. \A p : (p \in V /\ rk1[p] = 0) <=> (p \in T /\ rk[p] = 0)
      BY <1>1, <1>2
    <3> QED
      BY <1>6, <2>1, <2>2, <3>1, ChainedSame
  <2> QED
    BY <2>4, <2>5
<1>10. Items(jx, rk1, V) = s
  <2>1. \A p : (p \in V /\ rk1[p] = 0) <=> (p \in T /\ rk[p] = 0)
    BY <1>1, <1>2
  <2>2. Items(jx, rk1, V) = Items(ix, rk, T)
    BY <1>6, <2>1, ItemsSame
  <2> QED
    BY <2>2 DEF Waiting
<1> QED
  BY <1>4, <1>7, <1>8, <1>9, <1>10 DEF Good, Rooted

\* There is no page for the half that waits: it is lost, and its entries.
LEMMA LoseGood ==
  ASSUME NEW ix, NEW n, NEW rk, NEW T, NEW root, NEW left, NEW X, NEW key, NEW whole, NEW s,
         Waiting(ix, n, rk, T, root, left, X, key, whole, s), rk[X] <= 1,
         NEW U, U = T \ Lost(ix, rk, T, X)
  PROVE  \E t : Good(ix, n, rk, U, root, NoPage, FALSE, t) /\ t \subseteq s
<1>1. /\ Tree(ix, n, rk) /\ T \subseteq 1 .. n /\ Family(ix, rk, T, root, X)
      /\ Par(ix, root) = NoPage /\ root \in T /\ NoPage \notin T /\ n \in Nat
      /\ \A p \in T : rk[p] <= rk[root] /\ rk[p] \in Nat /\ Num(ix, p) \in Nat
      /\ left \in T /\ X \in T /\ X # root /\ X # left /\ rk[left] = rk[X] /\ key \in Keys
  BY WaitingFacts
<1>2. U \subseteq T
  OBVIOUS
<1>3. Shape(ix, n, rk, U, root, NoPage)
  <2>1. Family(ix, rk, U, root, NoPage)
    BY <1>1, LoseFamily
  <2> QED
    BY <1>1, <1>2, <2>1 DEF Shape
<1>4. MaxKeys >= 2 => Filled(ix, rk, U, root, NoPage)
  <2>1. MaxKeys >= 2 => Filled(ix, rk, T, root, NoPage)
    BY DEF Waiting
  <2> QED
    BY <1>2, <2>1 DEF Filled
<1>5. ASSUME Unique PROVE \E R : KeyedAs(ix, rk, U, root, R)
  <2>1. PICK R : Keyed(ix, rk, T, root, left, X, key, R)
    BY <1>5 DEF Waiting
  <2> DEFINE R1 == Regained(ix, rk, R, U, left, X)
  <2> HIDE DEF R1
  <2>2. R1 = Regained(ix, rk, R, U, left, X)
    BY DEF R1
  <2>3. KeyedAs(ix, rk, U, root, R1)
    BY <1>1, <2>1, <2>2, KeyedLose
  <2> QED
    BY <2>3
<1>6. Items(ix, rk, U) \subseteq s
  <2>1. Items(ix, rk, U) \subseteq Items(ix, rk, T)
    BY <1>2 DEF Items
  <2> QED
    BY <2>1 DEF Waiting
<1> QED
  BY <1>3, <1>4, <1>5, <1>6 DEF Good

-----------------------------------------------------------------------------
\* The entries of internal node P and (key, X), where they are divided, and the key there.
NodeDivided(ix, P, key, X, all, mid, up) ==
    /\ all = InsertAt(ix.node[P].entries, Upper(ix.node[P].entries, key), [key |-> key, child |-> X])
    /\ mid = Middle(all) /\ up = all[mid + 1].key

\* How many there are, and in each half.
Wides(ix, P, all, mid) ==
    /\ Len(all) = Num(ix, P) + 1 /\ Len(all) \in Nat /\ Len(all) >= 2
    /\ mid \in Nat \ {0} /\ mid < Len(all) /\ mid + 1 \in 1 .. Len(all) /\ Len(all) - mid - 1 \in Nat
    /\ MaxKeys >= 2 => mid >= AtLeast(1) /\ Len(all) - mid - 1 >= AtLeast(1)
    /\ MaxKeys % 2 = 0 => Len(all) <= MaxKeys + 1

LEMMA WidesOf ==
  ASSUME NEW n, NEW rk, NEW ix, Tree(ix, n, rk), NEW P \in 1 .. n, Num(ix, P) >= MaxKeys,
         NEW all, Len(all) = Num(ix, P) + 1, NEW mid, mid = Middle(all)
  PROVE  Wides(ix, P, all, mid)
<1>1. /\ Num(ix, P) \in Nat /\ (MaxKeys % 2 = 0 => Num(ix, P) <= MaxKeys)
  <2>1. ix.node[P].entries \in Lists(Ents(n, rk, rk[P])) /\ Len(ix.node[P].entries) \in Nat
    BY PageFields
  <2> QED
    BY <2>1 DEF Lists, Num
<1>2. MaxKeys \in Nat \ {0} /\ MinKeys \in Nat
  BY MinKeysFits
<1>3. Len(all) \in Nat /\ Len(all) >= 2 /\ Len(all) >= MaxKeys + 1
  BY <1>1, <1>2
<1>4. /\ mid \in Nat \ {0} /\ mid < Len(all) /\ mid + 1 \in 1 .. Len(all) /\ Len(all) - mid - 1 \in Nat
      /\ Len(all) >= 4 => Len(all) - mid - 1 >= 1
  <2>1. mid = Len(all) \div 2
    BY DEF Middle
  <2> QED
    BY <1>3, <2>1
<1>5. ASSUME MaxKeys % 2 = 0 PROVE mid >= AtLeast(1) /\ Len(all) - mid - 1 >= AtLeast(1)
  <2>1. Len(all) = 2 * MinKeys + 1
    BY <1>1, <1>2, <1>3, <1>5, MinKeysFits
  <2>2. mid = (2 * MinKeys + 1) \div 2
    BY <2>1 DEF Middle
  <2>3. mid = MinKeys
    BY <1>2, <2>2
  <2>4. AtLeast(1) = MinKeys
    BY <1>5 DEF AtLeast
  <2> QED
    BY <1>2, <2>1, <2>3, <2>4
<1>6. ASSUME MaxKeys % 2 # 0, MaxKeys >= 2 PROVE mid >= AtLeast(1) /\ Len(all) - mid - 1 >= AtLeast(1)
  <2>1. MaxKeys >= 3
    BY <1>2, <1>6
  <2>2. Len(all) >= 4
    BY <1>2, <1>3, <2>1
  <2>3. AtLeast(1) = 1
    BY <1>6 DEF AtLeast
  <2> QED
    BY <1>4, <2>2, <2>3
<1>7. MaxKeys % 2 = 0 => Len(all) <= MaxKeys + 1
  <2>1. ASSUME Num(ix, P) <= MaxKeys PROVE Len(all) <= MaxKeys + 1
    BY <1>1, <1>2, <2>1
  <2> QED
    BY <1>1, <2>1
<1> QED
  BY <1>3, <1>4, <1>5, <1>6, <1>7 DEF Wides

\* A full internal node is split.
Splits(jx, ix, vx, n, rk, P, key, X, at, all, mid, up, m, rk1) ==
    /\ at \in 0 .. Num(ix, P) /\ at + 1 = Upper(ix.node[P].entries, key)
    /\ Wides(ix, P, all, mid)
    /\ Inserts(vx, ix, P, at, key, X) /\ Num(vx, P) = Len(all)
    /\ \A q \in 1 .. n : q # P => vx.node[q] = ix.node[q]
    /\ \A q \in 1 .. n : Par(vx, q) = Par(ix, q)
    /\ Key(vx, P, mid + 1) = up /\ up \in Keys
    /\ Tree(jx, m, rk1) /\ NodeHalved(jx, vx, n, P, mid, m) /\ Par(jx, P) = Par(ix, P)
    /\ \A q \in 1 .. n : SameChain(jx, ix, q) /\ jx.pins[q] = ix.pins[q]
    /\ jx.pins[m] = 0 /\ jx.info = ix.info

LEMMA NodeSplits ==
  ASSUME NEW n, NEW rk, NEW ix, Tree(ix, n, rk), NEW P \in 1 .. n, rk[P] # 0, Num(ix, P) >= MaxKeys,
         NEW key \in Keys, NEW X \in Below(n, rk, rk[P]),
         NEW m, NEW rk1, Grown(n, rk, rk[P], m, rk1),
         NEW all, NEW mid, NEW up, NodeDivided(ix, P, key, X, all, mid, up),
         NEW vx, vx = Wide(ix, P, all), NEW jx, jx = NodeCut(ix, P, all),
         NEW at, at = Upper(ix.node[P].entries, key) - 1
  PROVE  Splits(jx, ix, vx, n, rk, P, key, X, at, all, mid, up, m, rk1)
<1> DEFINE E == Ents(n, rk, rk[P])
<1>1. ix.node[P].entries \in Seq(E) /\ Num(ix, P) = Len(ix.node[P].entries) /\ Num(ix, P) \in Nat
  BY PageFields DEF Num
<1>2. Upper(ix.node[P].entries, key) \in 1 .. Num(ix, P) + 1
  BY <1>1, UpperPlace
<1>3. at \in 0 .. Num(ix, P) /\ at + 1 = Upper(ix.node[P].entries, key)
  BY <1>1, <1>2
<1>4. all = InsertAt(ix.node[P].entries, at + 1, [key |-> key, child |-> X])
  BY <1>3 DEF NodeDivided
<1>5. /\ all \in Seq(E) /\ Len(all) = Num(ix, P) + 1
      /\ \A kx : kx.node[P].entries = all /\ kx.node[P].leftMost = ix.node[P].leftMost =>
               Inserts(kx, ix, P, at, key, X)
  BY <1>3, <1>4, InsertsEntry
<1>6. Wides(ix, P, all, mid)
  BY <1>5, WidesOf DEF NodeDivided
<1>7. /\ \A q \in 1 .. n : q # P => vx.node[q] = ix.node[q]
      /\ vx.node[P].entries = all /\ vx.node[P].leftMost = ix.node[P].leftMost
      /\ vx.node[P].parent = ix.node[P].parent
  BY WideMeans
<1>8. Inserts(vx, ix, P, at, key, X) /\ Num(vx, P) = Len(all)
  BY <1>5, <1>7 DEF Num
<1>9. \A q \in 1 .. n : Par(vx, q) = Par(ix, q)
  BY SMTT(40), <1>7 DEF Par
<1>10. Key(vx, P, mid + 1) = up
  BY <1>7 DEF Key, NodeDivided
<1>11. up \in Keys
  <2>1. all[mid + 1] \in E
    BY <1>5, <1>6, ElementOfSeq DEF Wides
  <2>2. n \in Nat /\ up = all[mid + 1].key
    BY DEF NodeDivided, Tree
  <2> QED
    BY <2>1, <2>2, EntryFields
<1>12. /\ Tree(jx, m, rk1) /\ NodeHalved(jx, vx, n, P, mid, m)
       /\ \A q \in 1 .. n : SameChain(jx, ix, q) /\ jx.pins[q] = ix.pins[q]
       /\ jx.pins[m] = 0 /\ jx.info = ix.info
  <2>1. m = n + 1
    BY DEF Grown
  <2>2. Len(all) >= 2 /\ (MaxKeys % 2 = 0 => Len(all) <= MaxKeys + 1)
    BY <1>6 DEF Wides
  <2>3. mid = Len(all) \div 2
    BY DEF NodeDivided, Middle
  <2> HIDE DEF E
  <2>4. all \in Seq(Ents(n, rk, rk[P]))
    BY <1>5 DEF E
  <2>5. NodeCutIs(jx, ix, vx, n, P, mid, m, rk1)
    BY <2>1, <2>2, <2>3, <2>4, NodeCutEffect
  <2> QED
    BY <2>5 DEF NodeCutIs
<1>13. Par(jx, P) = Par(ix, P)
  <2>1. ASSUME NEW i \in mid + 1 .. Num(vx, P) PROVE Kid(vx, P, i) # P
    <3>1. i \in 1 .. Len(all) /\ i # 0
      BY <1>6, <1>8, <2>1 DEF Wides
    <3>2. all[i] \in E
      BY <1>5, <3>1, ElementOfSeq
    <3>3. Kid(vx, P, i) = all[i].child
      BY <1>7, <3>1 DEF Kid, ChildAt
    <3>4. all[i].child \in Below(n, rk, rk[P])
      BY <3>2, EntryFields DEF Tree
    <3>5. rk[P] \in Nat
      BY PageFields
    <3> QED
      BY <3>3, <3>4, <3>5 DEF Below
  <2>2. Par(jx, P) = Par(vx, P)
    BY <1>12, <2>1 DEF NodeHalved
  <2> QED
    BY <1>9, <2>2
<1> QED
  BY <1>3, <1>6, <1>7, <1>8, <1>9, <1>10, <1>11, <1>12, <1>13 DEF Splits

\* The half that waits belongs where the search for its first key goes.
LEMMA UpperIsPlace ==
  ASSUME NEW n, NEW rk, NEW ix, Tree(ix, n, rk), NEW T, NEW root, NEW left, NEW X, NEW key, NEW R,
         Keyed(ix, rk, T, root, left, X, key, R), X # NoPage, key \in Int,
         NEW P \in 1 .. n, P \in T, rk[P] # 0,
         NEW i \in 0 .. Num(ix, P), Kid(ix, P, i) = left,
         NEW at, at + 1 = Upper(ix.node[P].entries, key), at \in 0 .. Num(ix, P)
  PROVE  i = at
<1>1. /\ Num(ix, P) \in Nat /\ Num(ix, P) = Len(ix.node[P].entries)
      /\ ix.node[P].entries \in Seq(Ents(n, rk, rk[P]))
  BY PageFields DEF Num
<1>2. /\ \A j \in 1 .. Num(ix, P) : j < at + 1 => ~(key < Key(ix, P, j))
      /\ at + 1 \in 1 .. Num(ix, P) => key < Key(ix, P, at + 1)
  <2> DEFINE u == at + 1
             t == ix.node[P].entries
  <2>1. /\ \A j \in 1 .. Len(t) : j < u => ~(key < t[j].key)
        /\ u \in 1 .. Len(t) => key < t[u].key
    <3>1. u = Upper(t, key)
      OBVIOUS
    <3> HIDE DEF u, t
    <3>2. t \in Seq(Ents(n, rk, rk[P]))
      BY <1>1 DEF t
    <3> QED
      BY <3>1, <3>2, UpperMeans
  <2> QED
    BY <1>1, <2>1 DEF Key
<1>3. /\ key \in R[X] /\ Sorted(ix, P)
      /\ \A x \in Int : x \in See(R, left, X, Kid(ix, P, i)) <=> Between(ix, R, P, i, x)
  BY DEF Keyed
<1>4. key \in See(R, left, X, left)
  BY <1>3 DEF See
<1>5. Between(ix, R, P, i, key)
  BY <1>3, <1>4
<1>6. (i # 0 => Key(ix, P, i) <= key) /\ (i # Num(ix, P) => key < Key(ix, P, i + 1))
  BY <1>5 DEF Between
<1>7. \A j \in 1 .. Num(ix, P) : Key(ix, P, j) \in Int
  <2>1. \A j \in 1 .. Num(ix, P) : Key(ix, P, j) \in Keys
    BY KidsOfPage
  <2> QED
    BY <2>1, IndexAssumption DEF Keys
<1>8. ~(i < at)
  <2>1. ASSUME i < at PROVE FALSE
    <3>1. i + 1 \in 1 .. Num(ix, P) /\ i + 1 < at + 1 /\ i # Num(ix, P)
      BY <1>1, <2>1
    <3> QED
      BY <1>2, <1>6, <3>1
  <2> QED
    BY <2>1
<1>9. ~(i > at)
  <2>1. ASSUME i > at PROVE FALSE
    <3>1. at + 1 \in 1 .. Num(ix, P) /\ at + 1 <= i /\ i \in 1 .. Num(ix, P) /\ i # 0
      BY <1>1, <2>1
    <3>2. key < Key(ix, P, at + 1) /\ Key(ix, P, i) <= key
      BY <1>2, <1>6, <3>1
    <3>3. at + 1 # i => Key(ix, P, at + 1) < Key(ix, P, i)
      BY <1>3, <3>1 DEF Sorted
    <3> QED
      BY <1>7, <3>1, <3>2, <3>3
  <2> QED
    BY <2>1
<1> QED
  BY <1>1, <1>8, <1>9

-----------------------------------------------------------------------------
\* A full parent of leaves is split, and its right half waits.
LEMMA NodeWaits ==
  ASSUME NEW ix, NEW n, NEW rk, NEW T, NEW root, NEW left, NEW X, NEW key, NEW whole, NEW s,
         Waiting(ix, n, rk, T, root, left, X, key, whole, s), rk[X] = 0,
         NEW P, P = Par(ix, left), P # NoPage,
         NEW m, NEW rk1, Grown(n, rk, rk[P], m, rk1), NEW all, NEW mid, NEW up, NEW at, NEW vx, NEW jx,
         Splits(jx, ix, vx, n, rk, P, key, X, at, all, mid, up, m, rk1),
         NEW V, V = T \union {m}
  PROVE  Waiting(jx, m, rk1, V, root, P, m, up, whole, s)
<1>1. /\ Tree(ix, n, rk) /\ T \subseteq 1 .. n /\ Family(ix, rk, T, root, X)
      /\ Par(ix, root) = NoPage /\ root \in T /\ NoPage \notin T /\ n \in Nat
      /\ \A p \in T : rk[p] <= rk[root] /\ rk[p] \in Nat /\ Num(ix, p) \in Nat
      /\ left \in T /\ X \in T /\ X # root /\ X # left /\ rk[left] = rk[X] /\ key \in Keys
  BY WaitingFacts
<1>2. /\ P \in T /\ rk[P] # 0 /\ rk[X] + 1 = rk[P] /\ left # root /\ P # left /\ P # X
      /\ \E i \in 0 .. Num(ix, P) : Kid(ix, P, i) = left
  BY WaitingFacts
<1>3. /\ at \in 0 .. Num(ix, P) /\ at + 1 = Upper(ix.node[P].entries, key)
      /\ Wides(ix, P, all, mid)
      /\ Inserts(vx, ix, P, at, key, X) /\ Num(vx, P) = Len(all)
      /\ \A q \in T : q # P => vx.node[q] = ix.node[q]
      /\ \A q \in T : Par(vx, q) = Par(ix, q)
      /\ Key(vx, P, mid + 1) = up /\ up \in Keys
      /\ Tree(jx, m, rk1) /\ NodeHalved(jx, vx, n, P, mid, m) /\ Par(jx, P) = Par(ix, P)
      /\ \A q \in T : SameChain(jx, ix, q)
  BY <1>1 DEF Splits
<1>4. /\ mid \in Nat \ {0} /\ mid < Num(vx, P) /\ Num(vx, P) - mid - 1 \in Nat
      /\ MaxKeys >= 2 => mid >= AtLeast(1) /\ Num(vx, P) - mid - 1 >= AtLeast(1)
  BY <1>3 DEF Wides
<1>5. m = n + 1
  BY DEF Grown
<1>6. m \notin T /\ m # NoPage
  BY <1>1, <1>5 DEF NoPage
<1>7. /\ rk1[m] = rk[P] /\ rk1[m] # 0 /\ rk1[P] = rk[P] /\ rk[P] = 1
      /\ \A p \in T : rk1[p] = rk[p]
  <2>1. rk1[m] = rk[P] /\ \A p \in T : rk1[p] = rk[p]
    BY <1>1 DEF Grown
  <2>2. rk[P] = 1
    BY <1>2
  <2> QED
    BY <1>2, <2>1, <2>2
<1>8. ASSUME NEW q \in T, q # P
      PROVE  /\ Num(vx, q) = Num(ix, q) /\ SameKids(vx, ix, q) /\ SameKeys(vx, ix, q)
             /\ Num(jx, q) = Num(vx, q) /\ SameKids(jx, vx, q) /\ SameKeys(jx, vx, q)
             /\ jx.node[q].entries = ix.node[q].entries
  <2>1. vx.node[q] = ix.node[q] /\ SameBody(jx, vx, q)
    BY <1>1, <1>3, <1>8 DEF NodeHalved
  <2>2. /\ Num(jx, q) = Num(vx, q) /\ SameKids(jx, vx, q)
        /\ \A i \in 1 .. Num(vx, q) : Key(jx, q, i) = Key(vx, q, i)
    BY <2>1, SameBodyMeans
  <2>3. SameNodeOf(vx, ix, q)
    BY <2>1, SameNode
  <2>4. jx.node[q].entries = ix.node[q].entries
    BY <2>1 DEF SameBody
  <2> QED
    BY <2>2, <2>3, <2>4 DEF SameKeys, SameNodeOf
<1>9. /\ Halved(jx, vx, P, m, mid)
      /\ \A i \in 1 .. mid : Key(jx, P, i) = Key(vx, P, i)
      /\ \A i \in 1 .. Num(vx, P) - mid - 1 : Key(jx, m, i) = Key(vx, P, mid + 1 + i)
      /\ \A i \in mid + 1 .. Num(vx, P) : Par(jx, Kid(vx, P, i)) = m
      /\ \A q \in T : (\A i \in mid + 1 .. Num(vx, P) : Kid(vx, P, i) # q) => Par(jx, q) = Par(vx, q)
  BY <1>1, <1>3 DEF NodeHalved
<1>10. Num(jx, P) = mid /\ Num(jx, m) = Num(vx, P) - mid - 1
  BY <1>9 DEF Halved
<1>11. Family(vx, rk, T, root, NoPage)
  <2>1. GetsKid(vx, ix, P, at, X)
    BY <1>3 DEF Inserts
  <2>2. \A p \in T : p # P => Num(vx, p) = Num(ix, p)
    BY <1>8
  <2>3. \A p \in T : rk[p] # 0 /\ p # P => SameKids(vx, ix, p)
    BY <1>8
  <2>4. Par(ix, X) = P
    BY DEF Waiting
  <2>5. \A p \in T : Par(vx, p) = IF p = X THEN P ELSE Par(ix, p)
    BY <1>3, <2>4
  <2>6. Family(ix, rk, T, root, X) /\ X \in T /\ X # root /\ P \in T /\ rk[P] # 0 /\ rk[X] + 1 = rk[P]
    BY <1>1, <1>2
  <2>7. at \in 0 .. Num(ix, P)
    BY <1>3
  <2> QED
    BY <2>1, <2>2, <2>3, <2>5, <2>6, <2>7, JoinFamily
<1>12. Family(jx, rk1, T \union {m}, root, m)
  <2>1. \A p \in T : p # P => Num(jx, p) = Num(vx, p)
    BY <1>8
  <2>2. \A p \in T : rk[p] # 0 /\ p # P => SameKids(jx, vx, p)
    BY <1>8
  <2>3. P \in T /\ rk[P] # 0 /\ mid \in Nat
    BY <1>2, <1>4
  <2> QED
    BY <1>4, <1>6, <1>7, <1>9, <1>11, <2>1, <2>2, <2>3, SplitFamily
<1>13. Shape(jx, m, rk1, V, root, m)
  <2>1. \A p \in V : rk1[p] <= rk1[root]
    BY <1>1, <1>2, <1>7
  <2>2. V \subseteq 1 .. m
    <3>1. (\A p \in 1 .. n : p \in 1 .. m) /\ m \in 1 .. m
      BY <1>1, <1>5
    <3> QED
      BY <1>1, <3>1
  <2>3. Par(jx, root) = NoPage
    <3>1. CASE root = P
      BY <1>1, <1>3, <3>1
    <3>2. CASE root # P
      <4>1. \A i \in mid + 1 .. Num(vx, P) : i \in 0 .. Num(vx, P)
        BY <1>4
      <4>2. \A i \in 0 .. Num(vx, P) : Kid(vx, P, i) # root
        BY <1>2, <1>11 DEF Family, IsChild
      <4>3. Par(jx, root) = Par(vx, root)
        BY <1>1, <1>9, <4>1, <4>2
      <4> QED
        BY <1>1, <1>3, <4>3
    <3> QED
      BY <3>1, <3>2
  <2> QED
    BY <1>3, <1>12, <2>1, <2>2, <2>3 DEF Shape
<1>14. MaxKeys >= 2 => Filled(jx, rk1, V, root, NoPage) /\ Num(jx, P) >= AtLeast(rk1[P])
  <2>1. ASSUME MaxKeys >= 2 PROVE Filled(jx, rk1, V, root, NoPage)
    <3>1. Filled(ix, rk, T, root, NoPage)
      BY <2>1 DEF Waiting
    <3>2. \A p \in T : Need(rk1, root, p) = Need(rk, root, p) /\ p # NoPage
      BY <1>1, <1>7 DEF Need
    <3>3. \A p \in T : p # P => Num(jx, p) = Num(ix, p)
      BY <1>8
    <3>4. mid >= Need(rk1, root, P) /\ Num(vx, P) - mid - 1 >= Need(rk1, root, m)
      <4>1. Need(rk1, root, P) \in {1, AtLeast(1)}
        BY <1>7 DEF Need
      <4>2. Need(rk1, root, m) = AtLeast(1)
        BY <1>1, <1>6, <1>7 DEF Need
      <4>3. mid >= 1
        BY <1>4
      <4> QED
        BY <1>4, <2>1, <4>1, <4>2, <4>3
    <3>5. \A p \in T : p # P => Num(jx, p) + 0 >= Need(rk1, root, p)
      BY <3>1, <3>2, <3>3 DEF Filled
    <3>6. Num(jx, P) + 0 >= Need(rk1, root, P) /\ Num(jx, m) + 0 >= Need(rk1, root, m)
      BY <1>4, <1>10, <3>4
    <3> QED
      BY <1>6, <3>2, <3>5, <3>6 DEF Filled
  <2>2. MaxKeys >= 2 => Num(jx, P) >= AtLeast(rk1[P])
    BY <1>4, <1>7, <1>10
  <2> QED
    BY <2>1, <2>2
<1>15. ASSUME Unique
       PROVE  \E R : Keyed(jx, rk1, V, root, P, m, up, R) /\ (whole => Chained(jx, rk1, V, R))
  <2>1. PICK R : Keyed(ix, rk, T, root, left, X, key, R) /\ (whole => Chained(ix, rk, T, R))
    BY <1>15 DEF Waiting
  <2>2. Kid(ix, P, at) = left
    <3>1. PICK i \in 0 .. Num(ix, P) : Kid(ix, P, i) = left
      BY <1>2
    <3>2. key \in Int /\ X # NoPage /\ P \in 1 .. n
      BY <1>1, <1>2, IndexAssumption DEF Keys
    <3>3. at + 1 = Upper(ix.node[P].entries, key) /\ at \in 0 .. Num(ix, P)
      BY <1>3
    <3>4. i = at
      BY <1>1, <1>2, <2>1, <3>1, <3>2, <3>3, UpperIsPlace
    <3> QED
      BY <3>1, <3>4
  <2>3. KeyedAs(vx, rk, T, root, R)
    <3>1. \A p \in T : p # P => SameKeys(vx, ix, p) /\ SameKids(vx, ix, p)
      BY <1>8
    <3>2. Family(ix, rk, T, root, X) /\ X \in T /\ X # left /\ X # root /\ left \in T /\ left # root
      BY <1>1, <1>2
    <3>3. P \in T /\ rk[P] # 0 /\ at \in 0 .. Num(ix, P) /\ Inserts(vx, ix, P, at, key, X)
      BY <1>2, <1>3
    <3> QED
      BY <2>1, <2>2, <3>1, <3>2, <3>3, KeyedJoin
  <2> DEFINE R1 == Divided(R, T, P, m, up)
  <2>4. \A p \in T : rk[p] = 0 => R1[p] = R[p]
    BY <1>2, <1>6 DEF Divided
  <2> HIDE DEF R1
  <2>5. R1 = Divided(R, T, P, m, up)
    BY DEF R1
  <2>6. Keyed(jx, rk1, T \union {m}, root, P, m, up, R1)
    <3>1. \A p \in T : p # P => SameKeys(jx, vx, p) /\ SameKids(jx, vx, p)
      BY <1>8
    <3>2. P \in T /\ rk[P] # 0 /\ mid \in Nat \ {0} /\ mid < Num(vx, P) /\ up = Key(vx, P, mid + 1)
      BY <1>2, <1>3, <1>4
    <3> QED
      BY <1>6, <1>7, <1>9, <1>11, <2>3, <2>5, <3>1, <3>2, KeyedNodeHalves
  <2>7. whole => Chained(jx, rk1, V, R1)
    <3>1. \A p : (p \in V /\ rk1[p] = 0) <=> (p \in T /\ rk[p] = 0)
      BY <1>7
    <3>2. \A p \in T : rk[p] = 0 => SameChain(jx, ix, p) /\ R1[p] = R[p]
      BY <1>3, <2>4
    <3> QED
      BY <2>1, <3>1, <3>2, ChainedSame
  <2> QED
    BY <2>6, <2>7
<1>16. Items(jx, rk1, V) = s
  <2>1. \A p : (p \in V /\ rk1[p] = 0) <=> (p \in T /\ rk[p] = 0)
    BY <1>7
  <2>2. \A p \in T : rk[p] = 0 => jx.node[p].entries = ix.node[p].entries
    BY <1>2, <1>8
  <2>3. Items(jx, rk1, V) = Items(ix, rk, T)
    BY <2>1, <2>2, ItemsSame
  <2> QED
    BY <2>3 DEF Waiting
<1>17. P \in V /\ m \in V /\ m # root /\ m # P /\ rk1[P] = rk1[m]
  BY <1>1, <1>2, <1>6, <1>7
<1> QED
  BY <1>3, <1>7, <1>13, <1>14, <1>15, <1>16, <1>17 DEF Waiting

-----------------------------------------------------------------------------
\* What is known when an insertion into an index of n pages ends: the tree is higher than three
\* levels, or more pages were needed than there were, or it is a tree with the entries s, or
\* with some of them if there was no page for one more node.
PinsOf(jx, m, ix, n) == \A q \in 1 .. m : jx.pins[q] = IF q <= n THEN ix.pins[q] ELSE 0
RootOf(jx, rk, root) == jx.info.root = root /\ jx.info.height = rk[root] + 1

Stands(jx, m, rk, T, ix, n, call, whole, s) ==
    /\ m >= n /\ PinsOf(jx, m, ix, n) /\ RootOf(jx, rk, jx.info.root)
    /\ \/ Good(jx, m, rk, T, jx.info.root, NoPage, whole, s)
       \/ /\ Size(jx) >= call.limit
          /\ \E t : t \subseteq s /\ Good(jx, m, rk, T, jx.info.root, NoPage, FALSE, t)
Grows(jx, ix, n, call, whole, s) ==
    \/ jx.info.height > 3
    \/ Size(jx) >= call.limit /\ call.limit > n + 2
    \/ \E m, rk, T : Stands(jx, m, rk, T, ix, n, call, whole, s)

\* The turns of insertIntoParent: the half of a leaf waits, or that of a parent of leaves, or that
\* of a root above these, for which there will be a fourth level.
Climbing(l, m, rk, T, root, ix, n, whole, s) ==
    /\ Waiting(l.index, m, rk, T, root, l.left, l.right, l.key, whole, s)
    /\ PinsOf(l.index, m, ix, n) /\ RootOf(l.index, rk, root) /\ l.index.info = ix.info
First(l, ix, n, whole, s) ==
    ~l.ended /\ \E rk, T, root : /\ Climbing(l, n + 1, rk, T, root, ix, n, whole, s)
                                 /\ rk[l.right] = 0 /\ rk[root] <= 2
Second(l, ix, n, whole, s) ==
    ~l.ended /\ \E rk, T, root : /\ Climbing(l, n + 2, rk, T, root, ix, n, whole, s)
                                 /\ rk[l.right] = 1 /\ rk[root] <= 2
Third(l, ix, n, call) ==
    ~l.ended /\ call.limit > n + 2 /\ l.index.info.height = 3 /\ l.index.info = ix.info /\ Par(l.index, l.left) = NoPage
    /\ \E rk : /\ Tree(l.index, n + 3, rk) /\ rk[l.left] = rk[l.right] /\ l.key \in Keys
               /\ l.left \in 1 .. n + 3 /\ l.right \in 1 .. n + 3
EndsWith(l, ix, n, call, whole, s) == l.ended /\ Grows(l.index, ix, n, call, whole, s)

LEMMA AtParentIs ==
  ASSUME NEW ix, NEW call, NEW left, NEW key, NEW right, NEW P, P = Par(ix, left),
         NEW all, NEW mid, NEW up, NodeDivided(ix, P, key, right, all, mid, up)
  PROVE  /\ P = NoPage => AtParent(ix, call, left, key, right) =
                             Ended(IF CanAlloc(ix, call) THEN NewRoot(ix, call, left, key, right) ELSE ix)
         /\ P # NoPage /\ Num(ix, P) < MaxKeys => AtParent(ix, call, left, key, right) =
                             Ended(JoinAt(ix, P, PlaceOf(ix.node[P], left), key, right))
         /\ P # NoPage /\ ~(Num(ix, P) < MaxKeys) => AtParent(ix, call, left, key, right) =
                             IF ~CanAlloc(ix, call) THEN Ended(ix)
                             ELSE GoesUp(NodeCut(ix, P, all), P, up, NewPage(ix))
<1>1. P = ix.node[left].parent
  BY DEF Par
<1>2. all = InsertAt(ix.node[P].entries, Upper(ix.node[P].entries, key), [key |-> key, child |-> right])
      /\ mid = Len(all) \div 2 /\ up = all[mid + 1].key
  BY DEF NodeDivided, Middle
<1>3. ASSUME P = NoPage
      PROVE  AtParent(ix, call, left, key, right) =
                Ended(IF CanAlloc(ix, call) THEN NewRoot(ix, call, left, key, right) ELSE ix)
  BY <1>1, <1>3 DEF AtParent
<1>4. ASSUME P # NoPage, Num(ix, P) < MaxKeys
      PROVE  AtParent(ix, call, left, key, right) =
                Ended(JoinAt(ix, P, PlaceOf(ix.node[P], left), key, right))
  <2>1. HasRoom(ix.node[P])
    BY <1>4 DEF HasRoom, Num
  <2> QED
    BY <1>1, <1>4, <2>1 DEF AtParent, JoinAt, PlaceOf, WithEntries, WithParent
<1>5. ASSUME P # NoPage, ~(Num(ix, P) < MaxKeys)
      PROVE  AtParent(ix, call, left, key, right) = SplitInternalAndInsert(ix, call, P, key, right)
  <2>1. ~HasRoom(ix.node[P])
    BY <1>5 DEF HasRoom, Num
  <2> QED
    BY <1>1, <1>5, <2>1 DEF AtParent
<1>6. SplitInternalAndInsert(ix, call, P, key, right) =
         IF ~CanAlloc(ix, call) THEN Ended(ix)
         ELSE GoesUp(NodeCut(ix, P, all), P, up, NewPage(ix))
  BY <1>2 DEF SplitInternalAndInsert, NodeCut, NewInternal, WithEntries
<1> QED
  BY <1>3, <1>4, <1>5, <1>6

LEMMA GoodWeaker ==
  ASSUME NEW ix, NEW n, NEW rk, NEW T, NEW root, NEW thin, NEW whole, NEW s,
         Good(ix, n, rk, T, root, thin, whole, s)
  PROVE  Good(ix, n, rk, T, root, thin, FALSE, s)
BY DEF Good

\* A turn that finds a root, or room, ends it.
LEMMA TurnEnds ==
  ASSUME NEW ix, NEW n \in Nat, NEW call, NEW whole, NEW s, NEW l, NEW m, NEW rk, NEW T, NEW root, m >= n,
         Climbing(l, m, rk, T, root, ix, n, whole, s), rk[l.right] <= 1, call.info = ix.info, call.limit \in Int,
         NEW P, P = Par(l.index, l.left),
         P = NoPage \/ Num(l.index, P) < MaxKeys \/ ~CanAlloc(l.index, call)
  PROVE  EndsWith(AtParent(l.index, call, l.left, l.key, l.right), ix, n, call, whole, s)
<1> DEFINE jx == l.index
           left == l.left
           key == l.key
           X == l.right
           all == InsertAt(jx.node[P].entries, Upper(jx.node[P].entries, key), [key |-> key, child |-> X])
           mid == Middle(all)
           up == all[mid + 1].key
           end == AtParent(jx, call, left, key, X)
<1>1. NodeDivided(jx, P, key, X, all, mid, up)
  BY DEF NodeDivided
<1> HIDE DEF all, mid, up
<1>2. /\ P = NoPage => end = Ended(IF CanAlloc(jx, call) THEN NewRoot(jx, call, left, key, X) ELSE jx)
      /\ P # NoPage /\ Num(jx, P) < MaxKeys => end = Ended(JoinAt(jx, P, PlaceOf(jx.node[P], left), key, X))
      /\ P # NoPage /\ ~(Num(jx, P) < MaxKeys) /\ ~CanAlloc(jx, call) => end = Ended(jx)
  BY <1>1, AtParentIs
<1> HIDE DEF end
<1>3. /\ Waiting(jx, m, rk, T, root, left, X, key, whole, s)
      /\ PinsOf(jx, m, ix, n) /\ jx.info.root = root /\ jx.info.height = rk[root] + 1
      /\ jx.info = ix.info
  BY DEF Climbing, RootOf
<1> HIDE DEF jx, left, key, X
<1>4. /\ Tree(jx, m, rk) /\ root \in T /\ m \in Nat /\ X \in T /\ left \in T
      /\ \A p \in T : rk[p] \in Nat
      /\ P = NoPage <=> left = root
  BY <1>3, WaitingFacts DEF jx, left
<1>5. \A kx : Ended(kx).ended /\ Ended(kx).index = kx
  BY DEF Ended
<1>6. CASE P = NoPage /\ CanAlloc(jx, call)
  <2> DEFINE kx == NewRoot(jx, call, left, key, X)
             m1 == m + 1
             V == T \union {m1}
  <2>1. PICK rk1 : Grown(m, rk, rk[left] + 1, m1, rk1)
    <3>1. rk \in [1 .. m -> Nat] /\ rk[left] + 1 \in Nat
      BY <1>4 DEF Tree
    <3> QED
      BY <1>4, <3>1, CanGrow
  <2>2. call.info.height \in Nat /\ call.info.height = rk[root] + 1
    BY <1>3, <1>4 DEF jx
  <2>3. end = Ended(kx)
    BY <1>2, <1>6
  <2>9. m1 = m + 1 /\ V = T \union {m1}
    OBVIOUS
  <2>10. kx = NewRoot(jx, call, left, key, X)
    OBVIOUS
  <2> HIDE DEF kx, m1, V
  <2>4. /\ Good(kx, m1, rk1, V, m1, NoPage, whole, s)
        /\ \A q \in 1 .. m : kx.pins[q] = jx.pins[q]
        /\ kx.pins[m1] = 0
        /\ kx.info = [root |-> m1, height |-> AtLeastOne(call.info.height) + 1]
    <3>1. Par(jx, left) = NoPage
      BY <1>6 DEF jx, left
    <3> QED
      BY <1>3, <2>1, <2>2, <2>9, <2>10, <3>1, RootGood
  <2>5. kx.info.root = m1 /\ kx.info.height = rk1[m1] + 1
    <3>1. AtLeastOne(call.info.height) = rk[root] + 1
      BY <1>4, <2>2 DEF AtLeastOne
    <3>2. rk1[m1] = rk[root] + 1
      BY <1>4, <1>6, <2>1 DEF Grown
    <3> QED
      BY <2>4, <3>1, <3>2
  <2>6. PinsOf(kx, m1, ix, n)
    <3>1. ASSUME NEW q \in 1 .. m1 PROVE kx.pins[q] = IF q <= n THEN ix.pins[q] ELSE 0
      <4>1. CASE q = m1
        BY <1>4, <2>4, <2>9, <4>1
      <4>2. CASE q # m1
        <5>1. q \in 1 .. m
          BY <1>4, <2>9, <4>2
        <5> QED
          BY <1>3, <2>4, <5>1 DEF PinsOf
      <4> QED
        BY <4>1, <4>2
    <3> QED
      BY <3>1 DEF PinsOf
  <2>7. m1 >= n
    BY <1>4, <2>9
  <2>8. Stands(kx, m1, rk1, V, ix, n, call, whole, s)
    BY <2>4, <2>5, <2>6, <2>7 DEF Stands, RootOf
  <2> QED
    BY <1>5, <2>3, <2>8 DEF EndsWith, Grows, end, jx, left, key, X
<1>7. CASE P # NoPage /\ Num(jx, P) < MaxKeys
  <2> DEFINE at == PlaceOf(jx.node[P], left)
             kx == JoinAt(jx, P, at, key, X)
  <2>1. end = Ended(kx)
    BY <1>2, <1>7
  <2>2. kx = JoinAt(jx, P, at, key, X) /\ at = PlaceOf(jx.node[P], left) /\ P = Par(jx, left)
    BY DEF jx, left
  <2> HIDE DEF kx, at
  <2>3. Good(kx, m, rk, T, root, NoPage, whole, s) /\ kx.pins = jx.pins /\ kx.info = jx.info
    BY <1>3, <1>7, <2>2, JoinGood
  <2>4. PinsOf(kx, m, ix, n)
    BY <1>3, <2>3 DEF PinsOf
  <2>5. Stands(kx, m, rk, T, ix, n, call, whole, s)
    BY <1>3, <2>3, <2>4 DEF Stands, RootOf
  <2> QED
    BY <1>5, <2>1, <2>5 DEF EndsWith, Grows, end, jx, left, key, X
<1>8. CASE end = Ended(jx) /\ ~CanAlloc(jx, call)
  <2> DEFINE U == T \ Lost(jx, rk, T, X)
  <2>4. U = T \ Lost(jx, rk, T, X)
    OBVIOUS
  <2> HIDE DEF U
  <2>1. PICK t : Good(jx, m, rk, U, root, NoPage, FALSE, t) /\ t \subseteq s
    <3>1. rk[X] <= 1
      BY DEF X
    <3> QED
      <4>1. Waiting(jx, m, rk, T, root, left, X, key, whole, s)
        BY <1>3
      <4> QED
        BY <2>4, <3>1, <4>1, LoseGood
  <2>2. Size(jx) >= call.limit
    <3>1. ~(Size(jx) < call.limit)
      BY <1>8 DEF CanAlloc
    <3>2. Size(jx) = m
      BY <1>4, SizeOf
    <3> QED
      BY <1>4, <3>1, <3>2
  <2>3. Stands(jx, m, rk, U, ix, n, call, whole, s)
    BY <1>3, <2>1, <2>2 DEF Stands, RootOf
  <2> QED
    BY <1>5, <1>8, <2>3 DEF EndsWith, Grows, end, jx, left, key, X
<1>9. P = NoPage \/ Num(jx, P) < MaxKeys \/ ~CanAlloc(jx, call)
  BY DEF jx
<1> QED
  BY <1>2, <1>6, <1>7, <1>8, <1>9

\* A parent that is full is split, and its right half goes up.
Splitting(k, l, m, rk, P, m1, rk1) ==
    /\ Grown(m, rk, rk[P], m1, rk1) /\ m1 = m + 1
    /\ k.left = P /\ k.right = m1 /\ ~k.ended
    /\ \E all, mid, at, vx :
          Splits(k.index, l.index, vx, m, rk, P, l.key, l.right, at, all, mid, k.key, m1, rk1)
LEMMA TurnSplits ==
  ASSUME NEW call, NEW l, NEW m \in Nat, NEW rk, Tree(l.index, m, rk), NEW P, P = Par(l.index, l.left),
         P # NoPage, P \in 1 .. m, ~(Num(l.index, P) < MaxKeys), CanAlloc(l.index, call),
         rk[P] # 0, l.right \in Below(m, rk, rk[P]), l.key \in Keys
  PROVE  \E m1, rk1 : Splitting(AtParent(l.index, call, l.left, l.key, l.right), l, m, rk, P, m1, rk1)
<1> DEFINE jx == l.index
           left == l.left
           key == l.key
           X == l.right
           all == InsertAt(jx.node[P].entries, Upper(jx.node[P].entries, key), [key |-> key, child |-> X])
           mid == Middle(all)
           up == all[mid + 1].key
           at == Upper(jx.node[P].entries, key) - 1
           vx == Wide(jx, P, all)
           kx == NodeCut(jx, P, all)
           m1 == m + 1
           k == AtParent(jx, call, left, key, X)
<1>1. NodeDivided(jx, P, key, X, all, mid, up)
  BY DEF NodeDivided
<1>2. vx = Wide(jx, P, all) /\ kx = NodeCut(jx, P, all) /\ at = Upper(jx.node[P].entries, key) - 1
      /\ m1 = m + 1
  OBVIOUS
<1> HIDE DEF all, mid, up, at, vx, kx, m1
<1>3. k = GoesUp(kx, P, up, NewPage(jx))
  BY <1>1, <1>2, AtParentIs
<1>4. NewPage(jx) = m1
  BY <1>2, SizeOf DEF NewPage
<1>5. PICK rk1 : Grown(m, rk, rk[P], m1, rk1)
  <2>1. rk \in [1 .. m -> Nat] /\ rk[P] \in Nat
    BY DEF Tree
  <2> QED
    BY <1>2, <2>1, CanGrow
<1>6. Num(jx, P) >= MaxKeys
  <2>1. Num(jx, P) \in Nat
    BY KidsOfPage
  <2> QED
    BY <2>1, MinKeysFits
<1>7. Splits(kx, jx, vx, m, rk, P, key, X, at, all, mid, up, m1, rk1)
  BY <1>1, <1>2, <1>5, <1>6, NodeSplits
<1>8. k.index = kx /\ k.left = P /\ k.right = m1 /\ k.key = up /\ ~k.ended
  BY <1>3, <1>4 DEF GoesUp
<1>9. Splitting(k, l, m, rk, P, m1, rk1)
  <2> HIDE DEF k
  <2> QED
    BY <1>2, <1>5, <1>7, <1>8 DEF Splitting
<1> QED
  BY <1>9

\* The half of a leaf finds its place, or the parent is split.
LEMMA FirstTurn ==
  ASSUME NEW ix, NEW n \in Nat, NEW call, NEW whole, NEW s, NEW l, First(l, ix, n, whole, s),
         call.info = ix.info, call.limit \in Int,
         NEW k, k = AtParent(l.index, call, l.left, l.key, l.right)
  PROVE  EndsWith(k, ix, n, call, whole, s) \/ (Second(k, ix, n, whole, s) /\ n >= 2)
<1>1. PICK rk, T, root : /\ Climbing(l, n + 1, rk, T, root, ix, n, whole, s)
                         /\ rk[l.right] = 0 /\ rk[root] <= 2
  BY DEF First
<1> DEFINE m == n + 1
           P == Par(l.index, l.left)
<1>2. /\ Waiting(l.index, m, rk, T, root, l.left, l.right, l.key, whole, s)
      /\ PinsOf(l.index, m, ix, n) /\ RootOf(l.index, rk, root) /\ l.index.info = ix.info
  BY <1>1 DEF Climbing
<1>3. CASE P = NoPage \/ Num(l.index, P) < MaxKeys \/ ~CanAlloc(l.index, call)
  BY <1>1, <1>3, TurnEnds
<1>4. CASE ~(P = NoPage \/ Num(l.index, P) < MaxKeys \/ ~CanAlloc(l.index, call))
  <2> HIDE DEF P, m
  <2>0. m = n + 1 /\ P = Par(l.index, l.left)
    BY DEF m, P
  <2>1. /\ Tree(l.index, m, rk) /\ T \subseteq 1 .. m /\ m \in Nat /\ l.key \in Keys
        /\ P \in T /\ rk[P] # 0 /\ rk[l.right] + 1 = rk[P] /\ l.right \in T /\ l.left \in T
        /\ P # l.left /\ P # l.right /\ l.right # l.left
    BY <1>2, <1>4, <2>0, WaitingFacts
  <2>2. P \in 1 .. m /\ l.right \in Below(m, rk, rk[P])
    BY <2>1 DEF Below
  <2>3. PICK m1, rk1 : Splitting(k, l, m, rk, P, m1, rk1)
    BY <1>4, <2>0, <2>1, <2>2, TurnSplits
  <2>4. PICK all, mid, at, vx :
           Splits(k.index, l.index, vx, m, rk, P, l.key, l.right, at, all, mid, k.key, m1, rk1)
    BY <2>3 DEF Splitting
  <2>5. Grown(m, rk, rk[P], m1, rk1) /\ m1 = m + 1 /\ k.left = P /\ k.right = m1 /\ ~k.ended
    BY <2>3 DEF Splitting
  <2>6. Waiting(k.index, m1, rk1, T \union {m1}, root, P, m1, k.key, whole, s)
    BY <1>1, <1>2, <1>4, <2>0, <2>4, <2>5, NodeWaits
  <2>7. /\ \A q \in 1 .. m : k.index.pins[q] = l.index.pins[q]
        /\ k.index.pins[m1] = 0 /\ k.index.info = ix.info
    BY <1>2, <2>4 DEF Splits
  <2>8. PinsOf(k.index, m1, ix, n)
    <3>1. ASSUME NEW q \in 1 .. m1 PROVE k.index.pins[q] = IF q <= n THEN ix.pins[q] ELSE 0
      <4>1. CASE q = m1
        BY <2>0, <2>5, <2>7, <4>1
      <4>2. CASE q # m1
        <5>1. q \in 1 .. m
          BY <2>0, <2>5, <4>2
        <5> QED
          BY <1>2, <2>7, <5>1 DEF PinsOf
      <4> QED
        BY <4>1, <4>2
    <3> QED
      BY <3>1 DEF PinsOf
  <2>9. rk1[m1] = 1 /\ rk1[root] = rk[root]
    <3>1. root \in 1 .. m
      BY <1>2, <2>1, WaitingFacts
    <3> QED
      BY <1>1, <2>1, <2>5, <3>1 DEF Grown
  <2>10. RootOf(k.index, rk1, root)
    BY <1>2, <2>7, <2>9 DEF RootOf
  <2>11. n >= 2
    <3>1. l.left \in 1 .. m /\ l.right \in 1 .. m /\ P \in 1 .. m
      BY <2>1
    <3> QED
      BY <2>0, <2>1, <3>1
  <2>12. m1 = n + 2
    BY <2>0, <2>5
  <2>13. Climbing(k, m1, rk1, T \union {m1}, root, ix, n, whole, s)
    BY <2>5, <2>6, <2>7, <2>8, <2>10 DEF Climbing
  <2>14. Second(k, ix, n, whole, s)
    BY <1>1, <2>5, <2>9, <2>12, <2>13 DEF Second
  <2> QED
    BY <2>11, <2>14
<1> QED
  BY <1>3, <1>4

\* The half of a parent of leaves finds its place, or the root above it is split.
LEMMA SecondTurn ==
  ASSUME NEW ix, NEW n \in Nat, NEW call, NEW whole, NEW s, NEW l, Second(l, ix, n, whole, s),
         call.info = ix.info, call.limit \in Int,
         NEW k, k = AtParent(l.index, call, l.left, l.key, l.right)
  PROVE  EndsWith(k, ix, n, call, whole, s) \/ Third(k, ix, n, call)
<1>1. PICK rk, T, root : /\ Climbing(l, n + 2, rk, T, root, ix, n, whole, s)
                         /\ rk[l.right] = 1 /\ rk[root] <= 2
  BY DEF Second
<1> DEFINE m == n + 2
           P == Par(l.index, l.left)
<1>2. /\ Waiting(l.index, m, rk, T, root, l.left, l.right, l.key, whole, s)
      /\ PinsOf(l.index, m, ix, n) /\ RootOf(l.index, rk, root) /\ l.index.info = ix.info
  BY <1>1 DEF Climbing
<1>3. CASE P = NoPage \/ Num(l.index, P) < MaxKeys \/ ~CanAlloc(l.index, call)
  BY <1>1, <1>3, TurnEnds
<1>4. CASE ~(P = NoPage \/ Num(l.index, P) < MaxKeys \/ ~CanAlloc(l.index, call))
  <2> HIDE DEF P, m
  <2>0. m = n + 2 /\ P = Par(l.index, l.left)
    BY DEF m, P
  <2>1. /\ Tree(l.index, m, rk) /\ T \subseteq 1 .. m /\ m \in Nat /\ l.key \in Keys
        /\ P \in T /\ rk[P] # 0 /\ rk[l.right] + 1 = rk[P] /\ l.right \in T
        /\ root \in T /\ Par(l.index, root) = NoPage /\ l.right # root
        /\ Family(l.index, rk, T, root, l.right)
        /\ \A p \in T : rk[p] <= rk[root] /\ rk[p] \in Nat
    BY <1>2, <1>4, <2>0, WaitingFacts
  <2>2. P \in 1 .. m /\ l.right \in Below(m, rk, rk[P])
    BY <2>1 DEF Below
  <2>3. PICK m1, rk1 : Splitting(k, l, m, rk, P, m1, rk1)
    BY <1>4, <2>0, <2>1, <2>2, TurnSplits
  <2>4. PICK all, mid, at, vx :
           Splits(k.index, l.index, vx, m, rk, P, l.key, l.right, at, all, mid, k.key, m1, rk1)
    BY <2>3 DEF Splitting
  <2>5. Grown(m, rk, rk[P], m1, rk1) /\ m1 = m + 1 /\ k.left = P /\ k.right = m1 /\ ~k.ended
    BY <2>3 DEF Splitting
  <2>6. P = root /\ rk[root] = 2
    <3>1. rk[P] = 2 /\ rk[root] = 2
      <4>1. rk[l.right] = 1 /\ rk[root] <= 2
        BY <1>1
      <4>2. rk[l.right] + 1 = rk[P] /\ rk[P] <= rk[root] /\ rk[root] \in Nat
        BY <2>1
      <4> QED
        BY <4>1, <4>2
    <3>2. ASSUME P # root PROVE FALSE
      <4>1. P # l.right
        BY <1>1, <3>1
      <4>2. HasParent(l.index, rk, T, P)
        BY <2>1, <3>2, <4>1 DEF Family
      <4> DEFINE Q == Par(l.index, P)
      <4>3. PICK i \in 0 .. Num(l.index, Q) : Kid(l.index, Q, i) = P
        BY <4>2 DEF HasParent
      <4>4. Q \in T /\ rk[Q] # 0
        BY <4>2 DEF HasParent
      <4>5. IsChild(l.index, rk, T, root, l.right, Q, Kid(l.index, Q, i))
        BY <2>1, <4>3, <4>4 DEF Family
      <4>6. rk[P] + 1 = rk[Q]
        BY <4>3, <4>5 DEF IsChild
      <4>7. rk[Q] <= rk[root] /\ rk[Q] \in Nat
        BY <2>1, <4>4
      <4> QED
        BY <3>1, <4>6, <4>7
    <3> QED
      BY <3>1, <3>2
  <2>7. /\ Tree(k.index, m1, rk1) /\ k.index.info = ix.info /\ k.key \in Keys
        /\ Par(k.index, P) = Par(l.index, P)
    BY <1>2, <2>4 DEF Splits
  <2>8. Par(k.index, P) = NoPage
    BY <2>1, <2>6, <2>7
  <2>9. k.index.info.height = 3
    BY <1>2, <2>6, <2>7 DEF RootOf
  <2>10. m1 = n + 3 /\ P \in 1 .. m1 /\ m1 \in 1 .. m1
    BY <2>0, <2>2, <2>5
  <2>11. rk1[P] = rk1[m1]
    BY <2>2, <2>5 DEF Grown
  <2>12. \E rk2 : /\ Tree(k.index, n + 3, rk2) /\ rk2[k.left] = rk2[k.right] /\ k.key \in Keys
                  /\ k.left \in 1 .. n + 3 /\ k.right \in 1 .. n + 3
    BY <2>5, <2>7, <2>10, <2>11
  <2>13. call.limit > n + 2
    BY <1>4, <2>0, <2>1, SizeOf DEF CanAlloc
  <2> QED
    BY <2>5, <2>7, <2>8, <2>9, <2>12, <2>13 DEF Third
<1> QED
  BY <1>3, <1>4

\* There is a fourth level, or no page for it.
LEMMA ThirdTurn ==
  ASSUME NEW ix, NEW n \in Nat, NEW call, NEW whole, NEW s, NEW l, Third(l, ix, n, call),
         call.info = ix.info, call.limit \in Int,
         NEW k, k = AtParent(l.index, call, l.left, l.key, l.right)
  PROVE  EndsWith(k, ix, n, call, whole, s)
<1> DEFINE P == Par(l.index, l.left)
           all == InsertAt(l.index.node[P].entries, Upper(l.index.node[P].entries, l.key),
                           [key |-> l.key, child |-> l.right])
           mid == Middle(all)
           up == all[mid + 1].key
           new == NewRoot(l.index, call, l.left, l.key, l.right)
<1>1. PICK rk : /\ Tree(l.index, n + 3, rk) /\ rk[l.left] = rk[l.right] /\ l.key \in Keys
                /\ l.left \in 1 .. n + 3 /\ l.right \in 1 .. n + 3
  BY DEF Third
<1>2. P = NoPage /\ call.info.height = 3
  BY DEF Third
<1>3. NodeDivided(l.index, P, l.key, l.right, all, mid, up)
  BY DEF NodeDivided
<1>4. k = Ended(IF CanAlloc(l.index, call) THEN new ELSE l.index)
  <2> HIDE DEF P, all, mid, up
  <2>1. P = Par(l.index, l.left)
    BY DEF P
  <2> QED
    BY <1>2, <1>3, <2>1, AtParentIs
<1>5. Size(l.index) = n + 3
  BY <1>1, SizeOf
<1>6. CASE CanAlloc(l.index, call)
  <2> DEFINE m == n + 3
             m1 == n + 4
  <2>1. PICK rk1 : Grown(m, rk, rk[l.left] + 1, m1, rk1)
    <3>1. m1 = m + 1 /\ m \in Nat /\ rk \in [1 .. m -> Nat] /\ rk[l.left] + 1 \in Nat
      BY <1>1 DEF Tree
    <3> HIDE DEF m, m1
    <3> QED
      BY <3>1, CanGrow
  <2>2. Rooted(new, l.index, m, m1, l.left, l.key, l.right, AtLeastOne(call.info.height) + 1)
    <3>1. m1 = m + 1 /\ call.info.height \in Nat
      BY <1>2
    <3>2. Tree(l.index, m, rk) /\ l.left \in 1 .. m /\ l.right \in 1 .. m
      BY <1>1
    <3> HIDE DEF m, m1
    <3> QED
      BY <1>1, <2>1, <3>1, <3>2, RootEffect
  <2>3. new.info.height = 4
    BY <1>2, <2>2 DEF Rooted, AtLeastOne
  <2> HIDE DEF new
  <2> QED
    BY <1>4, <1>6, <2>3 DEF EndsWith, Grows, Ended
<1>7. CASE ~CanAlloc(l.index, call)
  <2>1. Size(l.index) >= call.limit /\ call.limit > n + 2
    BY <1>5, <1>7 DEF CanAlloc, Third
  <2>2. k.index = l.index /\ k.ended
    BY <1>4, <1>7 DEF Ended
  <2> QED
    BY <2>1, <2>2 DEF EndsWith, Grows
<1> QED
  BY <1>6, <1>7

-----------------------------------------------------------------------------
\* What insertIntoParent returns is what the last of its turns has.
InsertLevels(f, last, first, call) ==
    f[0] = first /\ \A m \in 1 .. last : f[m] = InsertTurn(f[m - 1], call)
Inserted(ix, call, left, key, right) ==
    \E f : /\ InsertLevels(f, Size(ix), GoesUp(ix, left, key, right), call)
           /\ InsertIntoParent(ix, call, left, key, right) = f[Size(ix)].index

LEMMA InsertRuns ==
  ASSUME NEW n, NEW rk, NEW ix, Tree(ix, n, rk),
         NEW left \in 1 .. n, NEW right \in 1 .. n, rk[left] = rk[right], NEW key \in Keys,
         NEW call, call.info.height \in Nat
  PROVE  Inserted(ix, call, left, key, right)
<1> DEFINE last == Size(ix)
           first == GoesUp(ix, left, key, right)
           S == Climbs(0)
           G == [m \in 1 .. last |-> [l \in S |-> InsertTurn(l, call)]]
           f == CHOOSE f :
                  f = [m \in 0 .. last |-> IF m = 0 THEN first ELSE InsertTurn(f[m - 1], call)]
<1>1. last \in Nat /\ n >= 0
  BY SizeOf
<1>2. first \in S
  BY <1>1, GoesUpClimbs
<1>3. \A l \in S : InsertTurn(l, call) \in S
  BY InsertTurnClimbs
<1> HIDE DEF S, last, first
<1>4. G \in [1 .. last -> [S -> S]]
  BY <1>3
<1>5. \A l \in S : \A m \in 1 .. last : G[m][l] = InsertTurn(l, call)
  OBVIOUS
<1> HIDE DEF G
<1>6. PICK g \in [0 .. last -> S] :
        g[0] = first /\ \A m \in 1 .. last : g[m] = G[m][g[m - 1]]
  <2>1. Loops(S, first, last, G)
    BY <1>1, <1>2, <1>4, LoopExists
  <2> QED
    BY <2>1 DEF Loops
<1>7. g = [m \in 0 .. last |-> IF m = 0 THEN first ELSE InsertTurn(g[m - 1], call)]
  <2>1. ASSUME NEW m \in 0 .. last
        PROVE g[m] = IF m = 0 THEN first ELSE InsertTurn(g[m - 1], call)
    <3>1. m # 0 => m \in 1 .. last /\ g[m - 1] \in S
      BY <1>1
    <3> QED
      BY <1>5, <1>6, <3>1
  <2>2. g = [m \in 0 .. last |-> g[m]]
    OBVIOUS
  <2> QED
    BY <2>1, <2>2
<1>8. f = [m \in 0 .. last |-> IF m = 0 THEN first ELSE InsertTurn(f[m - 1], call)]
  BY <1>7
<1>9. InsertIntoParent(ix, call, left, key, right) = f[last].index
  BY DEF InsertIntoParent, InsertTurn, last, first
<1> HIDE DEF f
<1>10. InsertLevels(f, last, first, call)
  <2>1. f[0] = first
    BY <1>1, <1>8
  <2>2. \A m \in 1 .. last : m \in 0 .. last /\ m # 0
    BY <1>1
  <2>3. \A m \in 1 .. last : f[m] = InsertTurn(f[m - 1], call)
    BY <1>8, <2>2
  <2> QED
    BY <2>1, <2>3 DEF InsertLevels
<1> QED
  BY <1>9, <1>10 DEF Inserted, last, first

\* What has ended stays.
LEMMA StaysEnded ==
  ASSUME NEW f, NEW last \in Nat, NEW first, NEW call, InsertLevels(f, last, first, call),
         NEW a \in 0 .. last, f[a].ended
  PROVE  f[last] = f[a]
<1> DEFINE Q == {m \in 0 .. last : m >= a => f[m] = f[a]}
<1>1. 0 \in Q
  OBVIOUS
<1>2. ASSUME NEW m \in 1 .. last, m - 1 \in Q PROVE m \in Q
  <2>1. f[m] = InsertTurn(f[m - 1], call)
    BY DEF InsertLevels
  <2>2. CASE m <= a
    BY <2>2
  <2>3. CASE m > a
    <3>1. m - 1 >= a
      BY <2>3
    <3>2. f[m - 1] = f[a]
      BY <1>2, <3>1
    <3> QED
      BY <2>1, <3>2 DEF InsertTurn
  <2> QED
    BY <2>2, <2>3
<1>3. \A m \in 0 .. last : m \in Q
  <2> HIDE DEF Q
  <2> QED
    BY <1>1, <1>2, Counts
<1> QED
  BY <1>3

LEMMA IntoParentGrows ==
  ASSUME NEW ix, NEW n \in Nat, NEW call, NEW whole, NEW s, NEW jx, NEW left, NEW key, NEW right,
         First(GoesUp(jx, left, key, right), ix, n, whole, s),
         call.info = ix.info, call.limit \in Int
  PROVE  Grows(InsertIntoParent(jx, call, left, key, right), ix, n, call, whole, s)
<1> DEFINE first == GoesUp(jx, left, key, right)
           last == Size(jx)
<1>0. /\ first.index = jx /\ first.left = left /\ first.key = key /\ first.right = right
  BY DEF GoesUp
<1>1. PICK rk, T, root : /\ Climbing(first, n + 1, rk, T, root, ix, n, whole, s)
                         /\ rk[first.right] = 0 /\ rk[root] <= 2
  BY DEF First
<1>2. /\ Waiting(jx, n + 1, rk, T, root, left, right, key, whole, s)
      /\ jx.info.height = rk[root] + 1 /\ jx.info = ix.info
  BY <1>0, <1>1 DEF Climbing, RootOf
<1>3. /\ Tree(jx, n + 1, rk) /\ left \in 1 .. n + 1 /\ right \in 1 .. n + 1 /\ rk[left] = rk[right]
      /\ key \in Keys /\ rk[root] \in Nat
  BY <1>2, WaitingFacts
<1>4. last = n + 1 /\ call.info.height \in Nat
  BY <1>2, <1>3, SizeOf
<1>5. PICK f : /\ InsertLevels(f, last, first, call)
               /\ InsertIntoParent(jx, call, left, key, right) = f[last].index
  <2>1. Inserted(jx, call, left, key, right)
    BY <1>3, <1>4, InsertRuns
  <2> QED
    BY <2>1 DEF Inserted
<1> HIDE DEF first, last
<1>6. f[0] = first /\ f[1] = InsertTurn(f[0], call)
  <2>1. 1 \in 1 .. last /\ 1 - 1 = 0
    BY <1>4
  <2> QED
    BY <1>5, <2>1 DEF InsertLevels
<1>7. First(f[0], ix, n, whole, s)
  BY <1>6 DEF first
<1>8. f[1] = AtParent(f[0].index, call, f[0].left, f[0].key, f[0].right)
  BY <1>6, <1>7 DEF InsertTurn, First
<1>9. ASSUME NEW a \in 0 .. last, EndsWith(f[a], ix, n, call, whole, s)
      PROVE  Grows(InsertIntoParent(jx, call, left, key, right), ix, n, call, whole, s)
  <2>1. f[a].ended /\ Grows(f[a].index, ix, n, call, whole, s)
    BY <1>9 DEF EndsWith
  <2>2. f[last] = f[a]
    BY <1>4, <1>5, <2>1, StaysEnded
  <2> QED
    BY <1>5, <2>1, <2>2
<1>10. EndsWith(f[1], ix, n, call, whole, s) \/ (Second(f[1], ix, n, whole, s) /\ n >= 2)
  BY <1>7, <1>8, FirstTurn
<1>11. CASE EndsWith(f[1], ix, n, call, whole, s)
  BY <1>4, <1>9, <1>11
<1>12. CASE Second(f[1], ix, n, whole, s) /\ n >= 2
  <2>1. 2 \in 1 .. last /\ 3 \in 1 .. last /\ 2 - 1 = 1 /\ 3 - 1 = 2 /\ 2 \in 0 .. last /\ 3 \in 0 .. last
    BY <1>4, <1>12
  <2>2. f[2] = InsertTurn(f[1], call) /\ f[3] = InsertTurn(f[2], call)
    BY <1>5, <2>1 DEF InsertLevels
  <2>3. f[2] = AtParent(f[1].index, call, f[1].left, f[1].key, f[1].right)
    BY <1>12, <2>2 DEF InsertTurn, Second
  <2>4. EndsWith(f[2], ix, n, call, whole, s) \/ Third(f[2], ix, n, call)
    BY <1>12, <2>3, SecondTurn
  <2>5. ASSUME Third(f[2], ix, n, call) PROVE EndsWith(f[3], ix, n, call, whole, s)
    <3>1. f[3] = AtParent(f[2].index, call, f[2].left, f[2].key, f[2].right)
      BY <2>2, <2>5 DEF InsertTurn, Third
    <3> QED
      BY <2>5, <3>1, ThirdTurn
  <2> QED
    BY <1>9, <2>1, <2>4, <2>5
<1> QED
  BY <1>10, <1>11, <1>12

-----------------------------------------------------------------------------
LEMMA SplitLeafIs ==
  ASSUME NEW ix, NEW call, NEW page, NEW r, NEW all, NEW mid, NEW key,
         LeafDivided(ix, page, r, all, mid, key)
  PROVE  SplitLeafAndInsert(ix, call, page, r) =
             IF ~CanAlloc(ix, call) THEN ix
             ELSE InsertIntoParent(LeafCut(ix, page, all), call, page, key, NewPage(ix))
<1>1. all = InsertAt(ix.node[page].entries, Upper(ix.node[page].entries, r.key), r)
      /\ mid = Len(all) \div 2 /\ key = all[mid + 1].key
  BY DEF LeafDivided, Middle
<1> QED
  BY <1>1 DEF SplitLeafAndInsert, LeafCut, NewLeaf, WithEntries, WithNext

\* A full leaf is split for a record.
LEMMA SplitLeafGrows ==
  ASSUME NEW ix, NEW n, NEW rk, NEW T, NEW root, NEW whole, NEW s,
         Good(ix, n, rk, T, root, NoPage, whole, s), RootOf(ix, rk, root), rk[root] <= 2,
         NEW page \in T, rk[page] = 0, Num(ix, page) >= MaxKeys, NEW r \in Records,
         Fits(ix, rk, T, root, page, r.key), NEW call, call.info = ix.info, call.limit \in Int
  PROVE  Grows(SplitLeafAndInsert(ix, call, page, r), ix, n, call, whole, s \union {r})
<1>1. /\ Tree(ix, n, rk) /\ T \subseteq 1 .. n /\ root \in T /\ n \in Nat /\ Size(ix) = n
      /\ ix.info.root = root /\ rk \in [1 .. n -> Nat]
  <2>1. Tree(ix, n, rk) /\ T \subseteq 1 .. n /\ root \in T
    BY DEF Good, Shape, Family
  <2>2. n \in Nat /\ rk \in [1 .. n -> Nat]
    BY <2>1 DEF Tree
  <2> QED
    BY <2>1, <2>2, SizeOf DEF RootOf
<1>2. PICK all, mid, key : LeafDivided(ix, page, r, all, mid, key)
  BY DEF LeafDivided
<1>3. CASE ~CanAlloc(ix, call)
  <2>1. SplitLeafAndInsert(ix, call, page, r) = ix
    BY <1>2, <1>3, SplitLeafIs
  <2>2. Size(ix) >= call.limit
    BY <1>1, <1>3 DEF CanAlloc
  <2>3. Good(ix, n, rk, T, root, NoPage, FALSE, s)
    BY GoodWeaker
  <2>4. s \subseteq s \union {r} /\ n >= n /\ PinsOf(ix, n, ix, n) /\ RootOf(ix, rk, ix.info.root)
    BY <1>1 DEF PinsOf
  <2>5. Stands(ix, n, rk, T, ix, n, call, whole, s \union {r})
    BY <1>1, <2>2, <2>3, <2>4 DEF Stands
  <2> QED
    BY <2>1, <2>5 DEF Grows
<1>4. CASE CanAlloc(ix, call)
  <2>1. PICK m, rk1 : Grown(n, rk, 0, m, rk1)
    BY <1>1, CanGrow
  <2>2. m = n + 1
    BY <2>1 DEF Grown
  <2>20. PICK V, jx : V = T \union {m} /\ jx = LeafCut(ix, page, all)
    OBVIOUS
  <2>3. NewPage(ix) = m
    BY <1>1, <2>2 DEF NewPage
  <2>5. /\ Waiting(jx, m, rk1, V, root, page, m, key, whole, s \union {r})
        /\ \A q \in 1 .. n : jx.pins[q] = ix.pins[q]
        /\ jx.pins[m] = 0 /\ jx.info = ix.info
    BY SMTT(40), <1>2, <2>1, <2>20, SplitLeafWaits
  <2>6. PinsOf(jx, m, ix, n)
    <3>1. \A q \in 1 .. m : (q <= n /\ q \in 1 .. n) \/ (q = m /\ ~(q <= n))
      BY <1>1, <2>2
    <3> QED
      BY <2>5, <3>1 DEF PinsOf
  <2>7. rk1[root] = rk[root] /\ rk1[m] = 0
    BY <1>1, <2>1 DEF Grown
  <2>8. RootOf(jx, rk1, root)
    BY <2>5, <2>7 DEF RootOf
  <2> DEFINE l == GoesUp(jx, page, key, m)
  <2>9. l.index = jx /\ l.left = page /\ l.key = key /\ l.right = m /\ l.ended = FALSE
    BY DEF GoesUp
  <2> HIDE DEF l
  <2>10. Climbing(l, m, rk1, V, root, ix, n, whole, s \union {r})
    BY <2>5, <2>6, <2>8, <2>9 DEF Climbing
  <2>11. First(l, ix, n, whole, s \union {r})
    BY <2>2, <2>7, <2>9, <2>10 DEF First
  <2>12. Grows(InsertIntoParent(jx, call, page, key, m), ix, n, call, whole, s \union {r})
    BY <1>1, <2>11, IntoParentGrows DEF l
  <2> QED
    BY <1>2, <1>4, <2>20, <2>3, <2>12, SplitLeafIs
<1> QED
  BY <1>3, <1>4

-----------------------------------------------------------------------------
\* A search ends at a leaf, has no way down, or goes on at a child.
SearchesBy(ix, n, key, f) ==
    \A p \in 1 .. n :
        /\ FindLeafFrom(ix, p, key) = f[p]
        /\ f[p] = IF ix.node[p].kind = "leaf" THEN p
                  ELSE IF ix.node[p].entries = <<>> THEN NoPage
                  ELSE f[ChildAt(ix.node[p], Upper(ix.node[p].entries, key) - 1)]

LEMMA SearchFunction ==
  ASSUME NEW n, NEW rk, NEW ix, Tree(ix, n, rk), NEW key
  PROVE  \E f : SearchesBy(ix, n, key, f)
<1> DEFINE D == 1 .. n
           nd(p) == ix.node[p]
           stop == {p \in D : nd(p).kind = "leaf" \/ nd(p).entries = <<>>}
           base == [p \in D |-> IF nd(p).kind = "leaf" THEN p ELSE NoPage]
           down(p) == ChildAt(nd(p), Upper(nd(p).entries, key) - 1)
           next == [p \in D |-> IF p \in stop THEN p ELSE down(p)]
           S == {p \in 0 .. n : p = NoPage \/ rk[p] = 0}
           f == CHOOSE f : f = [p \in D |-> IF nd(p).kind = "leaf" THEN p
                                            ELSE IF nd(p).entries = <<>> THEN NoPage
                                            ELSE f[down(p)]]
<1>0. n \in Nat /\ rk \in [D -> Nat] /\ DOMAIN ix.node = D
  BY DEF Tree
<1>1. ASSUME NEW p \in D, p \notin stop PROVE down(p) \in D /\ rk[down(p)] < rk[p]
  <2>1. rk[p] # 0 /\ nd(p).kind # "leaf" /\ nd(p).entries # <<>>
    BY <1>1, PageFields
  <2>2. nd(p).entries \in Seq(Ents(n, rk, rk[p])) /\ Len(nd(p).entries) \in Nat
    BY PageFields
  <2>3. Upper(nd(p).entries, key) \in 1 .. Len(nd(p).entries) + 1
    BY <2>2, UpperPlace
  <2>4. Upper(nd(p).entries, key) - 1 \in 0 .. Len(nd(p).entries)
    <3>1. \A m \in Nat : \A u \in 1 .. m + 1 : u - 1 \in 0 .. m
      OBVIOUS
    <3> QED
      BY <2>2, <2>3, <3>1
  <2>5. down(p) \in Below(n, rk, rk[p])
    BY <2>1, <2>4, Neighbours
  <2> HIDE DEF down
  <2> QED
    BY <1>0, <2>5 DEF Below
<1> HIDE DEF down
<1>2. /\ stop \in SUBSET D
      /\ next \in [D -> D]
      /\ \A p \in D \ stop : rk[next[p]] < rk[p]
  BY <1>1
<1>3. \A p \in stop : base[p] \in S
  <2>1. ASSUME NEW p \in stop PROVE base[p] \in S
    <3>1. CASE nd(p).kind = "leaf"
      <4>1. rk[p] = 0
        BY <3>1, PageFields
      <4> QED
        BY <1>0, <3>1, <4>1
    <3>2. CASE nd(p).kind # "leaf"
      BY <1>0, <3>2 DEF NoPage
    <3> QED
      BY <3>1, <3>2
  <2> QED
    BY <2>1
<1>4. \A h : \A p \in D : (IF p \in stop THEN base[p] ELSE h[next[p]])
        = IF nd(p).kind = "leaf" THEN p ELSE IF nd(p).entries = <<>> THEN NoPage ELSE h[down(p)]
  OBVIOUS
<1> HIDE DEF D, stop, base, next, S
<1>5. PICK g \in [D -> S] : \A p \in D : g[p] = IF p \in stop THEN base[p] ELSE g[next[p]]
  <2>1. Descends(D, rk, stop, next)
    BY <1>0, <1>2 DEF Descends
  <2>2. Carries(D, stop, base, next, S)
    BY <1>3, <2>1, DescentExists
  <2> QED
    BY <2>2 DEF Carries
<1>6. g = [p \in D |-> IF nd(p).kind = "leaf" THEN p
                       ELSE IF nd(p).entries = <<>> THEN NoPage ELSE g[down(p)]]
  <2> HIDE DEF f, nd
  <2>1. \A p \in D : g[p] = IF nd(p).kind = "leaf" THEN p
                            ELSE IF nd(p).entries = <<>> THEN NoPage ELSE g[down(p)]
    BY <1>4, <1>5
  <2>2. g = [p \in D |-> g[p]]
    BY <1>5
  <2> QED
    BY <2>1, <2>2
<1>7. f = [p \in D |-> IF nd(p).kind = "leaf" THEN p
                       ELSE IF nd(p).entries = <<>> THEN NoPage ELSE f[down(p)]]
  BY <1>6
<1>8. \A p \in D : FindLeafFrom(ix, p, key) = f[p]
  BY <1>0 DEF FindLeafFrom, down
<1> HIDE DEF f
<1>9. \A p \in D : f[p] = IF nd(p).kind = "leaf" THEN p
                          ELSE IF nd(p).entries = <<>> THEN NoPage ELSE f[down(p)]
  <2> HIDE DEF nd
  <2> QED
    BY <1>7, ZenonT(30)
<1>10. SearchesBy(ix, n, key, f)
  BY <1>8, <1>9 DEF SearchesBy, D, down
<1> QED
  BY <1>10

\* One step of a search.
LEMMA SearchStep ==
  ASSUME NEW n, NEW rk, NEW ix, Tree(ix, n, rk), NEW key, NEW f, SearchesBy(ix, n, key, f),
         NEW p \in 1 .. n
  PROVE  /\ rk[p] = 0 => f[p] = p
         /\ rk[p] # 0 /\ f[p] # NoPage => Num(ix, p) # 0
         /\ rk[p] # 0 /\ Num(ix, p) = 0 => f[p] = NoPage
         /\ rk[p] # 0 /\ Num(ix, p) # 0 =>
               \E i \in 0 .. Num(ix, p) :
                  /\ f[p] = f[Kid(ix, p, i)]
                  /\ \A j \in 1 .. Num(ix, p) : j <= i => ~(key < Key(ix, p, j))
                  /\ i # Num(ix, p) => key < Key(ix, p, i + 1)
<1>1. /\ ix.node[p].entries \in Seq(Ents(n, rk, rk[p])) /\ Num(ix, p) = Len(ix.node[p].entries)
      /\ Num(ix, p) \in Nat /\ rk[p] \in Nat
      /\ ix.node[p].kind = IF rk[p] = 0 THEN "leaf" ELSE "internal"
  BY PageFields DEF Num
<1>2. ix.node[p].entries = <<>> <=> Num(ix, p) = 0
  BY <1>1, EmptySeq
<1>3. /\ rk[p] = 0 => f[p] = p
      /\ rk[p] # 0 /\ Num(ix, p) = 0 => f[p] = NoPage
      /\ rk[p] # 0 /\ Num(ix, p) # 0 =>
            f[p] = f[ChildAt(ix.node[p], Upper(ix.node[p].entries, key) - 1)]
  BY <1>1, <1>2 DEF SearchesBy
<1>4. \E i \in 0 .. Num(ix, p) :
         /\ i = Upper(ix.node[p].entries, key) - 1
         /\ \A j \in 1 .. Num(ix, p) : j <= i => ~(key < Key(ix, p, j))
         /\ i # Num(ix, p) => key < Key(ix, p, i + 1)
  <2> DEFINE t == ix.node[p].entries
             u == Upper(t, key)
  <2>1. u = Upper(t, key) /\ t \in Seq(Ents(n, rk, rk[p])) /\ Len(t) = Num(ix, p)
        /\ \A j : Key(ix, p, j) = t[j].key
    BY <1>1 DEF Key
  <2> HIDE DEF t, u
  <2>2. /\ u \in 1 .. Len(t) + 1
        /\ \A j \in 1 .. Len(t) : j < u => ~(key < t[j].key)
        /\ u \in 1 .. Len(t) => key < t[u].key
    BY <2>1, UpperMeans
  <2>3. /\ u - 1 \in 0 .. Num(ix, p) /\ (u - 1) + 1 = u
        /\ \A j \in 1 .. Num(ix, p) : j <= u - 1 => j < u
        /\ u - 1 # Num(ix, p) => u \in 1 .. Num(ix, p)
    BY <1>1, <2>1, <2>2
  <2>4. u - 1 = Upper(ix.node[p].entries, key) - 1
    BY DEF u, t
  <2> QED
    BY <2>1, <2>2, <2>3, <2>4
<1>5. ASSUME rk[p] # 0, Num(ix, p) # 0
      PROVE  \E i \in 0 .. Num(ix, p) :
                  /\ f[p] = f[Kid(ix, p, i)]
                  /\ \A j \in 1 .. Num(ix, p) : j <= i => ~(key < Key(ix, p, j))
                  /\ i # Num(ix, p) => key < Key(ix, p, i + 1)
  BY <1>3, <1>4, <1>5 DEF Kid
<1> QED
  BY <1>3, <1>5

-----------------------------------------------------------------------------
\* A search that is at a page of A stays in A.
Paths(ix, rk, A, key) ==
    \A p \in A : rk[p] # 0 =>
        \A i \in 0 .. Num(ix, p) :
            (\A j \in 1 .. Num(ix, p) : j <= i => ~(key < Key(ix, p, j)))
            /\ (i # Num(ix, p) => key < Key(ix, p, i + 1)) => Kid(ix, p, i) \in A

SearchEnds(ix, rk, A, f, top) ==
    /\ f[top] = NoPage \/ (f[top] \in A /\ rk[f[top]] = 0)
    /\ (\A p \in A : rk[p] # 0 => Num(ix, p) # 0) => f[top] \in A

LEMMA SearchGoes ==
  ASSUME NEW n, NEW rk, NEW ix, Tree(ix, n, rk), NEW key, NEW A, A \subseteq 1 .. n,
         Paths(ix, rk, A, key), NEW f, SearchesBy(ix, n, key, f), NEW top \in A
  PROVE  SearchEnds(ix, rk, A, f, top)
<1> DEFINE Done(p) == /\ f[p] = NoPage \/ (f[p] \in A /\ rk[f[p]] = 0)
                      /\ (\A q \in A : rk[q] # 0 => Num(ix, q) # 0) => f[p] \in A
           last == rk[top]
           Q == {r \in Nat : \A p \in A : rk[p] = r => Done(p)}
<1>1. n \in Nat /\ rk \in [1 .. n -> Nat] /\ \A p \in A : p \in 1 .. n /\ rk[p] \in Nat
  BY DEF Tree
<1>2. last \in Nat
  BY <1>1
<1>3. ASSUME NEW p \in A, rk[p] = 0 PROVE Done(p)
  <2>1. f[p] = p
    BY <1>1, <1>3, SearchStep
  <2> QED
    BY <1>3, <2>1
<1>4. ASSUME NEW p \in A, rk[p] # 0, \A c \in A : rk[c] + 1 = rk[p] => Done(c) PROVE Done(p)
  <2>1. CASE Num(ix, p) = 0
    <3>1. f[p] = NoPage
      BY <1>1, <1>4, <2>1, SearchStep
    <3> QED
      BY <1>4, <2>1, <3>1
  <2>2. CASE Num(ix, p) # 0
    <3>1. PICK i \in 0 .. Num(ix, p) :
                  /\ f[p] = f[Kid(ix, p, i)]
                  /\ \A j \in 1 .. Num(ix, p) : j <= i => ~(key < Key(ix, p, j))
                  /\ i # Num(ix, p) => key < Key(ix, p, i + 1)
      BY <1>1, <1>4, <2>2, SearchStep
    <3>2. Kid(ix, p, i) \in A
      <4>1. \A k \in 0 .. Num(ix, p) :
               (\A j \in 1 .. Num(ix, p) : j <= k => ~(key < Key(ix, p, j)))
               /\ (k # Num(ix, p) => key < Key(ix, p, k + 1)) => Kid(ix, p, k) \in A
        BY <1>4 DEF Paths
      <4>2. /\ \A j \in 1 .. Num(ix, p) : j <= i => ~(key < Key(ix, p, j))
            /\ i # Num(ix, p) => key < Key(ix, p, i + 1)
        BY <3>1
      <4> QED
        BY <4>1, <4>2
    <3>3. rk[Kid(ix, p, i)] + 1 = rk[p]
      BY SMTT(40), <1>1, <1>4, KidsOfPage
    <3>4. Done(Kid(ix, p, i))
      BY <1>4, <3>2, <3>3
    <3> QED
      BY <3>1, <3>4
  <2> QED
    BY <2>1, <2>2
<1> HIDE DEF Done
<1>5. 0 \in Q
  BY <1>3
<1>6. ASSUME NEW m \in 1 .. last, m - 1 \in Q PROVE m \in Q
  <2>1. m \in Nat /\ m # 0
    BY <1>2
  <2>2. ASSUME NEW p \in A, rk[p] = m PROVE Done(p)
    <3>1. ASSUME NEW c \in A, rk[c] + 1 = rk[p] PROVE Done(c)
      <4>1. rk[c] = m - 1
        BY <1>1, <2>1, <2>2, <3>1
      <4> QED
        BY <1>6, <4>1
    <3> QED
      BY <1>4, <2>1, <2>2, <3>1
  <2> QED
    BY <2>1, <2>2
<1>7. last \in Q
  <2>1. \A m \in 1 .. last : m - 1 \in Q => m \in Q
    BY <1>6
  <2> HIDE DEF Q, last
  <2>2. \A m \in 0 .. last : m \in Q
    BY <1>2, <1>5, <2>1, Counts
  <2> QED
    BY <1>2, <2>2
<1>8. Done(top)
  BY <1>7
<1> QED
  BY <1>8 DEF Done, SearchEnds

\* A key is between the keys around one child only.
LEMMA BetweenOnce ==
  ASSUME NEW n, NEW rk, NEW ix, Tree(ix, n, rk), NEW p \in 1 .. n, Sorted(ix, p), NEW R, NEW x \in Int,
         NEW i \in 0 .. Num(ix, p), NEW j \in 0 .. Num(ix, p), Between(ix, R, p, i, x),
         Between(ix, R, p, j, x)
  PROVE  i = j
<1>1. Num(ix, p) \in Nat /\ \A k \in 1 .. Num(ix, p) : Key(ix, p, k) \in Int
  <2>1. Num(ix, p) \in Nat /\ \A k \in 1 .. Num(ix, p) : Key(ix, p, k) \in Keys
    BY KidsOfPage
  <2> QED
    BY <2>1, IndexAssumption DEF Keys
<1>2. ASSUME NEW a \in 0 .. Num(ix, p), NEW b \in 0 .. Num(ix, p), a < b,
             Between(ix, R, p, a, x), Between(ix, R, p, b, x)
      PROVE  FALSE
  <2>1. a # Num(ix, p) /\ b # 0 /\ a + 1 \in 1 .. Num(ix, p) /\ b \in 1 .. Num(ix, p) /\ a + 1 <= b
    BY <1>1, <1>2
  <2>2. x < Key(ix, p, a + 1) /\ Key(ix, p, b) <= x
    BY <1>2, <2>1 DEF Between
  <2> DEFINE c == a + 1
  <2>3. c \in 1 .. Num(ix, p) /\ x < Key(ix, p, c) /\ (c < b \/ c = b)
    BY <1>1, <2>1, <2>2
  <2> HIDE DEF c
  <2>4. c < b => Key(ix, p, c) < Key(ix, p, b)
    BY <2>1, <2>3 DEF Sorted
  <2>5. Key(ix, p, c) \in Int /\ Key(ix, p, b) \in Int
    BY <1>1, <2>1, <2>3
  <2> QED
    BY <2>2, <2>3, <2>4, <2>5
<1>3. ~(i < j) /\ ~(j < i)
  BY <1>2
<1> QED
  BY <1>1, <1>3

\* A key belongs in one page of each rank.
Apart(rk, T, R) ==
    \A a, b \in T : \A x \in Int : rk[a] = rk[b] /\ x \in R[a] /\ x \in R[b] => a = b
LEMMA PagesApart ==
  ASSUME NEW n, NEW rk, NEW ix, Tree(ix, n, rk), NEW T, NEW root, T \subseteq 1 .. n,
         Family(ix, rk, T, root, NoPage), \A p \in T : rk[p] <= rk[root],
         NEW R, KeyedAs(ix, rk, T, root, R)
  PROVE  Apart(rk, T, R)
<1> SUFFICES ASSUME NEW a \in T, NEW b \in T, NEW x \in Int, rk[a] = rk[b], x \in R[a], x \in R[b]
             PROVE  a = b
  BY DEF Apart
<1> DEFINE Q == {d \in Nat : \A p, q \in T : rk[p] + d = rk[root] /\ rk[q] = rk[p]
                                             /\ x \in R[p] /\ x \in R[q] => p = q}
           last == rk[root]
<1>1. /\ n \in Nat /\ rk \in [1 .. n -> Nat] /\ root \in T /\ NoPage \notin T
      /\ \A p \in T : p \in 1 .. n /\ rk[p] \in Nat /\ rk[p] <= rk[root]
  BY DEF Tree, Family
<1>2. /\ \A p \in T : rk[p] # 0 =>
            \A i \in 0 .. Num(ix, p) : \A y \in Int :
                  y \in R[Kid(ix, p, i)] <=> Between(ix, R, p, i, y)
      /\ \A p \in T : Sorted(ix, p)
  BY SMTT(40), <1>1, KeyedPlain
<1>3. /\ \A p \in T : p # root => HasParent(ix, rk, T, p)
      /\ \A p \in T : rk[p] # 0 => \A i \in 0 .. Num(ix, p) : IsChild(ix, rk, T, root, NoPage, p, Kid(ix, p, i))
  BY <1>1 DEF Family
<1>4. ASSUME NEW p \in T, p # root, x \in R[p]
      PROVE  \E P \in T : /\ rk[P] = rk[p] + 1 /\ x \in R[P]
                          /\ \E i \in 0 .. Num(ix, P) : Kid(ix, P, i) = p /\ Between(ix, R, P, i, x)
  <2> DEFINE P == Par(ix, p)
  <2>1. P \in T /\ rk[P] # 0 /\ \E i \in 0 .. Num(ix, P) : Kid(ix, P, i) = p
    BY <1>3, <1>4 DEF HasParent
  <2> HIDE DEF P
  <2>2. PICK i \in 0 .. Num(ix, P) : Kid(ix, P, i) = p
    BY <2>1
  <2>3. rk[p] + 1 = rk[P]
    BY <1>3, <2>1, <2>2 DEF IsChild
  <2>4. Between(ix, R, P, i, x)
    BY <1>2, <1>4, <2>1, <2>2
  <2>5. x \in R[P]
    BY <2>4 DEF Between
  <2> QED
    BY <2>1, <2>2, <2>3, <2>4, <2>5
<1>5. 0 \in Q
  <2>1. ASSUME NEW p \in T, rk[p] = rk[root] PROVE p = root
    <3>1. ASSUME p # root PROVE FALSE
      <4>1. Par(ix, p) \in T /\ rk[Par(ix, p)] # 0 /\ \E i \in 0 .. Num(ix, Par(ix, p)) : Kid(ix, Par(ix, p), i) = p
        BY <1>3, <3>1 DEF HasParent
      <4>2. rk[p] + 1 = rk[Par(ix, p)]
        BY <1>3, <4>1 DEF IsChild
      <4>3. rk[Par(ix, p)] \in Nat /\ rk[Par(ix, p)] <= rk[root] /\ rk[p] \in Nat
        BY <1>1, <4>1
      <4> QED
        BY <2>1, <4>2, <4>3
    <3> QED
      BY <3>1
  <2>2. \A p \in T : rk[p] + 0 = rk[root] => rk[p] = rk[root]
    BY <1>1
  <2>3. 0 \in Nat
    OBVIOUS
  <2> QED
    BY <2>1, <2>2, <2>3
<1>6. ASSUME NEW m \in 1 .. last, m - 1 \in Q PROVE m \in Q
  <2>1. m \in Nat /\ m # 0 /\ rk[root] \in Nat
    BY <1>1
  <2>2. ASSUME NEW p \in T, NEW q \in T, rk[p] + m = rk[root], rk[q] = rk[p], x \in R[p], x \in R[q]
        PROVE  p = q
    <3>1. p # root /\ q # root
      BY <2>1, <2>2
    <3>2. PICK P \in T : /\ rk[P] = rk[p] + 1 /\ x \in R[P]
                         /\ \E i \in 0 .. Num(ix, P) : Kid(ix, P, i) = p /\ Between(ix, R, P, i, x)
      BY <1>4, <2>2, <3>1
    <3>3. PICK O \in T : /\ rk[O] = rk[q] + 1 /\ x \in R[O]
                         /\ \E i \in 0 .. Num(ix, O) : Kid(ix, O, i) = q /\ Between(ix, R, O, i, x)
      BY <1>4, <2>2, <3>1
    <3>4. rk[P] + (m - 1) = rk[root] /\ rk[O] = rk[P]
      BY SMTT(40), <1>1, <2>1, <2>2, <3>2, <3>3
    <3>5. P = O
      BY <1>6, <3>2, <3>3, <3>4
    <3>6. PICK i \in 0 .. Num(ix, P) : Kid(ix, P, i) = p /\ Between(ix, R, P, i, x)
      BY <3>2
    <3>7. PICK j \in 0 .. Num(ix, P) : Kid(ix, P, j) = q /\ Between(ix, R, P, j, x)
      BY <3>3, <3>5
    <3>8. P \in 1 .. n /\ Sorted(ix, P)
      BY <1>1, <1>2
    <3>9. i = j
      BY <3>6, <3>7, <3>8, BetweenOnce
    <3> QED
      BY <3>6, <3>7, <3>9
  <2> QED
    BY <2>1, <2>2
<1>7. rk[root] - rk[a] \in Q
  <2>1. \A m \in 1 .. last : m - 1 \in Q => m \in Q
    BY <1>6
  <2>2. last \in Nat /\ rk[root] - rk[a] \in 0 .. last
    BY <1>1
  <2> HIDE DEF Q, last
  <2>3. \A m \in 0 .. last : m \in Q
    BY <1>5, <2>1, <2>2, Counts
  <2> QED
    BY <2>2, <2>3
<1>8. rk[a] + (rk[root] - rk[a]) = rk[root]
  BY <1>1
<1> QED
  BY <1>7, <1>8

-----------------------------------------------------------------------------
\* A search in a tree ends where its key belongs, and it ends at a leaf if a page has room for
\* two entries: an internal node then has one.
LEMMA SearchFinds ==
  ASSUME NEW ix, NEW n, NEW rk, NEW T, NEW root, NEW thin, NEW whole, NEW s,
         Good(ix, n, rk, T, root, thin, whole, s), thin \in T => rk[thin] = 0,
         NEW key \in Int, NEW page, page = FindLeafFrom(ix, root, key)
  PROVE  /\ page = NoPage \/ (page \in T /\ rk[page] = 0)
         /\ MaxKeys >= 2 => page # NoPage
         /\ Unique /\ page # NoPage => Belongs(ix, rk, T, root, page, key)
<1>1. /\ Tree(ix, n, rk) /\ T \subseteq 1 .. n /\ Family(ix, rk, T, root, NoPage)
      /\ root \in T /\ NoPage \notin T
      /\ \A p \in T : p \in 1 .. n /\ rk[p] \in Nat /\ Num(ix, p) \in Nat
  BY DEF Good, Shape, Family
<1>2. PICK f : SearchesBy(ix, n, key, f)
  BY <1>1, SearchFunction
<1>3. page = f[root]
  BY <1>1, <1>2 DEF SearchesBy
<1>4. Paths(ix, rk, T, key)
  BY <1>1 DEF Paths, Family, IsChild
<1>20. Tree(ix, n, rk) /\ T \subseteq 1 .. n /\ root \in T
  BY <1>1
<1>22. SearchEnds(ix, rk, T, f, root)
  BY <1>20, <1>2, <1>4, SearchGoes
<1>21. /\ f[root] = NoPage \/ (f[root] \in T /\ rk[f[root]] = 0)
       /\ (\A p \in T : rk[p] # 0 => Num(ix, p) # 0) => f[root] \in T
  BY <1>22 DEF SearchEnds
<1>5. page = NoPage \/ (page \in T /\ rk[page] = 0)
  BY <1>3, <1>21
<1>6. ASSUME MaxKeys >= 2 PROVE page # NoPage
  <2>1. ASSUME NEW p \in T, rk[p] # 0 PROVE Num(ix, p) # 0
    <3>1. Num(ix, p) + (IF p = thin THEN 1 ELSE 0) >= Need(rk, root, p)
      BY <1>6 DEF Good, Filled
    <3>2. p # thin
      BY <2>1
    <3>3. Need(rk, root, p) >= 1
      BY <2>1, MinKeysFits DEF Need, AtLeast
    <3>4. Num(ix, p) + 0 >= Need(rk, root, p) /\ Num(ix, p) \in Nat
      BY <1>1, <3>1, <3>2
    <3>5. Need(rk, root, p) \in Nat
      BY MinKeysFits DEF Need, AtLeast
    <3> QED
      BY <3>3, <3>4, <3>5
  <2>2. page \in T
    BY <1>3, <1>21, <2>1
  <2> QED
    BY <1>1, <2>2
<1>7. ASSUME page # NoPage, NEW R, KeyedAs(ix, rk, T, root, R) PROVE key \in R[page]
  <2> DEFINE A == {p \in T : key \in R[p]}
  <2>1. /\ R[root] = Int
        /\ \A p \in T : rk[p] # 0 =>
              \A i \in 0 .. Num(ix, p) : \A x \in Int :
                 x \in R[Kid(ix, p, i)] <=> Between(ix, R, p, i, x)
    BY <1>1, <1>7, KeyedPlain
  <2>2. ASSUME NEW p \in A, rk[p] # 0, NEW i \in 0 .. Num(ix, p),
               \A j \in 1 .. Num(ix, p) : j <= i => ~(key < Key(ix, p, j)),
               i # Num(ix, p) => key < Key(ix, p, i + 1)
        PROVE  Kid(ix, p, i) \in A
    <3>1. p \in T /\ key \in R[p] /\ Num(ix, p) \in Nat
      BY <1>1, <2>2
    <3>2. ASSUME i # 0 PROVE Key(ix, p, i) <= key
      <4>1. i \in 1 .. Num(ix, p) /\ i <= i
        BY <3>1, <3>2
      <4>2. ~(key < Key(ix, p, i))
        BY <2>2, <4>1
      <4>3. Key(ix, p, i) \in Int
        <5>1. Key(ix, p, i) \in Keys
          BY <1>1, <3>1, <4>1, KidsOfPage
        <5> QED
          BY <5>1, IndexAssumption DEF Keys
      <4> QED
        BY <4>2, <4>3
    <3>3. Between(ix, R, p, i, key)
      BY <2>2, <3>1, <3>2 DEF Between
    <3>4. key \in R[Kid(ix, p, i)]
      BY <2>1, <2>2, <3>1, <3>3
    <3>5. Kid(ix, p, i) \in T
      BY <1>4, <2>2, <3>1 DEF Paths
    <3> QED
      BY <3>4, <3>5
  <2>3. Paths(ix, rk, A, key)
    <3> HIDE DEF A
    <3> QED
      BY <2>2 DEF Paths
  <2>4. root \in A /\ A \subseteq 1 .. n
    BY <1>1, <2>1
  <2> HIDE DEF A
  <2>50. SearchEnds(ix, rk, A, f, root)
    BY <1>20, <1>2, <2>3, <2>4, SearchGoes
  <2>5. f[root] = NoPage \/ f[root] \in A
    BY <2>50 DEF SearchEnds
  <2> QED
    BY <1>3, <1>7, <2>5 DEF A
<1> QED
  BY <1>5, <1>6, <1>7 DEF Belongs

\* What is in a leaf is found there.
LEMMA FoundThere ==
  ASSUME NEW ix, NEW n, NEW rk, NEW T, NEW root, NEW thin, NEW whole, NEW s,
         Good(ix, n, rk, T, root, thin, whole, s), Unique,
         NEW q \in T, rk[q] = 0, NEW i \in 1 .. Num(ix, q), NEW page \in T, rk[page] = 0,
         NEW key \in Int, Key(ix, q, i) = key, Belongs(ix, rk, T, root, page, key)
  PROVE  q = page
<1>1. /\ Tree(ix, n, rk) /\ T \subseteq 1 .. n /\ Family(ix, rk, T, root, NoPage)
      /\ root \in T /\ \A p \in T : rk[p] <= rk[root]
  BY DEF Good, Shape, Family
<1>2. PICK R : KeyedAs(ix, rk, T, root, R)
  BY DEF Good
<1>3. key \in R[page]
  BY <1>2 DEF Belongs
<1>4. key \in R[q]
  BY <1>1, <1>2, KeyedPlain
<1>5. Apart(rk, T, R)
  BY <1>1, <1>2, PagesApart
<1> QED
  BY <1>3, <1>4, <1>5 DEF Apart

-----------------------------------------------------------------------------
\* What an insertion does to the entries: a unique index takes a key once.
Takes(s, r) == Unique => \A e \in s : e.key # r.key
Kept(s, r) == IF Takes(s, r) THEN s \union {r} ELSE s

LEMMA InsertIs ==
  ASSUME NEW ix, NEW call, NEW r, NEW page, page = FindLeaf(ix, call, r.key)
  PROVE  /\ page = NoPage \/ Rejects(ix.node[page], r) => InsertKey(ix, call, r) = ix
         /\ page # NoPage /\ ~Rejects(ix.node[page], r) /\ Num(ix, page) < MaxKeys =>
               InsertKey(ix, call, r) = LeafInsert(ix, page, r)
         /\ page # NoPage /\ ~Rejects(ix.node[page], r) /\ ~(Num(ix, page) < MaxKeys) =>
               InsertKey(ix, call, r) = SplitLeafAndInsert(ix, call, page, r)
<1>1. HasRoom(ix.node[page]) <=> Num(ix, page) < MaxKeys
  BY DEF HasRoom, Num
<1> QED
  BY <1>1 DEF InsertKey, LeafInsert, WithEntries

LEMMA RejectsMeans ==
  ASSUME NEW n, NEW rk, NEW ix, Tree(ix, n, rk), NEW page \in 1 .. n, NEW r
  PROVE  Rejects(ix.node[page], r) <=> Unique /\ \E i \in 1 .. Num(ix, page) : Key(ix, page, i) = r.key
<1>1. ix.node[page].entries \in Seq(Ents(n, rk, rk[page]))
  BY PageFields
<1>2. DOMAIN ix.node[page].entries = 1 .. Num(ix, page)
  BY <1>1, LenProperties DEF Num
<1> QED
  BY <1>2 DEF Rejects, Key

\* What is as it was grows, too.
LEMMA StaysGrows ==
  ASSUME NEW ix, NEW n, NEW rk, NEW T, NEW root, NEW whole, NEW s,
         Good(ix, n, rk, T, root, NoPage, whole, s), RootOf(ix, rk, root), NEW call
  PROVE  Grows(ix, ix, n, call, whole, s)
<1>1. n \in Nat /\ ix.info.root = root
  BY DEF Good, Shape, Tree, RootOf
<1>2. PinsOf(ix, n, ix, n)
  BY <1>1 DEF PinsOf
<1>3. Stands(ix, n, rk, T, ix, n, call, whole, s)
  BY <1>1, <1>2 DEF Stands
<1> QED
  BY <1>3 DEF Grows

\* insertKey
LEMMA InsertGrows ==
  ASSUME NEW ix, NEW n, NEW rk, NEW T, NEW root, NEW whole, NEW s,
         Good(ix, n, rk, T, root, NoPage, whole, s), RootOf(ix, rk, root), rk[root] <= 2,
         NEW r \in Records, NEW call, call.info = ix.info, call.limit \in Int
  PROVE  \E t : /\ Grows(InsertKey(ix, call, r), ix, n, call, whole, t)
                /\ t = s \/ t = s \union {r}
                /\ MaxKeys >= 2 => t = Kept(s, r)
<1> DEFINE page == FindLeaf(ix, call, r.key)
<1>1. /\ Tree(ix, n, rk) /\ T \subseteq 1 .. n /\ root \in T /\ NoPage \notin T
      /\ ix.info.root = root /\ call.info.root = root /\ r.key \in Int /\ Items(ix, rk, T) = s
      /\ \A p \in T : p \in 1 .. n /\ Num(ix, p) \in Nat
  BY RecordKeys DEF Good, Shape, Family, RootOf
<1>2. page = FindLeafFrom(ix, root, r.key)
  BY <1>1 DEF FindLeaf
<1>3. page = FindLeaf(ix, call, r.key)
  OBVIOUS
<1> HIDE DEF page
<1>4. /\ page = NoPage \/ (page \in T /\ rk[page] = 0)
      /\ MaxKeys >= 2 => page # NoPage
      /\ Unique /\ page # NoPage => Belongs(ix, rk, T, root, page, r.key)
  <2>1. NoPage \in T => rk[NoPage] = 0
    BY <1>1
  <2>2. r.key \in Int
    BY <1>1
  <2> QED
    BY <1>2, <2>1, <2>2, SearchFinds
<1>5. CASE page = NoPage
  <2>1. Grows(ix, ix, n, call, whole, s)
    BY StaysGrows
  <2>2. InsertKey(ix, call, r) = ix
    BY ZenonT(60), <1>3, <1>5, InsertIs
  <2> QED
    BY <1>4, <1>5, <2>1, <2>2
<1>6. CASE page # NoPage /\ Rejects(ix.node[page], r)
  <2>1. Grows(ix, ix, n, call, whole, s)
    BY StaysGrows
  <2>2. InsertKey(ix, call, r) = ix
    BY <1>3, <1>6, InsertIs
  <2>3. Kept(s, r) = s
    <3>1. page \in T /\ page \in 1 .. n /\ rk[page] = 0
      BY <1>1, <1>4, <1>6
    <3>2. Unique /\ \E i \in 1 .. Num(ix, page) : Key(ix, page, i) = r.key
      BY <1>1, <1>6, <3>1, RejectsMeans
    <3>3. PICK i \in 1 .. Num(ix, page) : Key(ix, page, i) = r.key
      BY <3>2
    <3>4. Item(ix, page, i) \in Records /\ Item(ix, page, i).key = r.key
      <4>1. ix.node[page].entries[i] \in Ents(n, rk, rk[page])
        BY <1>1, <3>1, KidsOfPage
      <4> QED
        BY <3>1, <3>3, <4>1, KeyOfItem DEF Ents, Item
    <3>5. Item(ix, page, i) \in s
      BY <1>1, <3>1, <3>4 DEF Items
    <3> QED
      BY <3>2, <3>4, <3>5 DEF Kept, Takes
  <2> QED
    BY <2>1, <2>2, <2>3
<1>7. CASE page # NoPage /\ ~Rejects(ix.node[page], r)
  <2>1. page \in T /\ page \in 1 .. n /\ rk[page] = 0 /\ Num(ix, page) \in Nat
    BY <1>1, <1>4, <1>7
  <2>2. Unique => \A i \in 1 .. Num(ix, page) : Key(ix, page, i) # r.key
    BY <1>1, <1>7, <2>1, RejectsMeans
  <2>3. Kept(s, r) = s \union {r}
    <3>1. ASSUME Unique, NEW e \in s PROVE e.key # r.key
      <4>0. PICK q \in T : rk[q] = 0 /\ \E i \in 1 .. Num(ix, q) : Item(ix, q, i) = e
        BY <1>1, <3>1 DEF Items
      <4>1. PICK i \in 1 .. Num(ix, q) : Item(ix, q, i) = e
        BY <4>0
      <4>2. Key(ix, q, i) = e.key
        BY <4>1, KeyOfItem
      <4>3. ASSUME e.key = r.key PROVE FALSE
        <5>1. Key(ix, q, i) = r.key /\ r.key \in Int /\ Belongs(ix, rk, T, root, page, r.key)
          BY <1>1, <1>4, <1>7, <3>1, <4>2, <4>3
        <5>2. NoPage \in T => rk[NoPage] = 0
          BY <1>1
        <5>3. q = page
          BY <2>1, <3>1, <4>0, <5>1, FoundThere
        <5> QED
          BY <2>2, <3>1, <5>1, <5>3
      <4> QED
        BY <4>3
    <3> QED
      BY <3>1 DEF Kept, Takes
  <2>4. Fits(ix, rk, T, root, page, r.key)
    BY <1>4, <1>7, <2>2 DEF Fits
  <2>5. CASE Num(ix, page) < MaxKeys
    <3> DEFINE jx == LeafInsert(ix, page, r)
               t == s \union {r}
    <3>1. InsertKey(ix, call, r) = jx
      BY <1>3, <1>7, <2>5, InsertIs
    <3>2. /\ Good(jx, n, rk, T, root, NoPage, whole, t)
          /\ jx.pins = ix.pins /\ jx.info = ix.info
      BY <1>4, <1>7, <2>1, <2>2, <2>5, LeafInsertGood
    <3> HIDE DEF jx, t
    <3>3. n \in Nat /\ PinsOf(jx, n, ix, n) /\ RootOf(jx, rk, root) /\ jx.info.root = root
      BY <1>1, <3>2 DEF PinsOf, Tree, RootOf
    <3>4. Stands(jx, n, rk, T, ix, n, call, whole, t)
      BY <3>2, <3>3 DEF Stands
    <3>5. Grows(jx, ix, n, call, whole, t)
      BY <3>4 DEF Grows
    <3> QED
      BY <2>3, <3>1, <3>5 DEF t
  <2>6. CASE ~(Num(ix, page) < MaxKeys)
    <3>1. Num(ix, page) >= MaxKeys
      BY <2>1, <2>6, MinKeysFits
    <3>2. Grows(SplitLeafAndInsert(ix, call, page, r), ix, n, call, whole, s \union {r})
      BY <2>1, <2>4, <3>1, SplitLeafGrows
    <3>3. InsertKey(ix, call, r) = SplitLeafAndInsert(ix, call, page, r)
      BY <1>3, <1>7, <2>6, InsertIs
    <3> QED
      BY <2>3, <3>2, <3>3
  <2> QED
    BY <2>5, <2>6
<1> QED
  BY <1>5, <1>6, <1>7
=============================================================================
