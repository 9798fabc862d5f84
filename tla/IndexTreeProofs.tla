-------------------------- MODULE IndexTreeProofs --------------------------
(***************************************************************************)
(* The index as long as its tree has up to three levels, for any records,  *)
(* room in a page and number of pages, and whatever allocation fails: the  *)
(* levels of a tree as the properties name them, what createIndex and a    *)
(* deletion make of a tree, the invariant that the index is one, and that  *)
(* it keeps what it promises.                                              *)
(*                                                                         *)
(* IndexManagerProofs says what a tree is (Good) and what an insertion     *)
(* does to it.  A deletion turns upwards by way of the parents: each turn  *)
(* borrows, or merges two neighbours and takes their parent's entry away.  *)
(***************************************************************************)
EXTENDS IndexManagerProofs, FiniteSetTheorems

-----------------------------------------------------------------------------
\* A sequence of sequences, one after the other.
Flattens(ss, last, g) ==
    g[0] = <<>> /\ \A m \in 1 .. last : g[m] = g[m - 1] \o ss[m]

LEMMA FlattenLoop ==
  ASSUME NEW S, NEW ss \in Seq(Seq(S))
  PROVE  \E g \in [0 .. Len(ss) -> Seq(S)] : Flattens(ss, Len(ss), g) /\ FlattenSeq(ss) = g[Len(ss)]
<1> DEFINE last == Len(ss)
           U == Seq(S)
           f == CHOOSE f : f = [i \in 1 .. last |-> IF i = 1 THEN ss[i] ELSE f[i - 1] \o ss[i]]
           G == [m \in 1 .. last |-> [s \in U |-> s \o ss[m]]]
<1>1. last \in Nat /\ \A m \in 1 .. last : ss[m] \in U
  OBVIOUS
<1>2. <<>> \in U
  OBVIOUS
<1>3. \A s, t \in U : s \o t \in U
  BY ConcatProperties
<1>4. \A s \in U : <<>> \o s = s
  BY ConcatEmptySeq
<1>5. FlattenSeq(ss) = IF last = 0 THEN ss ELSE f[last]
  BY DEF FlattenSeq
<1>6. last = 0 => ss = <<>>
  OBVIOUS
<1> HIDE DEF last, U, f
<1>7. G \in [1 .. last -> [U -> U]]
  BY <1>1, <1>3
<1>8. \A m \in 1 .. last : \A s \in U : G[m][s] = s \o ss[m]
  OBVIOUS
<1> HIDE DEF G
<1>9. PICK g \in [0 .. last -> U] : g[0] = <<>> /\ \A m \in 1 .. last : g[m] = G[m][g[m - 1]]
  <2> DEFINE a == <<>>
  <2>1. a \in U
    BY <1>2
  <2> HIDE DEF a
  <2>2. Loops(U, a, last, G)
    BY <1>1, <1>7, <2>1, LoopExists
  <2> QED
    BY <2>2 DEF Loops, a
<1>10. Flattens(ss, last, g)
  <2>1. ASSUME NEW m \in 1 .. last PROVE g[m] = g[m - 1] \o ss[m]
    <3>1. m - 1 \in 0 .. last
      BY <1>1
    <3> QED
      BY <1>8, <1>9, <3>1
  <2> QED
    BY <1>9, <2>1 DEF Flattens
<1>11. \A i \in 1 .. last : g[i] = IF i = 1 THEN ss[i] ELSE g[i - 1] \o ss[i]
  <2>1. ASSUME NEW i \in 1 .. last, i = 1 PROVE g[i] = ss[i]
    <3>1. g[i] = g[i - 1] \o ss[i] /\ g[i - 1] = <<>>
      <4>1. i - 1 = 0
        BY <2>1
      <4>2. g[i] = g[i - 1] \o ss[i]
        BY <1>10, ZenonT(30) DEF Flattens
      <4> QED
        BY <1>9, <4>1, <4>2
    <3> QED
      BY <1>1, <1>4, <3>1
  <2> QED
    BY <1>10, <2>1 DEF Flattens
<1>12. f = [i \in 1 .. last |-> IF i = 1 THEN ss[i] ELSE f[i - 1] \o ss[i]]
  <2> DEFINE h == [i \in 1 .. last |-> g[i]]
  <2>1. h = [i \in 1 .. last |-> IF i = 1 THEN ss[i] ELSE h[i - 1] \o ss[i]]
    <3>1. \A i \in 1 .. last : h[i] = IF i = 1 THEN ss[i] ELSE h[i - 1] \o ss[i]
      <4>1. \A i \in 1 .. last : i # 1 => i - 1 \in 1 .. last
        BY <1>1
      <4> QED
        BY <1>11, <4>1
    <3>2. h = [i \in 1 .. last |-> h[i]]
      OBVIOUS
    <3> HIDE DEF h
    <3> QED
      BY <3>1, <3>2
  <2> HIDE DEF h
  <2> QED
    BY <2>1, ZenonT(30) DEF f
<1>13. \A i \in 1 .. last : f[i] = IF i = 1 THEN ss[i] ELSE f[i - 1] \o ss[i]
  BY <1>12, ZenonT(30)
<1>14. \A m \in 0 .. last : m \in {i \in 0 .. last : i = 0 \/ f[i] = g[i]}
  <2> DEFINE Q == {i \in 0 .. last : i = 0 \/ f[i] = g[i]}
  <2>1. 0 \in Q
    BY <1>1
  <2>2. ASSUME NEW m \in 1 .. last, m - 1 \in Q PROVE m \in Q
    <3>1. f[m] = g[m]
      BY <1>11, <1>13, <2>2
    <3> QED
      BY <1>1, <3>1
  <2> HIDE DEF Q
  <2>3. \A m \in 0 .. last : m \in Q
    BY <1>1, <2>1, <2>2, Counts
  <2> QED
    BY <2>3 DEF Q
<1>15. FlattenSeq(ss) = g[last]
  <2>1. CASE last = 0
    BY <1>5, <1>6, <1>9, <2>1
  <2>2. CASE last # 0
    BY <1>1, <1>5, <1>14, <2>2
  <2> QED
    BY <2>1, <2>2
<1> QED
  BY <1>10, <1>15 DEF last, U

\* What is in s is in one of the first m sequences, and the other way round; and the items of s
\* come in the order L, if those of all these do.
Gathers(ss, m, s) ==
    /\ \A i \in 1 .. Len(s) : \E a \in 1 .. m : \E b \in 1 .. Len(ss[a]) : s[i] = ss[a][b]
    /\ \A a \in 1 .. m : \A b \in 1 .. Len(ss[a]) : \E i \in 1 .. Len(s) : s[i] = ss[a][b]
Rises(s, L) == \A i, j \in 1 .. Len(s) : i < j => <<s[i], s[j]>> \in L
AllBefore(s, t, L) == \A i \in 1 .. Len(s) : \A j \in 1 .. Len(t) : <<s[i], t[j]>> \in L
AllRise(ss, L) ==
    /\ \A a \in 1 .. Len(ss) : Rises(ss[a], L)
    /\ \A a, b \in 1 .. Len(ss) : a < b => AllBefore(ss[a], ss[b], L)

LEMMA GatherOne ==
  ASSUME NEW S, NEW s \in Seq(S), NEW t \in Seq(S), NEW ss, NEW m \in Nat \ {0}, ss[m] = t,
         Gathers(ss, m - 1, s)
  PROVE  Gathers(ss, m, s \o t)
<1> DEFINE u == s \o t
<1>1. /\ Len(s) \in Nat /\ Len(t) \in Nat /\ Len(u) = Len(s) + Len(t)
      /\ \A j \in 1 .. Len(s) : u[j] = s[j]
      /\ \A j \in Len(s) + 1 .. Len(s) + Len(t) : u[j] = t[j - Len(s)]
  BY ConcatItems
<1> HIDE DEF u
<1>2. ASSUME NEW i \in 1 .. Len(u) PROVE \E a \in 1 .. m : \E b \in 1 .. Len(ss[a]) : u[i] = ss[a][b]
  <2>1. CASE i <= Len(s)
    <3>1. i \in 1 .. Len(s) /\ u[i] = s[i]
      BY <1>1, <2>1
    <3>2. PICK a \in 1 .. m - 1 : \E b \in 1 .. Len(ss[a]) : s[i] = ss[a][b]
      BY <3>1 DEF Gathers
    <3>3. a \in 1 .. m
      OBVIOUS
    <3> QED
      BY <3>1, <3>2, <3>3
  <2>2. CASE i > Len(s)
    <3>1. i - Len(s) \in 1 .. Len(t) /\ u[i] = t[i - Len(s)]
      BY <1>1, <2>2
    <3>2. m \in 1 .. m
      OBVIOUS
    <3> QED
      BY <3>1, <3>2
  <2> QED
    BY <1>1, <2>1, <2>2
<1>3. ASSUME NEW a \in 1 .. m, NEW b \in 1 .. Len(ss[a]) PROVE \E i \in 1 .. Len(u) : u[i] = ss[a][b]
  <2>1. CASE a # m
    <3>1. a \in 1 .. m - 1
      BY <2>1
    <3>2. PICK i \in 1 .. Len(s) : s[i] = ss[a][b]
      BY <3>1 DEF Gathers
    <3>3. i \in 1 .. Len(u) /\ u[i] = s[i]
      BY <1>1
    <3> QED
      BY <3>2, <3>3
  <2>2. CASE a = m
    <3>1. b + Len(s) \in Len(s) + 1 .. Len(s) + Len(t) /\ b + Len(s) \in 1 .. Len(u) /\ (b + Len(s)) - Len(s) = b
      BY <1>1, <2>2
    <3>2. u[b + Len(s)] = t[b]
      BY <1>1, <3>1
    <3> QED
      BY <2>2, <3>1, <3>2
  <2> QED
    BY <2>1, <2>2
<1> QED
  BY <1>2, <1>3 DEF Gathers, u

LEMMA RiseOne ==
  ASSUME NEW S, NEW s \in Seq(S), NEW t \in Seq(S), NEW L, Rises(s, L), Rises(t, L), AllBefore(s, t, L)
  PROVE  Rises(s \o t, L)
<1> DEFINE u == s \o t
<1>1. /\ Len(s) \in Nat /\ Len(t) \in Nat /\ Len(u) = Len(s) + Len(t)
      /\ \A j \in 1 .. Len(s) : u[j] = s[j]
      /\ \A j \in Len(s) + 1 .. Len(s) + Len(t) : u[j] = t[j - Len(s)]
  BY ConcatItems
<1> HIDE DEF u
<1>2. ASSUME NEW i \in 1 .. Len(u), NEW j \in 1 .. Len(u), i < j PROVE <<u[i], u[j]>> \in L
  <2>1. CASE j <= Len(s)
    <3>1. i \in 1 .. Len(s) /\ j \in 1 .. Len(s) /\ u[i] = s[i] /\ u[j] = s[j]
      BY <1>1, <1>2, <2>1
    <3> QED
      BY <1>2, <3>1 DEF Rises
  <2>2. CASE i > Len(s)
    <3>1. /\ i - Len(s) \in 1 .. Len(t) /\ u[i] = t[i - Len(s)]
          /\ j - Len(s) \in 1 .. Len(t) /\ u[j] = t[j - Len(s)]
          /\ i - Len(s) < j - Len(s)
      BY <1>1, <1>2, <2>2
    <3> QED
      BY <3>1 DEF Rises
  <2>3. CASE i <= Len(s) /\ j > Len(s)
    <3>1. /\ i \in 1 .. Len(s) /\ u[i] = s[i]
          /\ j - Len(s) \in 1 .. Len(t) /\ u[j] = t[j - Len(s)]
      BY <1>1, <1>2, <2>3
    <3> QED
      BY <3>1 DEF AllBefore
  <2> QED
    BY <1>1, <2>1, <2>2, <2>3
<1> QED
  BY <1>2 DEF Rises, u

LEMMA FlattenMeans ==
  ASSUME NEW S, NEW ss \in Seq(Seq(S)), NEW t, t = FlattenSeq(ss)
  PROVE  /\ t \in Seq(S)
         /\ Gathers(ss, Len(ss), t)
         /\ \A L : AllRise(ss, L) => Rises(t, L)
<1> DEFINE last == Len(ss)
           U == Seq(S)
<1>1. last \in Nat /\ \A m \in 1 .. last : ss[m] \in U
  OBVIOUS
<1>2. PICK g \in [0 .. last -> U] : Flattens(ss, last, g) /\ t = g[last]
  BY FlattenLoop
<1>3. ASSUME NEW m \in 1 .. last
      PROVE  m - 1 \in 0 .. last /\ m \in 0 .. last /\ m \in Nat \ {0} /\ g[m - 1] \in U /\ g[m] \in U
             /\ ss[m] \in U /\ g[m] = g[m - 1] \o ss[m]
  <2>1. m - 1 \in 0 .. last /\ m \in 0 .. last /\ m \in Nat \ {0}
    BY <1>1
  <2> QED
    BY <1>1, <1>2, <2>1 DEF Flattens
<1>4. g[0] = <<>> /\ Len(g[0]) = 0 /\ 0 \in 0 .. last /\ last \in 0 .. last
  BY <1>1, <1>2 DEF Flattens
<1> HIDE DEF last
<1>5. Gathers(ss, last, t)
  <2> DEFINE Q == {m \in 0 .. last : Gathers(ss, m, g[m])}
  <2>1. 0 \in Q
    BY <1>4 DEF Gathers
  <2>2. ASSUME NEW m \in 1 .. last, m - 1 \in Q PROVE m \in Q
    <3>1. Gathers(ss, m - 1, g[m - 1])
      BY <2>2
    <3>2. Gathers(ss, m, g[m - 1] \o ss[m])
      <4> DEFINE s == g[m - 1]
      <4>1. s \in U /\ Gathers(ss, m - 1, s) /\ ss[m] \in U /\ m \in Nat \ {0}
        BY <1>3, <3>1
      <4> HIDE DEF s
      <4>2. Gathers(ss, m, s \o ss[m])
        BY <4>1, GatherOne
      <4> QED
        BY <4>2 DEF s
    <3> QED
      BY <1>3, <3>2
  <2> HIDE DEF Q
  <2>3. \A m \in 0 .. last : m \in Q
    BY <1>1, <2>1, <2>2, Counts
  <2> QED
    BY <1>2, <1>4, <2>3 DEF Q
<1>6. ASSUME NEW L, AllRise(ss, L) PROVE Rises(t, L)
  <2> DEFINE Q == {m \in 0 .. last : Gathers(ss, m, g[m]) /\ Rises(g[m], L)}
  <2>1. 0 \in Q
    BY <1>4 DEF Gathers, Rises
  <2>2. ASSUME NEW m \in 1 .. last, m - 1 \in Q PROVE m \in Q
    <3> DEFINE s == g[m - 1]
    <3>1. s \in U /\ ss[m] \in U /\ Gathers(ss, m - 1, s) /\ Rises(s, L) /\ g[m] = s \o ss[m] /\ m \in Nat \ {0}
      BY <1>3, <2>2
    <3> HIDE DEF s
    <3>2. Gathers(ss, m, s \o ss[m])
      BY <3>1, GatherOne
    <3>3. Rises(ss[m], L)
      BY <1>6 DEF AllRise, last
    <3>4. ASSUME NEW i \in 1 .. Len(s), NEW j \in 1 .. Len(ss[m]) PROVE <<s[i], ss[m][j]>> \in L
      <4>1. PICK a \in 1 .. m - 1 : \E b \in 1 .. Len(ss[a]) : s[i] = ss[a][b]
        BY <3>1 DEF Gathers
      <4>2. PICK b \in 1 .. Len(ss[a]) : s[i] = ss[a][b]
        BY <4>1
      <4>3. a \in 1 .. last /\ a < m
        BY <1>1, <3>1
      <4>4. AllBefore(ss[a], ss[m], L)
        BY <1>6, <4>3 DEF AllRise, last
      <4> QED
        BY <4>2, <4>4 DEF AllBefore
    <3>5. Rises(s \o ss[m], L)
      <4>1. AllBefore(s, ss[m], L)
        BY <3>4 DEF AllBefore
      <4> QED
        BY <3>1, <3>3, <4>1, RiseOne
    <3> QED
      BY <1>3, <3>1, <3>2, <3>5
  <2> HIDE DEF Q
  <2>3. \A m \in 0 .. last : m \in Q
    BY <1>1, <2>1, <2>2, Counts
  <2> QED
    BY <1>2, <1>4, <2>3 DEF Q
<1> QED
  BY <1>2, <1>4, <1>5, <1>6 DEF last

-----------------------------------------------------------------------------
\* Level, of an index that is not the current one.
NextLevel(ix, s) == FlattenSeq([i \in DOMAIN s |-> Children(ix.node[s[i]])])
LevelsOf(ix) ==
    LET level[k \in 0 .. ix.info.height - 1] ==
            IF k = 0 THEN <<ix.info.root>> ELSE NextLevel(ix, level[k - 1])
    IN  level

LEMMA ChildrenMeans ==
  ASSUME NEW n, NEW rk, NEW ix, Tree(ix, n, rk), NEW p \in 1 .. n, NEW s, s = Children(ix.node[p])
  PROVE  /\ s \in Seq(1 .. n)
         /\ rk[p] = 0 => Len(s) = 0
         /\ rk[p] # 0 => Len(s) = Num(ix, p) + 1 /\ \A i \in 1 .. Num(ix, p) + 1 : s[i] = Kid(ix, p, i - 1)
         /\ Num(ix, p) \in Nat
<1> DEFINE nd == ix.node[p]
<1>0. Num(ix, p) \in Nat
  BY PageFields DEF Num
<1>1. CASE rk[p] = 0
  <2>1. s = <<>>
    BY <1>1, PageFields DEF Children
  <2>2. <<>> \in Seq(1 .. n)
    OBVIOUS
  <2> QED
    BY <1>0, <1>1, <2>1, <2>2
<1>2. CASE rk[p] # 0
  <2> DEFINE c == ChildrenOf(nd.entries)
             B == Below(n, rk, rk[p])
             f == <<nd.leftMost>>
  <2>1. nd.kind = "internal" /\ nd.leftMost \in B /\ n \in Nat
        /\ nd.entries \in Seq(Ents(n, rk, rk[p]))
    BY <1>2, PageFields
  <2>2. c \in Seq(B) /\ Len(c) = Num(ix, p) /\ \A i \in 1 .. Num(ix, p) : c[i] = nd.entries[i].child
    <3>1. c \in Seq(B)
      BY <1>2, <2>1, ChildrenOfEntries
    <3>2. c = [i \in 1 .. Num(ix, p) |-> nd.entries[i].child]
      BY <2>1 DEF ChildrenOf, Num
    <3> HIDE DEF c
    <3> QED
      BY <1>0, <3>1, <3>2
  <2>3. s = f \o c
    BY <2>1 DEF Children, ChildrenOf
  <2>4. f \in Seq(B) /\ Len(f) = 1 /\ f[1] = nd.leftMost
    BY <2>1
  <2>5. \A i \in 0 .. Num(ix, p) : Kid(ix, p, i) = IF i = 0 THEN nd.leftMost ELSE nd.entries[i].child
    BY <1>0 DEF Kid, ChildAt, Num
  <2>6. B \subseteq 1 .. n
    BY DEF Below
  <2> HIDE DEF nd, c, B, f
  <2>7. /\ s \in Seq(B) /\ Len(s) = 1 + Num(ix, p) /\ s[1] = f[1]
        /\ \A i \in 2 .. Num(ix, p) + 1 : s[i] = c[i - 1]
    <3>1. /\ s \in Seq(B) /\ Len(s) = Len(f) + Len(c)
          /\ \A j \in 1 .. Len(f) : s[j] = f[j]
          /\ \A j \in Len(f) + 1 .. Len(f) + Len(c) : s[j] = c[j - Len(f)]
      <4>1. f \in Seq(B) /\ c \in Seq(B)
        BY <2>2, <2>4
      <4>2. /\ f \o c \in Seq(B) /\ Len(f \o c) = Len(f) + Len(c)
            /\ \A j \in 1 .. Len(f) : (f \o c)[j] = f[j]
            /\ \A j \in Len(f) + 1 .. Len(f) + Len(c) : (f \o c)[j] = c[j - Len(f)]
        BY ONLY <4>1, ConcatItems
      <4> QED
        BY <2>3, <4>2
    <3> QED
      BY <1>0, <2>2, <2>4, <3>1
  <2>8. ASSUME NEW i \in 1 .. Num(ix, p) + 1 PROVE s[i] = Kid(ix, p, i - 1)
    <3>1. i - 1 \in 0 .. Num(ix, p)
      BY <1>0
    <3>2. CASE i = 1
      BY <2>4, <2>5, <2>7, <3>1, <3>2
    <3>3. CASE i # 1
      <4>1. i \in 2 .. Num(ix, p) + 1 /\ i - 1 # 0 /\ i - 1 \in 1 .. Num(ix, p)
        BY <1>0, <3>3
      <4>2. s[i] = c[i - 1]
        BY <2>7, <4>1
      <4> QED
        BY <2>2, <2>5, <3>1, <4>1, <4>2
    <3> QED
      BY <3>2, <3>3
  <2>9. s \in Seq(1 .. n)
    BY <2>6, <2>7, SeqMonotonic
  <2> QED
    BY <1>0, <1>2, <2>7, <2>8, <2>9
<1> QED
  BY <1>1, <1>2

\* The pages of level r, if those of the level above are s.
AtLevel(rk, T, r, s) ==
    /\ \A i \in 1 .. Len(s) : s[i] \in T /\ rk[s[i]] = r
    /\ \A p \in T : rk[p] = r => \E i \in 1 .. Len(s) : s[i] = p
\* Page p has smaller keys than q.
Smaller(T, R) == {d \in T \X T : \A x \in R[d[1]] : \A y \in R[d[2]] : x < y}

LEMMA SmallerMeans ==
  ASSUME NEW T, NEW R, NEW p \in T, NEW q \in T
  PROVE  <<p, q>> \in Smaller(T, R) <=> \A x \in R[p] : \A y \in R[q] : x < y
BY DEF Smaller

LEMMA ListOfChildren ==
  ASSUME NEW n, NEW rk, NEW ix, Tree(ix, n, rk), NEW s \in Seq(1 .. n),
         NEW ss, ss = [i \in DOMAIN s |-> Children(ix.node[s[i]])]
  PROVE  /\ ss \in Seq(Seq(1 .. n)) /\ Len(ss) = Len(s) /\ Len(s) \in Nat
         /\ \A i \in 1 .. Len(s) : s[i] \in 1 .. n /\ ss[i] = Children(ix.node[s[i]])
<1>1. Len(s) \in Nat /\ DOMAIN s = 1 .. Len(s) /\ \A i \in 1 .. Len(s) : s[i] \in 1 .. n
  <2> DEFINE D == 1 .. n
  <2>1. s \in Seq(D)
    OBVIOUS
  <2> HIDE DEF D
  <2>2. Len(s) \in Nat /\ DOMAIN s = 1 .. Len(s) /\ \A i \in 1 .. Len(s) : s[i] \in D
    BY ONLY <2>1
  <2> QED
    BY <2>2 DEF D
<1>2. \A i \in 1 .. Len(s) : Children(ix.node[s[i]]) \in Seq(1 .. n)
  BY <1>1, ChildrenMeans
<1> DEFINE U == Seq(1 .. n)
           k == Len(s)
<1> HIDE DEF U, k
<1>3. ss \in [1 .. k -> U] /\ \A i \in 1 .. k : ss[i] = Children(ix.node[s[i]])
  BY <1>1, <1>2 DEF U, k
<1>4. ss \in Seq(U) /\ Len(ss) = k
  BY <1>1, <1>3 DEF k
<1> QED
  BY <1>1, <1>3, <1>4 DEF U, k

-----------------------------------------------------------------------------
LEMMA LevelBelow ==
  ASSUME NEW n, NEW rk, NEW ix, Tree(ix, n, rk), NEW T, T \subseteq 1 .. n, NEW root,
         Family(ix, rk, T, root, NoPage), NEW r \in Nat, r < rk[root],
         NEW s \in Seq(1 .. n), AtLevel(rk, T, r + 1, s), NEW t, t = NextLevel(ix, s)
  PROVE  t \in Seq(1 .. n) /\ AtLevel(rk, T, r, t)
<1> DEFINE ss == [i \in DOMAIN s |-> Children(ix.node[s[i]])]
<1>1. t = FlattenSeq(ss)
  BY DEF NextLevel
<1>2. /\ ss \in Seq(Seq(1 .. n)) /\ Len(ss) = Len(s) /\ Len(s) \in Nat
      /\ \A i \in 1 .. Len(s) : s[i] \in 1 .. n /\ ss[i] = Children(ix.node[s[i]])
  BY ListOfChildren
<1> HIDE DEF ss
<1>3. t \in Seq(1 .. n) /\ Gathers(ss, Len(ss), t)
  <2> DEFINE D == 1 .. n
  <2>1. ss \in Seq(Seq(D))
    BY <1>2
  <2> HIDE DEF D
  <2>2. t \in Seq(D) /\ Gathers(ss, Len(ss), t)
    BY <1>1, <2>1, FlattenMeans
  <2> QED
    BY <2>2 DEF D
<1>4. \A i \in 1 .. Len(s) : s[i] \in T /\ rk[s[i]] = r + 1 /\ rk[s[i]] # 0
  BY DEF AtLevel
<1>5. ASSUME NEW a \in 1 .. Len(s)
      PROVE  /\ Len(ss[a]) = Num(ix, s[a]) + 1 /\ Num(ix, s[a]) \in Nat
             /\ \A i \in 1 .. Num(ix, s[a]) + 1 : ss[a][i] = Kid(ix, s[a], i - 1)
  <2> DEFINE p == s[a]
             c == ss[a]
  <2>1. p \in 1 .. n /\ rk[p] # 0 /\ c = Children(ix.node[p])
    BY <1>2, <1>4
  <2> HIDE DEF p, c
  <2>2. Len(c) = Num(ix, p) + 1 /\ Num(ix, p) \in Nat /\ \A i \in 1 .. Num(ix, p) + 1 : c[i] = Kid(ix, p, i - 1)
    BY <2>1, ChildrenMeans
  <2> QED
    BY <2>2 DEF p, c
<1>6. ASSUME NEW i \in 1 .. Len(t) PROVE t[i] \in T /\ rk[t[i]] = r
  <2>1. PICK a \in 1 .. Len(s) : \E b \in 1 .. Len(ss[a]) : t[i] = ss[a][b]
    <3>1. \A x \in 1 .. Len(t) : \E a \in 1 .. Len(ss) : \E b \in 1 .. Len(ss[a]) : t[x] = ss[a][b]
      BY <1>3 DEF Gathers
    <3> QED
      BY <1>2, <3>1
  <2>2. PICK b \in 1 .. Len(ss[a]) : t[i] = ss[a][b]
    BY <2>1
  <2>3. b \in 1 .. Num(ix, s[a]) + 1 /\ b - 1 \in 0 .. Num(ix, s[a])
    BY <1>5
  <2>4. IsChild(ix, rk, T, root, NoPage, s[a], Kid(ix, s[a], b - 1))
    BY <1>4, <2>3 DEF Family
  <2>5. t[i] = Kid(ix, s[a], b - 1)
    BY <1>5, <2>2, <2>3
  <2>6. t[i] \in T /\ rk[t[i]] + 1 = r + 1
    BY <1>4, <2>4, <2>5 DEF IsChild
  <2>7. rk[t[i]] \in Nat
    BY <2>6 DEF Family
  <2> QED
    BY <2>6, <2>7
<1>7. ASSUME NEW p \in T, rk[p] = r PROVE \E i \in 1 .. Len(t) : t[i] = p
  <2>1. p # root /\ p # NoPage
    BY <1>7 DEF Family
  <2> DEFINE P == Par(ix, p)
  <2>2. HasParent(ix, rk, T, p)
    BY <2>1 DEF Family
  <2>3. PICK j \in 0 .. Num(ix, P) : Kid(ix, P, j) = p
    BY <2>2 DEF HasParent
  <2>4. P \in T /\ rk[P] # 0 /\ rk[P] \in Nat
    BY <2>2 DEF HasParent, Family
  <2>5. IsChild(ix, rk, T, root, NoPage, P, p)
    <3>1. IsChild(ix, rk, T, root, NoPage, P, Kid(ix, P, j))
      BY <2>4 DEF Family
    <3> QED
      BY <2>3, <3>1
  <2>6. rk[P] = r + 1
    BY <1>7, <2>5 DEF IsChild
  <2>7. PICK a \in 1 .. Len(s) : s[a] = P
    BY <2>4, <2>6 DEF AtLevel
  <2>8. j + 1 \in 1 .. Num(ix, s[a]) + 1 /\ j = (j + 1) - 1 /\ j + 1 \in 1 .. Len(ss[a])
    BY <1>5, <2>7
  <2>9. ss[a][j + 1] = p
    BY <1>5, <2>3, <2>7, <2>8
  <2> QED
    BY <1>2, <1>3, <2>8, <2>9 DEF Gathers
<1> QED
  BY <1>3, <1>6, <1>7 DEF AtLevel

\* Children have smaller keys from left to right, and those of a page smaller ones than those of a
\* page to its right.
LEMMA KidsRise ==
  ASSUME NEW ix, NEW rk, NEW T, NEW root, NEW R, KeyedAs(ix, rk, T, root, R),
         Family(ix, rk, T, root, NoPage), NEW p \in T, rk[p] # 0,
         NEW i \in 0 .. Num(ix, p), NEW j \in 0 .. Num(ix, p), i < j
  PROVE  <<Kid(ix, p, i), Kid(ix, p, j)>> \in Smaller(T, R)
<1>1. /\ \A q \in T : R[q] \subseteq Int
      /\ \A k \in 0 .. Num(ix, p) : \A x \in Int : x \in R[Kid(ix, p, k)] <=> Between(ix, R, p, k, x)
      /\ Sorted(ix, p)
      /\ \A k \in 1 .. Num(ix, p) : Key(ix, p, k) \in R[p]
  <2>0. root \in T
    BY DEF Family
  <2>1. /\ \A e \in T : R[e] \subseteq Int /\ R[e] # {} /\ Convex(R[e])
        /\ R[root] = Int
        /\ \A e \in T : rk[e] # 0 =>
              \A m \in 0 .. Num(ix, e) : \A x \in Int :
                 x \in R[Kid(ix, e, m)] <=> Between(ix, R, e, m, x)
        /\ \A e \in T : \A m \in 1 .. Num(ix, e) : Key(ix, e, m) \in R[e]
        /\ \A e \in T : Sorted(ix, e)
    BY <2>0, KeyedPlain
  <2> QED
    BY <2>1
<1>2. Kid(ix, p, i) \in T /\ Kid(ix, p, j) \in T /\ Num(ix, p) \in Nat
  BY DEF Family, IsChild
<1>3. ASSUME NEW x \in R[Kid(ix, p, i)], NEW y \in R[Kid(ix, p, j)] PROVE x < y
  <2>1. x \in Int /\ y \in Int
    BY <1>1, <1>2
  <2>2. i + 1 \in 1 .. Num(ix, p) /\ j \in 1 .. Num(ix, p) /\ i # Num(ix, p) /\ j # 0
    BY <1>2
  <2>3. x < Key(ix, p, i + 1) /\ Key(ix, p, j) <= y
    BY <1>1, <2>1, <2>2 DEF Between
  <2>4. Key(ix, p, i + 1) \in Int /\ Key(ix, p, j) \in Int
    BY <1>1, <2>2
  <2>5. Key(ix, p, i + 1) <= Key(ix, p, j)
    <3>1. CASE i + 1 = j
      BY <2>4, <3>1
    <3>2. CASE i + 1 # j
      <4>1. i + 1 < j
        BY <3>2
      <4> QED
        BY <1>1, <2>2, <2>4, <4>1 DEF Sorted
    <3> QED
      BY <3>1, <3>2
  <2> QED
    BY <2>1, <2>3, <2>4, <2>5
<1> QED
  BY <1>2, <1>3, SmallerMeans

LEMMA CousinsRise ==
  ASSUME NEW ix, NEW rk, NEW T, NEW root, NEW R, KeyedAs(ix, rk, T, root, R),
         Family(ix, rk, T, root, NoPage), NEW p \in T, rk[p] # 0, NEW q \in T, rk[q] # 0,
         <<p, q>> \in Smaller(T, R), NEW i \in 0 .. Num(ix, p), NEW j \in 0 .. Num(ix, q)
  PROVE  <<Kid(ix, p, i), Kid(ix, q, j)>> \in Smaller(T, R)
<1>1. /\ \A c \in T : R[c] \subseteq Int
      /\ \A x \in Int : x \in R[Kid(ix, p, i)] <=> Between(ix, R, p, i, x)
      /\ \A x \in Int : x \in R[Kid(ix, q, j)] <=> Between(ix, R, q, j, x)
  <2>0. root \in T
    BY DEF Family
  <2>1. /\ \A e \in T : R[e] \subseteq Int /\ R[e] # {} /\ Convex(R[e])
        /\ R[root] = Int
        /\ \A e \in T : rk[e] # 0 =>
              \A m \in 0 .. Num(ix, e) : \A x \in Int :
                 x \in R[Kid(ix, e, m)] <=> Between(ix, R, e, m, x)
        /\ \A e \in T : \A m \in 1 .. Num(ix, e) : Key(ix, e, m) \in R[e]
        /\ \A e \in T : Sorted(ix, e)
    BY <2>0, KeyedPlain
  <2> QED
    BY <2>1
<1>2. Kid(ix, p, i) \in T /\ Kid(ix, q, j) \in T
  BY DEF Family, IsChild
<1>3. ASSUME NEW x \in R[Kid(ix, p, i)], NEW y \in R[Kid(ix, q, j)] PROVE x < y
  <2>1. x \in Int /\ y \in Int
    BY <1>1, <1>2
  <2>2. x \in R[p] /\ y \in R[q]
    BY <1>1, <2>1 DEF Between
  <2> QED
    BY <2>2, SmallerMeans
<1> QED
  BY <1>2, <1>3, SmallerMeans

LEMMA LevelBelowRises ==
  ASSUME NEW n, NEW rk, NEW ix, Tree(ix, n, rk), NEW T, T \subseteq 1 .. n, NEW root,
         Family(ix, rk, T, root, NoPage), NEW R, KeyedAs(ix, rk, T, root, R),
         NEW s \in Seq(1 .. n), \A i \in 1 .. Len(s) : s[i] \in T /\ rk[s[i]] # 0,
         Rises(s, Smaller(T, R)), NEW t, t = NextLevel(ix, s)
  PROVE  Rises(t, Smaller(T, R))
<1> DEFINE ss == [i \in DOMAIN s |-> Children(ix.node[s[i]])]
           L == Smaller(T, R)
<1>1. t = FlattenSeq(ss)
  BY DEF NextLevel
<1>2. /\ ss \in Seq(Seq(1 .. n)) /\ Len(ss) = Len(s) /\ Len(s) \in Nat
      /\ \A i \in 1 .. Len(s) : s[i] \in 1 .. n /\ ss[i] = Children(ix.node[s[i]])
  BY ListOfChildren
<1> HIDE DEF ss
<1>5. ASSUME NEW a \in 1 .. Len(s)
      PROVE  /\ Len(ss[a]) = Num(ix, s[a]) + 1 /\ Num(ix, s[a]) \in Nat
             /\ \A i \in 1 .. Num(ix, s[a]) + 1 : ss[a][i] = Kid(ix, s[a], i - 1)
  <2> DEFINE p == s[a]
             c == ss[a]
  <2>1. p \in 1 .. n /\ rk[p] # 0 /\ c = Children(ix.node[p])
    BY <1>2
  <2> HIDE DEF p, c
  <2>2. Len(c) = Num(ix, p) + 1 /\ Num(ix, p) \in Nat /\ \A i \in 1 .. Num(ix, p) + 1 : c[i] = Kid(ix, p, i - 1)
    BY <2>1, ChildrenMeans
  <2> QED
    BY <2>2 DEF p, c
<1>6. ASSUME NEW a \in 1 .. Len(s), NEW i \in 1 .. Len(ss[a])
      PROVE  i - 1 \in 0 .. Num(ix, s[a]) /\ ss[a][i] = Kid(ix, s[a], i - 1)
  BY SMTT(40), <1>5
<1> HIDE DEF L
<1>7. ASSUME NEW a \in 1 .. Len(s) PROVE Rises(ss[a], L)
  <2>1. ASSUME NEW i \in 1 .. Len(ss[a]), NEW j \in 1 .. Len(ss[a]), i < j PROVE <<ss[a][i], ss[a][j]>> \in L
    <3>1. /\ i - 1 \in 0 .. Num(ix, s[a]) /\ ss[a][i] = Kid(ix, s[a], i - 1)
          /\ j - 1 \in 0 .. Num(ix, s[a]) /\ ss[a][j] = Kid(ix, s[a], j - 1) /\ i - 1 < j - 1
      BY <1>6, <2>1
    <3>2. s[a] \in T /\ rk[s[a]] # 0
      OBVIOUS
    <3> QED
      BY <3>1, <3>2, KidsRise DEF L
  <2> QED
    BY <2>1 DEF Rises
<1>8. ASSUME NEW a \in 1 .. Len(s), NEW b \in 1 .. Len(s), a < b PROVE AllBefore(ss[a], ss[b], L)
  <2>1. ASSUME NEW i \in 1 .. Len(ss[a]), NEW j \in 1 .. Len(ss[b]) PROVE <<ss[a][i], ss[b][j]>> \in L
    <3>1. /\ i - 1 \in 0 .. Num(ix, s[a]) /\ ss[a][i] = Kid(ix, s[a], i - 1)
          /\ j - 1 \in 0 .. Num(ix, s[b]) /\ ss[b][j] = Kid(ix, s[b], j - 1)
      BY <1>6
    <3>2. /\ s[a] \in T /\ rk[s[a]] # 0 /\ s[b] \in T /\ rk[s[b]] # 0
          /\ <<s[a], s[b]>> \in Smaller(T, R)
      BY <1>8 DEF Rises
    <3> QED
      BY <3>1, <3>2, CousinsRise DEF L
  <2> QED
    BY <2>1 DEF AllBefore
<1>9. AllRise(ss, L)
  BY <1>2, <1>7, <1>8 DEF AllRise
<1>10. Rises(t, L)
  <2> DEFINE D == 1 .. n
  <2>1. ss \in Seq(Seq(D))
    BY <1>2
  <2> HIDE DEF D
  <2> QED
    BY <1>1, <1>9, <2>1, FlattenMeans
<1> QED
  BY <1>10 DEF L

-----------------------------------------------------------------------------
LEMMA NextLevelTyped ==
  ASSUME NEW n, NEW rk, NEW ix, Tree(ix, n, rk), NEW s \in Seq(1 .. n)
  PROVE  NextLevel(ix, s) \in Seq(1 .. n)
<1> DEFINE ss == [i \in DOMAIN s |-> Children(ix.node[s[i]])]
           D == 1 .. n
<1>1. ss \in Seq(Seq(D))
  BY ListOfChildren
<1>2. NextLevel(ix, s) = FlattenSeq(ss)
  BY DEF NextLevel
<1> HIDE DEF ss, D
<1>3. FlattenSeq(ss) \in Seq(D)
  BY <1>1, FlattenMeans
<1> QED
  BY <1>2, <1>3 DEF D

\* The levels are what the loop says.
LevelsRun(ix, last, lv) ==
    /\ lv = [k \in 0 .. last |-> lv[k]]
    /\ lv[0] = <<ix.info.root>> /\ \A k \in 1 .. last : lv[k] = NextLevel(ix, lv[k - 1])

LEMMA LevelsLoop ==
  ASSUME NEW n, NEW rk, NEW ix, Tree(ix, n, rk), ix.info.root \in 1 .. n,
         NEW last \in Nat, ix.info.height = last + 1, NEW lv, lv = LevelsOf(ix)
  PROVE  LevelsRun(ix, last, lv)
<1> DEFINE U == Seq(1 .. n)
           a == <<ix.info.root>>
           G == [m \in 1 .. last |-> [s \in U |-> NextLevel(ix, s)]]
           f == CHOOSE f : f = [k \in 0 .. ix.info.height - 1 |->
                                   IF k = 0 THEN a ELSE NextLevel(ix, f[k - 1])]
<1>1. ix.info.height - 1 = last
  OBVIOUS
<1>2. a \in U /\ \A s \in U : NextLevel(ix, s) \in U
  BY NextLevelTyped
<1>3. lv = f
  BY DEF LevelsOf
<1> HIDE DEF U, a
<1>4. G \in [1 .. last -> [U -> U]]
  BY <1>2
<1>5. \A m \in 1 .. last : \A s \in U : G[m][s] = NextLevel(ix, s)
  OBVIOUS
<1> HIDE DEF G
<1>6. PICK g \in [0 .. last -> U] : g[0] = a /\ \A m \in 1 .. last : g[m] = G[m][g[m - 1]]
  <2>1. Loops(U, a, last, G)
    BY <1>2, <1>4, LoopExists
  <2> QED
    BY <2>1 DEF Loops
<1>7. \A k \in 0 .. last : g[k] = IF k = 0 THEN a ELSE NextLevel(ix, g[k - 1])
  <2>1. ASSUME NEW k \in 0 .. last, k # 0 PROVE g[k] = NextLevel(ix, g[k - 1])
    <3>1. k \in 1 .. last /\ k - 1 \in 0 .. last
      BY <2>1
    <3> QED
      BY <1>5, <1>6, <3>1
  <2> QED
    BY <1>6, <2>1
<1>8. g = [k \in 0 .. ix.info.height - 1 |-> IF k = 0 THEN a ELSE NextLevel(ix, g[k - 1])]
  <2>1. g = [k \in 0 .. last |-> g[k]]
    BY <1>6
  <2> QED
    BY <1>1, <1>7, <2>1
<1>9. f = [k \in 0 .. ix.info.height - 1 |-> IF k = 0 THEN a ELSE NextLevel(ix, f[k - 1])]
  BY <1>8
<1> HIDE DEF f
<1>10. f = [k \in 0 .. last |-> IF k = 0 THEN a ELSE NextLevel(ix, f[k - 1])]
  BY <1>1, <1>9
<1>11. \A k \in 0 .. last : f[k] = IF k = 0 THEN a ELSE NextLevel(ix, f[k - 1])
  BY <1>10, ZenonT(30)
<1>12. f = [k \in 0 .. last |-> f[k]]
  BY <1>10, <1>11, ZenonT(30)
<1>13. f[0] = a
  <2>1. 0 \in 0 .. last
    OBVIOUS
  <2> QED
    BY <1>11, <2>1
<1>14. \A k \in 1 .. last : f[k] = NextLevel(ix, f[k - 1])
  <2>1. \A k \in 1 .. last : k \in 0 .. last /\ k # 0
    OBVIOUS
  <2> QED
    BY <1>11, <2>1
<1> QED
  BY <1>3, <1>12, <1>13, <1>14 DEF LevelsRun, a

\* The pages of the tree, level by level from the root.
LevelsAre(rk, T, root, n, lv) ==
    \A k \in 0 .. rk[root] : lv[k] \in Seq(1 .. n) /\ AtLevel(rk, T, rk[root] - k, lv[k])

LEMMA RootAlone ==
  ASSUME NEW n, NEW rk, NEW ix, NEW T, NEW root, Shape(ix, n, rk, T, root, NoPage),
         NEW p \in T, rk[p] = rk[root]
  PROVE  p = root
<1>1. ASSUME p # root PROVE FALSE
  <2> DEFINE P == Par(ix, p)
  <2>0. Family(ix, rk, T, root, NoPage) /\ \A q \in T : rk[q] <= rk[root]
    BY DEF Shape
  <2>1. p # NoPage /\ \A q \in T : rk[q] \in Nat
    BY <2>0 DEF Family
  <2>2. HasParent(ix, rk, T, p)
    BY <1>1, <2>0, <2>1 DEF Family
  <2>3. PICK j \in 0 .. Num(ix, P) : Kid(ix, P, j) = p
    BY <2>2 DEF HasParent
  <2>4. P \in T /\ rk[P] # 0
    BY <2>2 DEF HasParent
  <2>5. IsChild(ix, rk, T, root, NoPage, P, Kid(ix, P, j))
    BY <2>0, <2>4 DEF Family
  <2>6. rk[p] + 1 = rk[P] /\ rk[P] <= rk[root] /\ rk[P] \in Nat /\ rk[p] \in Nat
    BY <2>0, <2>1, <2>3, <2>4, <2>5 DEF IsChild
  <2> QED
    BY <2>6
<1> QED
  BY <1>1

LEMMA LevelsMean ==
  ASSUME NEW n, NEW rk, NEW ix, NEW T, NEW root, Shape(ix, n, rk, T, root, NoPage), RootOf(ix, rk, root),
         NEW lv, lv = LevelsOf(ix)
  PROVE  /\ lv = [k \in 0 .. rk[root] |-> lv[k]] /\ rk[root] \in Nat
         /\ LevelsAre(rk, T, root, n, lv)
         /\ \A R : KeyedAs(ix, rk, T, root, R) => \A k \in 0 .. rk[root] : Rises(lv[k], Smaller(T, R))
<1> DEFINE last == rk[root]
<1>1. /\ Tree(ix, n, rk) /\ T \subseteq 1 .. n /\ Family(ix, rk, T, root, NoPage) /\ root \in T
      /\ root \in 1 .. n /\ rk[root] \in Nat /\ n \in Nat
      /\ ix.info.root = root /\ ix.info.height = rk[root] + 1
  BY DEF Shape, Family, RootOf, Tree
<1>2. LevelsRun(ix, last, lv)
  BY <1>1, LevelsLoop
<1>3. lv[0] = <<root>> /\ \A k \in 1 .. last : lv[k] = NextLevel(ix, lv[k - 1])
  BY <1>1, <1>2 DEF LevelsRun
<1>4. lv[0] \in Seq(1 .. n) /\ AtLevel(rk, T, rk[root] - 0, lv[0])
  <2> DEFINE s == <<root>>
  <2>1. s \in Seq(1 .. n) /\ Len(s) = 1 /\ s[1] = root
    BY <1>1
  <2>2. \A p \in T : rk[p] = rk[root] => p = root
    BY RootAlone
  <2> HIDE DEF s
  <2>3. AtLevel(rk, T, rk[root], s)
    BY <1>1, <2>1, <2>2 DEF AtLevel
  <2> QED
    BY <1>1, <1>3, <2>1, <2>3 DEF s
<1>5. LevelsAre(rk, T, root, n, lv)
  <2> DEFINE Q == {k \in 0 .. last : lv[k] \in Seq(1 .. n) /\ AtLevel(rk, T, last - k, lv[k])}
  <2>1. 0 \in Q
    BY <1>1, <1>4
  <2>2. ASSUME NEW m \in 1 .. last, m - 1 \in Q PROVE m \in Q
    <3> DEFINE s == lv[m - 1]
               r == last - m
    <3>1. s \in Seq(1 .. n) /\ AtLevel(rk, T, last - (m - 1), s) /\ lv[m] = NextLevel(ix, s)
      BY <1>3, <2>2
    <3>2. r \in Nat /\ last - (m - 1) = r + 1 /\ r < rk[root] /\ m \in 0 .. last
      BY <1>1
    <3>3. AtLevel(rk, T, r + 1, s)
      BY <3>1, <3>2
    <3> HIDE DEF s, r
    <3>4. lv[m] \in Seq(1 .. n) /\ AtLevel(rk, T, r, lv[m])
      BY <1>1, <3>1, <3>2, <3>3, LevelBelow
    <3> QED
      BY <3>2, <3>4 DEF r
  <2> HIDE DEF Q, last
  <2>3. \A m \in 0 .. last : m \in Q
    BY <1>1, <2>1, <2>2, Counts DEF last
  <2> QED
    BY <2>3 DEF Q, LevelsAre, last
<1>6. ASSUME NEW R, KeyedAs(ix, rk, T, root, R) PROVE \A k \in 0 .. last : Rises(lv[k], Smaller(T, R))
  <2> DEFINE Q == {k \in 0 .. last : Rises(lv[k], Smaller(T, R))}
  <2>1. 0 \in Q
    <3>1. Len(lv[0]) = 1
      BY <1>3
    <3> QED
      BY <1>1, <3>1 DEF Rises
  <2>2. ASSUME NEW m \in 1 .. last, m - 1 \in Q PROVE m \in Q
    <3> DEFINE s == lv[m - 1]
               r == last - (m - 1)
    <3>1. m - 1 \in 0 .. last /\ m \in 0 .. last /\ r \in Nat /\ r # 0
      BY <1>1
    <3>2. Rises(s, Smaller(T, R)) /\ lv[m] = NextLevel(ix, s)
      BY <1>3, <2>2
    <3>3. s \in Seq(1 .. n) /\ AtLevel(rk, T, r, s)
      BY <1>5, <3>1 DEF LevelsAre
    <3> HIDE DEF s, r
    <3>4. \A i \in 1 .. Len(s) : s[i] \in T /\ rk[s[i]] # 0
      BY <3>1, <3>3 DEF AtLevel
    <3>5. Rises(lv[m], Smaller(T, R))
      BY <1>1, <1>6, <3>2, <3>3, <3>4, LevelBelowRises
    <3> QED
      BY <3>1, <3>5
  <2> HIDE DEF Q, last
  <2>3. \A m \in 0 .. last : m \in Q
    BY <1>1, <2>1, <2>2, Counts DEF last
  <2> QED
    BY <2>3 DEF Q
<1>7. lv = [k \in 0 .. last |-> lv[k]]
  BY <1>2 DEF LevelsRun
<1> QED
  BY <1>1, <1>5, <1>6, <1>7

-----------------------------------------------------------------------------
\* TreePages, Internals, LeafLevel and Entries, of an index that is not the current one.
PagesOf(ix) ==
    IF ix.info.root # NoPage
    THEN LET level == LevelsOf(ix) IN UNION {Range(level[k]) : k \in DOMAIN level}
    ELSE {}
InnersOf(ix) == {p \in PagesOf(ix) : ix.node[p].kind = "internal"}
LeavesOf(ix) == LevelsOf(ix)[ix.info.height - 1]
EntriesOf(ix) ==
    IF ix.info.root # NoPage THEN UNION {Range(ix.node[p].entries) : p \in Range(LeavesOf(ix))} ELSE {}

LEMMA LevelIs == Level = LevelsOf(index)
BY DEF Level, LevelsOf, NextLevel

LEMMA LevelIsNow == Level' = LevelsOf(index')
BY DEF Level, LevelsOf, NextLevel

LEMMA NamesAre ==
  /\ TreePages = PagesOf(index) /\ Internals = InnersOf(index) /\ LeafLevel = LeavesOf(index)
  /\ Entries = EntriesOf(index)
BY LevelIs DEF TreePages, PagesOf, Internals, InnersOf, LeafLevel, LeavesOf, Entries, EntriesOf, Created

LEMMA NamesAreNow ==
  /\ TreePages' = PagesOf(index') /\ Internals' = InnersOf(index') /\ LeafLevel' = LeavesOf(index')
  /\ Entries' = EntriesOf(index')
BY LevelIsNow DEF TreePages, PagesOf, Internals, InnersOf, LeafLevel, LeavesOf, Entries, EntriesOf, Created

\* A page is in one of the levels, the leaves are in the last one.
LEMMA PagesMean ==
  ASSUME NEW n, NEW rk, NEW ix, NEW T, NEW root, Shape(ix, n, rk, T, root, NoPage), RootOf(ix, rk, root)
  PROVE  /\ PagesOf(ix) = T
         /\ InnersOf(ix) = {p \in T : rk[p] # 0}
         /\ LeavesOf(ix) \in Seq(1 .. n) /\ AtLevel(rk, T, 0, LeavesOf(ix))
         /\ \A R : KeyedAs(ix, rk, T, root, R) => Rises(LeavesOf(ix), Smaller(T, R))
<1> DEFINE lv == LevelsOf(ix)
           last == rk[root]
<1>1. /\ Tree(ix, n, rk) /\ T \subseteq 1 .. n /\ root \in T /\ NoPage \notin T
      /\ ix.info.root = root /\ ix.info.height = rk[root] + 1
      /\ \A p \in T : p \in 1 .. n /\ rk[p] \in Nat /\ rk[p] <= rk[root]
  BY DEF Shape, Family, RootOf
<1>2. /\ lv = [k \in 0 .. last |-> lv[k]] /\ last \in Nat
      /\ LevelsAre(rk, T, root, n, lv)
      /\ \A R : KeyedAs(ix, rk, T, root, R) => \A k \in 0 .. last : Rises(lv[k], Smaller(T, R))
  BY LevelsMean
<1>3. PagesOf(ix) = UNION {Range(lv[k]) : k \in DOMAIN lv} /\ ix.info.height - 1 = last
  BY <1>1, <1>2 DEF PagesOf
<1>4. LeavesOf(ix) = lv[last]
  BY <1>3 DEF LeavesOf
<1> HIDE DEF lv
<1>5. DOMAIN lv = 0 .. last
  BY <1>2
<1>6. \A k \in 0 .. last : lv[k] \in Seq(1 .. n) /\ AtLevel(rk, T, last - k, lv[k])
  BY <1>2 DEF LevelsAre
<1>7. PagesOf(ix) = T
  <2>1. ASSUME NEW k \in 0 .. last, NEW p \in Range(lv[k]) PROVE p \in T
    <3>1. PICK i \in DOMAIN lv[k] : p = lv[k][i]
      BY DEF Range
    <3>2. i \in 1 .. Len(lv[k])
      BY <1>6, <3>1, LenProperties
    <3> QED
      BY <1>6, <3>1, <3>2 DEF AtLevel
  <2>2. ASSUME NEW p \in T PROVE \E k \in 0 .. last : p \in Range(lv[k])
    <3> DEFINE k == last - rk[p]
    <3>1. k \in 0 .. last /\ last - k = rk[p]
      BY <1>1, <1>2
    <3> HIDE DEF k
    <3>2. PICK i \in 1 .. Len(lv[k]) : lv[k][i] = p
      BY <1>6, <3>1 DEF AtLevel
    <3>3. i \in DOMAIN lv[k]
      BY <1>6, <3>1, <3>2, LenProperties
    <3> QED
      BY <3>1, <3>2, <3>3 DEF Range
  <2> QED
    BY <1>3, <1>5, <2>1, <2>2
<1>8. InnersOf(ix) = {p \in T : rk[p] # 0}
  <2>1. \A p \in T : ix.node[p].kind = IF rk[p] = 0 THEN "leaf" ELSE "internal"
    BY <1>1, PageFields
  <2> QED
    BY <1>7, <2>1 DEF InnersOf
<1>9. last \in 0 .. last /\ last - last = 0
  BY <1>2
<1> QED
  BY <1>2, <1>4, <1>6, <1>7, <1>8, <1>9

\* What is in the leaves is what their lists have.
LEMMA EntriesMean ==
  ASSUME NEW n, NEW rk, NEW ix, NEW T, NEW root, Shape(ix, n, rk, T, root, NoPage), RootOf(ix, rk, root)
  PROVE  EntriesOf(ix) = Items(ix, rk, T)
<1> DEFINE s == LeavesOf(ix)
<1>1. /\ Tree(ix, n, rk) /\ T \subseteq 1 .. n /\ root \in T /\ NoPage \notin T
      /\ ix.info.root = root /\ \A p \in T : p \in 1 .. n
  BY DEF Shape, Family, RootOf
<1>2. s \in Seq(1 .. n) /\ AtLevel(rk, T, 0, s)
  BY PagesMean
<1>3. EntriesOf(ix) = UNION {Range(ix.node[p].entries) : p \in Range(s)}
  BY <1>1 DEF EntriesOf
<1> HIDE DEF s
<1>4. \A p : p \in Range(s) <=> p \in T /\ rk[p] = 0
  <2>1. DOMAIN s = 1 .. Len(s)
    BY <1>2, LenProperties
  <2> QED
    BY <1>2, <2>1 DEF Range, AtLevel
<1>5. ASSUME NEW p \in T, rk[p] = 0
      PROVE  \A e : e \in Range(ix.node[p].entries) <=> e \in Records /\ \E i \in 1 .. Num(ix, p) : Item(ix, p, i) = e
  <2> DEFINE u == ix.node[p].entries
  <2>1. u \in Seq(Records)
    BY <1>1, <1>5, PageFields DEF Ents
  <2>2. Len(u) = Num(ix, p) /\ \A i : u[i] = Item(ix, p, i)
    BY DEF Num, Item
  <2> HIDE DEF u
  <2>3. DOMAIN u = 1 .. Len(u) /\ \A i \in 1 .. Len(u) : u[i] \in Records
    BY <2>1
  <2>4. \A e : e \in Range(u) <=> e \in Records /\ \E i \in 1 .. Num(ix, p) : Item(ix, p, i) = e
    BY <2>2, <2>3 DEF Range
  <2> QED
    BY <2>4 DEF u
<1>6. ASSUME NEW e PROVE e \in EntriesOf(ix) <=> e \in Items(ix, rk, T)
  BY <1>3, <1>4, <1>5 DEF Items
<1> QED
  BY <1>6

\* What a tree has, as the properties say it.
LEMMA LinksHold ==
  ASSUME NEW n, NEW rk, NEW T, NEW root, Shape(index, n, rk, T, root, NoPage), RootOf(index, rk, root)
  PROVE  LinksAgree
<1>1. /\ Tree(index, n, rk) /\ T \subseteq 1 .. n /\ Family(index, rk, T, root, NoPage)
      /\ index.info.root = root /\ Par(index, root) = NoPage
      /\ \A p \in T : p \in 1 .. n
  BY DEF Shape, Family, RootOf
<1>2. /\ Internals = {p \in T : rk[p] # 0}
      /\ LeafLevel \in Seq(1 .. n) /\ AtLevel(rk, T, 0, LeafLevel)
  <2>1. /\ InnersOf(index) = {p \in T : rk[p] # 0}
        /\ LeavesOf(index) \in Seq(1 .. n) /\ AtLevel(rk, T, 0, LeavesOf(index))
    BY PagesMean
  <2> QED
    BY <2>1, NamesAre
<1>3. index.node[index.info.root].parent = NoPage
  BY <1>1 DEF Par
<1>4. ASSUME NEW p \in Range(LeafLevel) PROVE index.node[p].kind = "leaf"
  <2>1. PICK i \in 1 .. Len(LeafLevel) : p = LeafLevel[i]
    BY <1>2, LenProperties DEF Range
  <2>2. p \in T /\ rk[p] = 0
    BY <1>2, <2>1 DEF AtLevel
  <2> QED
    BY <1>1, <2>2, PageFields
<1>5. ASSUME NEW p \in Internals, NEW c \in Range(Children(index.node[p]))
      PROVE  index.node[c].parent = p
  <2> DEFINE s == Children(index.node[p])
  <2>1. p \in T /\ p \in 1 .. n /\ rk[p] # 0
    BY <1>1, <1>2
  <2>2. /\ s \in Seq(1 .. n) /\ Len(s) = Num(index, p) + 1 /\ Num(index, p) \in Nat
        /\ \A i \in 1 .. Num(index, p) + 1 : s[i] = Kid(index, p, i - 1)
    BY <1>1, <2>1, ChildrenMeans
  <2> HIDE DEF s
  <2>3. PICK i \in 1 .. Len(s) : c = s[i]
    BY <2>2, LenProperties DEF Range, s
  <2>4. i - 1 \in 0 .. Num(index, p) /\ c = Kid(index, p, i - 1)
    BY <2>2, <2>3
  <2>5. IsChild(index, rk, T, root, NoPage, p, Kid(index, p, i - 1))
    BY <1>1, <2>1, <2>4 DEF Family
  <2> QED
    BY <2>4, <2>5 DEF IsChild, Par
<1> QED
  BY <1>3, <1>4, <1>5 DEF LinksAgree

LEMMA HalfHolds ==
  ASSUME NEW n, NEW rk, NEW T, NEW root, NEW whole, NEW s,
         Good(index, n, rk, T, root, NoPage, whole, s), RootOf(index, rk, root), MaxKeys % 2 = 0
  PROVE  HalfFull
<1>1. MaxKeys >= 2
  BY IndexAssumption
<1>2. Filled(index, rk, T, root, NoPage) /\ Shape(index, n, rk, T, root, NoPage)
  BY <1>1 DEF Good
<1>3. TreePages = T /\ index.info.root = root /\ NoPage \notin T /\ \A p \in T : Num(index, p) \in Nat
  BY <1>2, PagesMean, NamesAre DEF RootOf, Shape, Family
<1>4. ASSUME NEW p \in T \ {root} PROVE Len(index.node[p].entries) >= MinKeys
  <2>1. Num(index, p) + 0 >= Need(rk, root, p)
    BY <1>2, <1>3 DEF Filled
  <2>2. Need(rk, root, p) = MinKeys
    BY DEF Need, AtLeast
  <2>3. Num(index, p) >= MinKeys
    BY <1>3, <2>1, <2>2
  <2> QED
    BY <2>3 DEF Num
<1> QED
  BY <1>3, <1>4 DEF HalfFull

-----------------------------------------------------------------------------
NotGreater == {d \in Records \X Records : d[1].key <= d[2].key}

\* The lists of leaves with smaller and smaller keys, one after the other.
LEMMA LeavesRise ==
  ASSUME NEW n, NEW rk, NEW ix, NEW T, NEW root, Shape(ix, n, rk, T, root, NoPage),
         NEW R, KeyedAs(ix, rk, T, root, R),
         NEW s \in Seq(1 .. n), AtLevel(rk, T, 0, s), Rises(s, Smaller(T, R)),
         NEW t, t = FlattenSeq([i \in DOMAIN s |-> ix.node[s[i]].entries])
  PROVE  t \in Seq(Records) /\ Rises(t, NotGreater)
<1> DEFINE ss == [i \in DOMAIN s |-> ix.node[s[i]].entries]
           k == Len(s)
           U == Seq(Records)
<1>1. Tree(ix, n, rk) /\ T \subseteq 1 .. n /\ root \in T /\ Family(ix, rk, T, root, NoPage)
  BY DEF Shape, Family
<1>2. k \in Nat /\ DOMAIN s = 1 .. k
  BY LenProperties
<1>3. \A i \in 1 .. k : s[i] \in T /\ s[i] \in 1 .. n /\ rk[s[i]] = 0
  BY <1>1 DEF AtLevel
<1>4. ASSUME NEW p \in T, rk[p] = 0
      PROVE  /\ ix.node[p].entries \in Seq(Records) /\ Num(ix, p) = Len(ix.node[p].entries)
             /\ \A i : ix.node[p].entries[i] = Item(ix, p, i) /\ Item(ix, p, i).key = Key(ix, p, i)
  <2>1. p \in 1 .. n
    BY <1>1
  <2>2. ix.node[p].entries \in Seq(Records)
    BY <1>1, <1>4, <2>1, PageFields DEF Ents
  <2> QED
    BY <2>2 DEF Num, Item, Key
<1>5. /\ \A p \in T : R[p] \subseteq Int /\ \A i \in 1 .. Num(ix, p) : Key(ix, p, i) \in R[p]
      /\ \A p \in T : Sorted(ix, p)
  <2>1. /\ \A e \in T : R[e] \subseteq Int /\ R[e] # {} /\ Convex(R[e])
        /\ R[root] = Int
        /\ \A e \in T : rk[e] # 0 =>
              \A m \in 0 .. Num(ix, e) : \A x \in Int :
                 x \in R[Kid(ix, e, m)] <=> Between(ix, R, e, m, x)
        /\ \A e \in T : \A m \in 1 .. Num(ix, e) : Key(ix, e, m) \in R[e]
        /\ \A e \in T : Sorted(ix, e)
    BY <1>1, KeyedPlain
  <2> QED
    BY <2>1
<1>6. t = FlattenSeq(ss)
  OBVIOUS
<1>7. \A i \in 1 .. k : ss[i] = ix.node[s[i]].entries /\ ss[i] \in U
  BY <1>2, <1>3, <1>4
<1>8. ss \in Seq(U) /\ Len(ss) = k
  <2>1. ss \in [1 .. k -> U]
    BY <1>2, <1>7
  <2> HIDE DEF ss, U, k
  <2> QED
    BY <1>2, <2>1
<1> HIDE DEF ss, U, k
<1>9. ASSUME NEW a \in 1 .. k
      PROVE  /\ Len(ss[a]) = Num(ix, s[a])
             /\ \A i \in 1 .. Len(ss[a]) : /\ ss[a][i] \in Records /\ ss[a][i].key = Key(ix, s[a], i)
                                           /\ Key(ix, s[a], i) \in R[s[a]] /\ Key(ix, s[a], i) \in Int
  <2> DEFINE p == s[a]
             c == ss[a]
  <2>1. p \in T /\ rk[p] = 0 /\ c = ix.node[p].entries /\ c \in Seq(Records)
    BY <1>3, <1>4, <1>7
  <2> HIDE DEF p, c
  <2>2. Num(ix, p) = Len(c) /\ \A i : c[i].key = Key(ix, p, i)
    BY <1>4, <2>1
  <2>3. \A i \in 1 .. Len(c) : c[i] \in Records
    BY <2>1
  <2>4. \A i \in 1 .. Len(c) : Key(ix, p, i) \in R[p] /\ Key(ix, p, i) \in Int
    BY <1>5, <2>1, <2>2
  <2> QED
    BY <2>2, <2>3, <2>4 DEF p, c
<1>10. ASSUME NEW a \in 1 .. k PROVE Rises(ss[a], NotGreater)
  <2>1. ASSUME NEW i \in 1 .. Len(ss[a]), NEW j \in 1 .. Len(ss[a]), i < j
        PROVE  <<ss[a][i], ss[a][j]>> \in NotGreater
    <3>1. Key(ix, s[a], i) < Key(ix, s[a], j)
      BY <1>3, <1>5, <1>9, <2>1 DEF Sorted
    <3>2. ss[a][i].key <= ss[a][j].key /\ ss[a][i] \in Records /\ ss[a][j] \in Records
      BY <1>9, <3>1
    <3> QED
      BY <3>2 DEF NotGreater
  <2> QED
    BY <2>1 DEF Rises
<1>11. ASSUME NEW a \in 1 .. k, NEW b \in 1 .. k, a < b PROVE AllBefore(ss[a], ss[b], NotGreater)
  <2>1. ASSUME NEW i \in 1 .. Len(ss[a]), NEW j \in 1 .. Len(ss[b])
        PROVE  <<ss[a][i], ss[b][j]>> \in NotGreater
    <3>0. <<s[a], s[b]>> \in Smaller(T, R) /\ s[a] \in T /\ s[b] \in T
      BY <1>3, <1>11 DEF Rises, k
    <3>1. \A x \in R[s[a]] : \A y \in R[s[b]] : x < y
      BY <3>0, SmallerMeans
    <3>2. ss[a][i].key <= ss[b][j].key /\ ss[a][i] \in Records /\ ss[b][j] \in Records
      <4>1. /\ ss[a][i] \in Records /\ ss[a][i].key = Key(ix, s[a], i)
            /\ Key(ix, s[a], i) \in R[s[a]] /\ Key(ix, s[a], i) \in Int
        BY <1>9
      <4>2. /\ ss[b][j] \in Records /\ ss[b][j].key = Key(ix, s[b], j)
            /\ Key(ix, s[b], j) \in R[s[b]] /\ Key(ix, s[b], j) \in Int
        BY <1>9
      <4>3. Key(ix, s[a], i) < Key(ix, s[b], j)
        BY <3>1, <4>1, <4>2
      <4> QED
        BY <4>1, <4>2, <4>3
    <3> QED
      BY <3>2 DEF NotGreater
  <2> QED
    BY <2>1 DEF AllBefore
<1>12. AllRise(ss, NotGreater)
  BY <1>8, <1>10, <1>11 DEF AllRise
<1> QED
  BY <1>6, <1>8, <1>12, FlattenMeans DEF U

LEMMA OrderHolds ==
  ASSUME NEW n, NEW rk, NEW T, NEW root, NEW whole, NEW s,
         Good(index, n, rk, T, root, NoPage, whole, s), RootOf(index, rk, root), Unique, MaxKeys >= 2
  PROVE  Ordered
<1> DEFINE leaves == LeafLevel
           entries == FlattenSeq([i \in DOMAIN leaves |-> index.node[leaves[i]].entries])
<1>1. Shape(index, n, rk, T, root, NoPage)
  BY DEF Good
<1>2. /\ Tree(index, n, rk) /\ T \subseteq 1 .. n /\ index.info.root = root /\ NoPage \notin T
  BY <1>1 DEF Shape, Family, RootOf
<1>3. PICK R : KeyedAs(index, rk, T, root, R)
  BY DEF Good
<1>4. /\ leaves \in Seq(1 .. n) /\ AtLevel(rk, T, 0, leaves) /\ Rises(leaves, Smaller(T, R))
  <2>1. /\ LeavesOf(index) \in Seq(1 .. n) /\ AtLevel(rk, T, 0, LeavesOf(index))
        /\ Rises(LeavesOf(index), Smaller(T, R))
    BY <1>1, <1>3, PagesMean
  <2> QED
    BY <2>1, NamesAre
<1> HIDE DEF leaves
<1>5. entries \in Seq(Records) /\ Rises(entries, NotGreater)
  BY <1>1, <1>3, <1>4, LeavesRise
<1> HIDE DEF entries
<1>6. ASSUME NEW i \in DOMAIN entries, NEW j \in DOMAIN entries, i < j
      PROVE  entries[i].key <= entries[j].key
  <2>1. i \in 1 .. Len(entries) /\ j \in 1 .. Len(entries)
    BY <1>5, LenProperties
  <2>2. <<entries[i], entries[j]>> \in NotGreater
    BY <1>5, <1>6, <2>1 DEF Rises
  <2> QED
    BY <2>2 DEF NotGreater
<1>7. ASSUME NEW p \in Range(leaves), NEW e \in Range(index.node[p].entries)
      PROVE  FindLeafFrom(index, index.info.root, e.key) = p
  <2>1. PICK a \in 1 .. Len(leaves) : leaves[a] = p
    BY <1>4, LenProperties DEF Range
  <2>2. p \in T /\ rk[p] = 0 /\ p \in 1 .. n
    BY <1>2, <1>4, <2>1 DEF AtLevel
  <2> DEFINE u == index.node[p].entries
             q == FindLeafFrom(index, root, e.key)
  <2>3. u \in Seq(Records) /\ Num(index, p) = Len(u) /\ \A i : u[i] = Item(index, p, i)
    BY <1>2, <2>2, PageFields DEF Ents, Num, Item
  <2>4. PICK i \in 1 .. Num(index, p) : u[i] = e /\ e \in Records
    <3> HIDE DEF u
    <3>1. DOMAIN u = 1 .. Len(u) /\ \A i \in 1 .. Len(u) : u[i] \in Records
      BY <2>3
    <3>2. e \in Range(u)
      BY DEF u
    <3> QED
      BY <2>3, <3>1, <3>2 DEF Range
  <2>5. Key(index, p, i) = e.key /\ e.key \in Int
    BY <2>3, <2>4, KeyOfItem, RecordKeys
  <2>6. q = FindLeafFrom(index, root, e.key)
    OBVIOUS
  <2> HIDE DEF q, u
  <2>7. /\ q = NoPage \/ (q \in T /\ rk[q] = 0)
        /\ MaxKeys >= 2 => q # NoPage
        /\ Unique /\ q # NoPage => Belongs(index, rk, T, root, q, e.key)
    <3>1. NoPage \in T => rk[NoPage] = 0
      BY <1>2
    <3> QED
      BY <2>5, <2>6, <3>1, SearchFinds
  <2>8. q \in T /\ rk[q] = 0 /\ Belongs(index, rk, T, root, q, e.key)
    BY <2>7
  <2>9. p = q
    <3>1. NoPage \in T => rk[NoPage] = 0
      BY <1>2
    <3> QED
      BY <2>2, <2>5, <2>8, FoundThere
  <2> QED
    BY <1>2, <2>6, <2>9
<1> QED
  BY <1>6, <1>7 DEF Ordered, entries, leaves

LEMMA ChainHolds ==
  ASSUME NEW n, NEW rk, NEW T, NEW root, NEW s,
         Good(index, n, rk, T, root, NoPage, failures = 0, s), RootOf(index, rk, root), Unique
  PROVE  LeafChain
<1> DEFINE leaves == LeafLevel
<1>0. SUFFICES ASSUME failures = 0, NEW i \in DOMAIN leaves
      PROVE  /\ index.node[leaves[i]].next = IF i = Len(leaves) THEN NoPage ELSE leaves[i + 1]
             /\ \A j \in i .. Len(leaves) : index.node[leaves[i]].prev # leaves[j]
  BY DEF LeafChain
<1>1. Shape(index, n, rk, T, root, NoPage)
  BY DEF Good
<1>2. root \in T /\ Family(index, rk, T, root, NoPage) /\ NoPage \notin T
  BY <1>1 DEF Shape, Family
<1>3. PICK R : KeyedAs(index, rk, T, root, R) /\ Chained(index, rk, T, R)
  BY <1>0 DEF Good
<1>4. /\ leaves \in Seq(1 .. n) /\ AtLevel(rk, T, 0, leaves) /\ Rises(leaves, Smaller(T, R))
  <2>1. /\ LeavesOf(index) \in Seq(1 .. n) /\ AtLevel(rk, T, 0, LeavesOf(index))
        /\ Rises(LeavesOf(index), Smaller(T, R))
    BY <1>1, <1>3, PagesMean
  <2> QED
    BY <2>1, NamesAre
<1> HIDE DEF leaves
<1>5. Len(leaves) \in Nat /\ i \in 1 .. Len(leaves)
  BY <1>4, LenProperties
<1>6. \A q \in T : R[q] \subseteq Int /\ R[q] # {}
  <2>1. /\ \A e \in T : R[e] \subseteq Int /\ R[e] # {} /\ Convex(R[e])
        /\ R[root] = Int
        /\ \A e \in T : rk[e] # 0 =>
              \A m \in 0 .. Num(index, e) : \A x \in Int :
                 x \in R[Kid(index, e, m)] <=> Between(index, R, e, m, x)
        /\ \A e \in T : \A m \in 1 .. Num(index, e) : Key(index, e, m) \in R[e]
        /\ \A e \in T : Sorted(index, e)
    BY <1>2, <1>3, KeyedPlain
  <2> QED
    BY <2>1
<1>7. ASSUME NEW a \in 1 .. Len(leaves), NEW b \in 1 .. Len(leaves), a < b
      PROVE  \A x \in R[leaves[a]] : \A y \in R[leaves[b]] : x < y
  <2>1. <<leaves[a], leaves[b]>> \in Smaller(T, R) /\ leaves[a] \in T /\ leaves[b] \in T
    BY <1>4, <1>7 DEF Rises, AtLevel
  <2> QED
    BY <2>1, SmallerMeans
<1>8. \A a \in 1 .. Len(leaves) : leaves[a] \in T /\ rk[leaves[a]] = 0
  BY <1>4 DEF AtLevel
<1> DEFINE p == leaves[i]
           nd == index.node[p]
<1>9. p \in T /\ rk[p] = 0
  BY <1>5, <1>8
<1>10. PICK x \in R[p] : x \in Int
  BY <1>6, <1>9
<1>11. /\ nd.next = NoPage => \A x1 \in R[p] : \A y \in Int : x1 < y => y \in R[p]
       /\ nd.next # NoPage => nd.next \in T /\ rk[nd.next] = 0 /\ Meets(R[p], R[nd.next])
       /\ nd.prev \in T /\ rk[nd.prev] = 0 => \A x1 \in R[nd.prev] : \A y \in R[p] : x1 < y
  BY <1>3, <1>9 DEF Chained
<1> HIDE DEF nd
<1>12. ASSUME nd.next = NoPage PROVE nd.next = IF i = Len(leaves) THEN NoPage ELSE leaves[i + 1]
  <2>1. i = Len(leaves)
    <3>1. ASSUME i # Len(leaves) PROVE FALSE
      <4>1. i + 1 \in 1 .. Len(leaves) /\ i < i + 1
        BY <1>5, <3>1
      <4>2. PICK y \in R[leaves[i + 1]] : y \in Int
        BY <1>6, <1>8, <4>1
      <4>3. x < y
        BY <1>5, <1>7, <1>10, <4>1, <4>2
      <4>4. y \in R[p]
        BY <1>10, <1>11, <1>12, <4>2, <4>3
      <4>5. y < y
        BY <1>5, <1>7, <4>1, <4>2, <4>4
      <4> QED
        BY <4>2, <4>5
    <3> QED
      BY <3>1
  <2> QED
    BY <1>12, <2>1
<1>13. ASSUME nd.next # NoPage PROVE nd.next = IF i = Len(leaves) THEN NoPage ELSE leaves[i + 1]
  <2> DEFINE q == nd.next
  <2>1. q \in T /\ rk[q] = 0 /\ Meets(R[p], R[q])
    BY <1>11, <1>13
  <2>2. PICK j \in 1 .. Len(leaves) : leaves[j] = q
    BY <1>4, <2>1 DEF AtLevel
  <2>3. PICK y \in R[q] : y \in Int
    BY <1>6, <2>1
  <2>4. /\ x < y
        /\ \A x1 \in R[p] : \A y1 \in R[q] : \A z \in Int : x1 < z /\ z < y1 => z \in R[p] \union R[q]
    BY <1>10, <2>1, <2>3 DEF Meets
  <2> HIDE DEF q
  <2>5. i < j
    <3>1. i # j
      <4>1. ASSUME i = j PROVE FALSE
        <5>1. y \in R[p]
          BY <2>2, <2>3, <4>1
        <5>2. y < y
          BY <2>1, <2>3, <5>1 DEF Meets
        <5> QED
          BY <2>3, <5>2
      <4> QED
        BY <4>1
    <3>2. ~(j < i)
      <4>1. ASSUME j < i PROVE FALSE
        <5>1. y < x
          BY <1>5, <1>7, <1>10, <2>2, <2>3, <4>1
        <5> QED
          BY <1>10, <2>3, <2>4, <5>1
      <4> QED
        BY <4>1
    <3> QED
      BY <1>5, <3>1, <3>2
  <2>6. j = i + 1
    <3>1. ASSUME j # i + 1 PROVE FALSE
      <4>1. i + 1 \in 1 .. Len(leaves) /\ i < i + 1 /\ i + 1 < j
        BY <1>5, <2>5, <3>1
      <4>2. PICK z \in R[leaves[i + 1]] : z \in Int
        BY <1>6, <1>8, <4>1
      <4>3. x < z /\ z < y
        BY <1>5, <1>7, <1>10, <2>2, <2>3, <4>1, <4>2
      <4>4. z \in R[p] \/ z \in R[q]
        BY <1>10, <2>3, <2>4, <4>2, <4>3
      <4>5. z < z
        BY <1>5, <1>7, <2>2, <4>1, <4>2, <4>4
      <4> QED
        BY <4>2, <4>5
    <3> QED
      BY <3>1
  <2>7. i # Len(leaves)
    BY <1>5, <2>5
  <2> QED
    BY <2>2, <2>6, <2>7 DEF q
<1>14. ASSUME NEW j \in i .. Len(leaves) PROVE nd.prev # leaves[j]
  <2>1. ASSUME nd.prev = leaves[j] PROVE FALSE
    <3>1. j \in 1 .. Len(leaves)
      BY <1>5
    <3>2. nd.prev \in T /\ rk[nd.prev] = 0
      BY <1>8, <2>1, <3>1
    <3>3. PICK y \in R[leaves[j]] : y \in Int
      BY <1>6, <1>8, <3>1
    <3>4. y < x
      BY <1>10, <1>11, <2>1, <3>2, <3>3
    <3>5. CASE i = j
      <4>1. y < y
        BY <1>11, <2>1, <3>2, <3>3, <3>5
      <4> QED
        BY <3>3, <4>1
    <3>6. CASE i # j
      <4>1. i < j
        BY <1>5, <3>6
      <4>2. x < y
        BY <1>5, <1>7, <1>10, <3>1, <3>3, <4>1
      <4> QED
        BY <1>10, <3>3, <3>4, <4>2
    <3> QED
      BY <3>5, <3>6
  <2> QED
    BY <2>1
<1> QED
  BY <1>12, <1>13, <1>14 DEF nd

-----------------------------------------------------------------------------
\* createIndex is a loop over the records.
FillsIn(f, call, scan, last) ==
    /\ f[0] = OnePage /\ call.info = OnePage.info
    /\ \A m \in 1 .. last : f[m] = InsertKey(f[m - 1], call, scan[m])

LEMMA FilledRuns ==
  ASSUME NEW last \in Nat, NEW scan \in [1 .. last -> Records]
  PROVE  \E f, call : FillsIn(f, call, scan, last) /\ Backfilled(scan) = UpdateIndexInfo(f[last], 1, 1)
<1> DEFINE one == [root |-> 1, height |-> 1]
           call == [info |-> one, limit |-> MaxPages + 1]
           Turn(ix, m) == InsertKey(ix, call, scan[m])
           S == {ix \in Shapes : HasTree(ix, 1)}
           G == [m \in 1 .. last |-> [ix \in S |-> Turn(ix, m)]]
           f == CHOOSE f :
                  f = [m \in 0 .. last |-> IF m = 0 THEN OnePage ELSE Turn(f[m - 1], m)]
<1>0. Len(scan) = last
  <2>1. scan \in Seq(Records)
    OBVIOUS
  <2> QED
    BY <2>1, LenProperties
<1>1. \A ix : HasTree(ix, 1) => ix \in S
  BY TreeHasShape DEF HasTree
<1>2. OnePage \in S
  BY <1>1, OnePageTree
<1>3. ASSUME NEW ix \in S, NEW m \in 1 .. last PROVE Turn(ix, m) \in S
  <2>1. PICK n, rk : n >= 1 /\ Tree(ix, n, rk)
    BY DEF HasTree
  <2>2. call.info.root = 1 /\ call.info.height = 1 /\ n \in Nat
    BY <2>1 DEF Tree
  <2>3. call.info.root \in 0 .. n /\ call.info.height \in Nat
    BY <2>1, <2>2
  <2> HIDE DEF call, S
  <2>4. HasTree(InsertKey(ix, call, scan[m]), 1)
    BY <2>1, <2>3, InsertTree
  <2> QED
    BY <1>1, <2>4
<1>4. call.info = OnePage.info
  BY DEF OnePage
<1>5. Backfilled(scan) = [f[last] EXCEPT !.info = one]
  BY <1>0 DEF Backfilled, OnePage
<1> HIDE DEF Turn, S
<1>6. G \in [1 .. last -> [S -> S]]
  BY <1>3
<1>7. \A ix \in S : \A m \in 1 .. last : G[m][ix] = Turn(ix, m)
  OBVIOUS
<1> HIDE DEF G
<1>8. PICK g \in [0 .. last -> S] :
        g[0] = OnePage /\ \A m \in 1 .. last : g[m] = G[m][g[m - 1]]
  <2>1. Loops(S, OnePage, last, G)
    BY <1>2, <1>6, LoopExists
  <2> QED
    BY <2>1 DEF Loops
<1>9. g = [m \in 0 .. last |-> IF m = 0 THEN OnePage ELSE Turn(g[m - 1], m)]
  <2>1. ASSUME NEW m \in 0 .. last
        PROVE g[m] = IF m = 0 THEN OnePage ELSE Turn(g[m - 1], m)
    <3>1. m # 0 => m \in 1 .. last /\ g[m - 1] \in S
      OBVIOUS
    <3> QED
      BY <1>7, <1>8, <3>1
  <2>2. g = [m \in 0 .. last |-> g[m]]
    OBVIOUS
  <2> QED
    BY <2>1, <2>2
<1>10. f = [m \in 0 .. last |-> IF m = 0 THEN OnePage ELSE Turn(f[m - 1], m)]
  BY <1>9
<1> HIDE DEF f
<1>11. FillsIn(f, call, scan, last)
  <2>1. \A m \in 0 .. last : f[m] = IF m = 0 THEN OnePage ELSE Turn(f[m - 1], m)
    BY <1>10, ZenonT(30)
  <2>2. f[0] = OnePage
    BY <2>1
  <2>3. \A m \in 1 .. last : f[m] = Turn(f[m - 1], m)
    <3>1. \A m \in 1 .. last : m \in 0 .. last /\ m # 0
      OBVIOUS
    <3> QED
      BY <2>1, <3>1
  <2> QED
    BY <1>4, <2>2, <2>3 DEF FillsIn, Turn
<1> HIDE DEF call
<1> QED
  BY <1>5, <1>11 DEF UpdateIndexInfo

\* A record is rejected if, and only if, what the tree has leaves it out.
LEMMA RejectsTakes ==
  ASSUME NEW ix, NEW n, NEW rk, NEW T, NEW root, NEW whole, NEW s,
         Good(ix, n, rk, T, root, NoPage, whole, s), NEW r \in Records,
         NEW page \in T, rk[page] = 0, Unique => Belongs(ix, rk, T, root, page, r.key)
  PROVE  /\ Rejects(ix.node[page], r) => Kept(s, r) = s
         /\ ~Rejects(ix.node[page], r) => /\ Kept(s, r) = s \union {r}
                                          /\ Unique => \A i \in 1 .. Num(ix, page) : Key(ix, page, i) # r.key
<1>1. /\ Tree(ix, n, rk) /\ page \in 1 .. n /\ r.key \in Int /\ Items(ix, rk, T) = s /\ NoPage \notin T
      /\ Num(ix, page) \in Nat
  BY RecordKeys DEF Good, Shape, Family
<1>2. Rejects(ix.node[page], r) <=> Unique /\ \E i \in 1 .. Num(ix, page) : Key(ix, page, i) = r.key
  BY <1>1, RejectsMeans
<1>3. ASSUME NEW i \in 1 .. Num(ix, page) PROVE Item(ix, page, i) \in s /\ Item(ix, page, i).key = Key(ix, page, i)
  <2>1. ix.node[page].entries[i] \in Ents(n, rk, rk[page])
    BY <1>1, KidsOfPage
  <2>2. Item(ix, page, i) \in Records
    BY <2>1 DEF Ents, Item
  <2> QED
    BY <1>1, <2>2, KeyOfItem DEF Items
<1>4. ASSUME Unique, NEW e \in s, e.key = r.key PROVE \E i \in 1 .. Num(ix, page) : Key(ix, page, i) = r.key
  <2>0. PICK q \in T : rk[q] = 0 /\ \E i \in 1 .. Num(ix, q) : Item(ix, q, i) = e
    BY <1>1 DEF Items
  <2>1. PICK i \in 1 .. Num(ix, q) : Item(ix, q, i) = e
    BY <2>0
  <2>2. Key(ix, q, i) = r.key
    BY <1>4, <2>1, KeyOfItem
  <2>3. NoPage \in T => rk[NoPage] = 0
    BY <1>1
  <2>4. q = page
    BY <1>1, <1>4, <2>0, <2>2, <2>3, FoundThere
  <2> QED
    BY <2>2, <2>4
<1>5. ASSUME Rejects(ix.node[page], r) PROVE Kept(s, r) = s
  <2>1. Unique /\ \E i \in 1 .. Num(ix, page) : Key(ix, page, i) = r.key
    BY <1>2, <1>5
  <2>2. ~Takes(s, r)
    BY <1>3, <2>1 DEF Takes
  <2> QED
    BY <2>2 DEF Kept
<1>6. ASSUME ~Rejects(ix.node[page], r) PROVE Takes(s, r)
  BY <1>2, <1>4, <1>6 DEF Takes
<1> QED
  BY <1>2, <1>5, <1>6 DEF Kept

-----------------------------------------------------------------------------
\* The tree of one leaf.
Flat == [p \in 1 .. 1 |-> 0]
OneLeaf(ix, m, s) ==
    /\ Good(ix, 1, Flat, {1}, 1, NoPage, TRUE, s) /\ RootOf(ix, Flat, 1)
    /\ ix.pins[1] = 0 /\ Num(ix, 1) <= m

LEMMA OnePageFields ==
  /\ Tree(OnePage, 1, Flat) /\ Flat[1] = 0
  /\ OnePage.node[1] = EmptyNode("leaf") /\ OnePage.pins[1] = 0
  /\ OnePage.info.root = 1 /\ OnePage.info.height = 1
<1>1. /\ OnePage.node[1] = EmptyNode("leaf") /\ OnePage.pins[1] = 0 /\ Len(OnePage.node) = 1
      /\ OnePage.info.root = 1 /\ OnePage.info.height = 1
  BY DEF OnePage
<1>2. PICK n, rk : n >= 1 /\ Tree(OnePage, n, rk)
  BY OnePageTree DEF HasTree
<1>3. n = 1
  BY <1>1, <1>2, SizeOf DEF Size
<1>4. 1 \in 1 .. n /\ OnePage.node[1].kind = "leaf"
  BY <1>1, <1>3 DEF EmptyNode
<1>5. rk[1] = 0
  BY <1>2, <1>4, PageFields
<1>6. rk = Flat
  <2>1. rk \in [1 .. 1 -> Nat]
    BY <1>2, <1>3 DEF Tree
  <2>2. \A p \in 1 .. 1 : p = 1
    OBVIOUS
  <2> QED
    BY <1>5, <2>1, <2>2 DEF Flat
<1> QED
  BY <1>1, <1>2, <1>3, <1>5, <1>6

LEMMA OnePageGood == OneLeaf(OnePage, 0, {})
<1>1. /\ Tree(OnePage, 1, Flat) /\ Flat[1] = 0 /\ OnePage.pins[1] = 0
      /\ OnePage.info.root = 1 /\ OnePage.info.height = 1
  BY OnePageFields
<1>2. /\ Num(OnePage, 1) = 0 /\ Par(OnePage, 1) = NoPage
      /\ OnePage.node[1].next = NoPage /\ OnePage.node[1].prev = NoPage
  BY OnePageFields DEF EmptyNode, Num, Par
<1>3. NoPage \notin {1}
  BY DEF NoPage
<1> DEFINE ix == OnePage
           T == {1}
           R == [p \in T |-> Int]
<1> HIDE DEF ix
<1>4. Family(ix, Flat, T, 1, NoPage)
  BY <1>1, <1>2, <1>3 DEF Family, ix
<1>5. Shape(ix, 1, Flat, T, 1, NoPage)
  BY <1>1, <1>2, <1>4 DEF Shape, ix
<1>6. Filled(ix, Flat, T, 1, NoPage)
  BY <1>1, <1>2, <1>3 DEF Filled, Need, ix
<1>7. KeyedAs(ix, Flat, T, 1, R)
  <2>1. \A p \in T : R[p] = Int /\ Num(ix, p) = 0 /\ Flat[p] = 0
    BY <1>1, <1>2 DEF ix
  <2>2. \A p \in T : R[p] \subseteq Int /\ R[p] # {} /\ Convex(R[p])
    BY <2>1 DEF Convex
  <2>3. \A p \in T : Sorted(ix, p)
    BY <2>1 DEF Sorted
  <2>4. R[1] = Int
    BY <2>1
  <2>5. \A p \in T : \A i \in 1 .. Num(ix, p) : Key(ix, p, i) \in R[p]
    BY <2>1
  <2> HIDE DEF R, T
  <2> QED
    BY <2>1, <2>2, <2>3, <2>4, <2>5, PlainKeyed
<1>8. Chained(ix, Flat, T, R)
  BY <1>2, <1>3 DEF Chained, ix
<1>9. Items(ix, Flat, T) = {}
  BY <1>2 DEF Items, ix
<1>10. Good(ix, 1, Flat, {1}, 1, NoPage, TRUE, {})
  <2>1. Good(ix, 1, Flat, T, 1, NoPage, TRUE, {})
    <3> HIDE DEF R, T
    <3> QED
      BY <1>5, <1>6, <1>7, <1>8, <1>9 DEF Good
  <2> QED
    BY <2>1
<1>11. RootOf(ix, Flat, 1)
  BY <1>1 DEF RootOf, ix
<1> QED
  <2>1. Num(ix, 1) <= 0 /\ ix.pins[1] = 0
    BY <1>1, <1>2 DEF ix
  <2> QED
    BY <1>10, <1>11, <2>1 DEF OneLeaf, ix

\* What a tree has that takes in the first m records of a scan.
Loaded(s, scan, m) ==
    /\ \A e \in s : \E i \in 1 .. m : scan[i] = e
    /\ \A i \in 1 .. m : Kept(s, scan[i]) = s
    /\ Unique => \A e, x \in s : e.key = x.key => e = x

LEMMA LoadedOne ==
  ASSUME NEW scan, NEW m \in Nat \ {0}, NEW s, Loaded(s, scan, m - 1)
  PROVE  Loaded(Kept(s, scan[m]), scan, m)
<1> DEFINE r == scan[m]
           t == Kept(s, r)
<1>0. m \in 1 .. m /\ \A i \in 1 .. m - 1 : i \in 1 .. m
  OBVIOUS
<1>1. t = s \/ (t = s \union {r} /\ Takes(s, r))
  BY DEF Kept
<1> HIDE DEF r, t
<1>2. ASSUME NEW e \in t PROVE \E i \in 1 .. m : scan[i] = e
  BY <1>0, <1>1 DEF Loaded, r
<1>3. ASSUME NEW i \in 1 .. m PROVE Kept(t, scan[i]) = t
  <2>1. CASE i # m
    <3>1. i \in 1 .. m - 1
      BY <2>1
    <3>2. Kept(s, scan[i]) = s
      BY <3>1 DEF Loaded
    <3> QED
      BY <1>1, <3>2 DEF Kept, Takes
  <2>2. CASE i = m
    BY <2>2 DEF t, r, Kept, Takes
  <2> QED
    BY <2>1, <2>2
<1>4. ASSUME Unique, NEW e \in t, NEW x \in t, e.key = x.key PROVE e = x
  BY <1>1, <1>4 DEF Loaded, Takes
<1> QED
  BY <1>2, <1>3, <1>4 DEF Loaded, t, r

\* A leaf with room takes a record in, unless it is rejected.
LEMMA RoomTakes ==
  ASSUME NEW ix, NEW n, NEW rk, NEW T, NEW root, NEW whole, NEW s,
         Good(ix, n, rk, T, root, NoPage, whole, s), NEW r \in Records,
         NEW page \in T, rk[page] = 0, Num(ix, page) < MaxKeys,
         Unique => Belongs(ix, rk, T, root, page, r.key),
         NEW call, page = FindLeaf(ix, call, r.key), NEW jx, jx = InsertKey(ix, call, r)
  PROVE  /\ Good(jx, n, rk, T, root, NoPage, whole, Kept(s, r))
         /\ jx.pins = ix.pins /\ jx.info = ix.info /\ Num(jx, page) <= Num(ix, page) + 1
<1>1. Tree(ix, n, rk) /\ page \in 1 .. n /\ page # NoPage /\ Num(ix, page) \in Nat
  BY DEF Good, Shape, Family
<1>2. CASE Rejects(ix.node[page], r)
  <2>1. jx = ix
    BY <1>2, InsertIs
  <2>2. Kept(s, r) = s
    BY <1>2, RejectsTakes
  <2> QED
    BY <1>1, <2>1, <2>2
<1>3. CASE ~Rejects(ix.node[page], r)
  <2>1. jx = LeafInsert(ix, page, r)
    BY <1>1, <1>3, InsertIs
  <2>2. Kept(s, r) = s \union {r}
    BY <1>3, RejectsTakes
  <2>3. Unique => \A i \in 1 .. Num(ix, page) : Key(ix, page, i) # r.key
    BY <1>3, RejectsTakes
  <2>4. /\ Good(jx, n, rk, T, root, NoPage, whole, s \union {r})
        /\ jx.pins = ix.pins /\ jx.info = ix.info
    BY <2>1, <2>3, LeafInsertGood
  <2>5. Num(jx, page) = Num(ix, page) + 1
    <3> DEFINE old == ix.node[page].entries
               u == Upper(old, r.key)
               t == InsertAt(old, u, r)
    <3>1. old \in Seq(Records) /\ Num(ix, page) = Len(old)
      BY <1>1, PageFields DEF Ents, Num
    <3> HIDE DEF old
    <3>2. u \in 1 .. Len(old) + 1
      BY <3>1, UpperPlace
    <3> HIDE DEF u
    <3>3. InsertedAt(t, Records, old, u, r)
      BY <3>1, <3>2, InsertedIs
    <3> HIDE DEF t
    <3>4. jx = WithEntries(ix, page, t)
      BY <2>1 DEF LeafInsert, t, u, old
    <3>5. t \in Lists(Ents(n, rk, rk[page]))
      <4>1. t \in Seq(Records) /\ Len(t) = Len(old) + 1 /\ Len(old) \in Nat
        BY <3>3 DEF InsertedAt
      <4>2. Len(t) <= MaxKeys
        BY <3>1, <4>1, MinKeysFits
      <4> QED
        BY <4>1, <4>2 DEF Lists, Ents
    <3>6. jx.node[page].entries = t
      BY <1>1, <3>4, <3>5, EntriesField DEF EntriesSet
    <3> QED
      BY <3>1, <3>3, <3>6 DEF InsertedAt, Num
  <2> QED
    BY <1>1, <2>2, <2>4, <2>5
<1> QED
  BY <1>2, <1>3

LEMMA OneLeafTakes ==
  ASSUME NEW ix, NEW m \in Nat \ {0}, m <= MaxKeys, NEW s, OneLeaf(ix, m - 1, s), NEW r \in Records,
         NEW call, call.info = OnePage.info, NEW jx, jx = InsertKey(ix, call, r)
  PROVE  OneLeaf(jx, m, Kept(s, r))
<1> DEFINE n == 1
           page == 1
           root == 1
           T == {1}
<1>1. /\ Good(ix, n, Flat, T, root, NoPage, TRUE, s) /\ RootOf(ix, Flat, root)
      /\ ix.pins[page] = 0 /\ Num(ix, page) <= m - 1
  BY DEF OneLeaf
<1>2. /\ Tree(ix, n, Flat) /\ Num(ix, page) \in Nat /\ page \in T /\ Flat[page] = 0 /\ NoPage \notin T
      /\ page # NoPage /\ r.key \in Int /\ page \in 1 .. n /\ call.info.root = root /\ root = page
  BY <1>1, RecordKeys, OnePageFields DEF Good, Shape, Family, NoPage
<1>3. ASSUME Good(jx, n, Flat, T, root, NoPage, TRUE, Kept(s, r)), jx.info = ix.info, jx.pins = ix.pins,
             Num(jx, page) <= m
      PROVE  OneLeaf(jx, m, Kept(s, r))
  BY <1>1, <1>3 DEF OneLeaf, RootOf
<1> HIDE DEF n, page, root, T
<1>4. FindLeafFrom(ix, root, r.key) = page
  <2>1. PICK f : SearchesBy(ix, n, r.key, f)
    BY <1>2, SearchFunction
  <2>2. f[page] = page
    BY <1>2, <2>1, SearchStep
  <2> QED
    BY <1>2, <2>1, <2>2 DEF SearchesBy
<1>5. page = FindLeaf(ix, call, r.key)
  BY <1>2, <1>4 DEF FindLeaf
<1>6. Unique => Belongs(ix, Flat, T, root, page, r.key)
  <2>1. NoPage \in T => Flat[NoPage] = 0
    BY <1>2
  <2> QED
    BY <1>1, <1>2, <1>4, <2>1, SearchFinds
<1>7. Num(ix, page) < MaxKeys
  BY <1>1, <1>2, MinKeysFits
<1>8. /\ Good(jx, n, Flat, T, root, NoPage, TRUE, Kept(s, r))
      /\ jx.pins = ix.pins /\ jx.info = ix.info /\ Num(jx, page) <= Num(ix, page) + 1
  <2> DEFINE rk == Flat
             whole == TRUE
  <2>1. Good(ix, n, rk, T, root, NoPage, whole, s) /\ page \in T /\ rk[page] = 0
    BY <1>1, <1>2
  <2>2. Unique => Belongs(ix, rk, T, root, page, r.key)
    BY <1>6
  <2> HIDE DEF rk, whole
  <2>3. /\ Good(jx, n, rk, T, root, NoPage, whole, Kept(s, r))
        /\ jx.pins = ix.pins /\ jx.info = ix.info /\ Num(jx, page) <= Num(ix, page) + 1
    BY <1>5, <1>7, <2>1, <2>2, RoomTakes
  <2> QED
    BY <2>3 DEF rk, whole
<1>9. Num(jx, page) <= m
  <2>1. Num(jx, page) \in Nat
    BY <1>2, <1>8 DEF Good, Shape, Family
  <2> QED
    BY <1>1, <1>2, <1>8, <2>1
<1> QED
  BY <1>3, <1>8, <1>9

LEMMA BackfillGood ==
  ASSUME NEW last \in Nat, NEW scan \in [1 .. last -> Records], last <= MaxKeys
  PROVE  \E s : OneLeaf(Backfilled(scan), last, s) /\ Loaded(s, scan, last)
<1>1. PICK f, call : FillsIn(f, call, scan, last) /\ Backfilled(scan) = UpdateIndexInfo(f[last], 1, 1)
  BY FilledRuns
<1> DEFINE Q == {m \in 0 .. last : \E s : OneLeaf(f[m], m, s) /\ Loaded(s, scan, m)}
<1>2. 0 \in Q
  <2>1. OneLeaf(f[0], 0, {})
    BY <1>1, OnePageGood DEF FillsIn
  <2>2. Loaded({}, scan, 0)
    BY DEF Loaded
  <2> QED
    BY <2>1, <2>2
<1>3. ASSUME NEW m \in 1 .. last, m - 1 \in Q PROVE m \in Q
  <2>1. PICK s : OneLeaf(f[m - 1], m - 1, s) /\ Loaded(s, scan, m - 1)
    BY <1>3
  <2> DEFINE ix == f[m - 1]
             r == scan[m]
             t == Kept(s, r)
  <2>2. m \in Nat \ {0} /\ m <= MaxKeys /\ m \in 0 .. last
    BY MinKeysFits
  <2>3. f[m] = InsertKey(ix, call, r) /\ r \in Records /\ call.info = OnePage.info
    BY <1>1 DEF FillsIn
  <2>4. OneLeaf(ix, m - 1, s)
    BY <2>1
  <2>5. Loaded(t, scan, m)
    BY <2>1, <2>2, LoadedOne
  <2> HIDE DEF ix, r
  <2>6. OneLeaf(f[m], m, t)
    BY <2>2, <2>3, <2>4, OneLeafTakes
  <2> QED
    BY <2>2, <2>5, <2>6
<1> HIDE DEF Q
<1>4. \A m \in 0 .. last : m \in Q
  BY <1>2, <1>3, Counts
<1>5. PICK s : OneLeaf(f[last], last, s) /\ Loaded(s, scan, last)
  <2>1. last \in 0 .. last
    OBVIOUS
  <2> QED
    BY <1>4, <2>1 DEF Q
<1>6. Backfilled(scan) = f[last]
  <2> DEFINE ix == f[last]
  <2>1. Tree(ix, 1, Flat) /\ RootOf(ix, Flat, 1) /\ Flat[1] = 0
    BY <1>5, OnePageFields DEF OneLeaf, Good, Shape
  <2>2. ix.info = [root |-> 1, height |-> 1]
    <3>1. ix.info \in [root : 0 .. 1, height : Nat] /\ ix.info.root = 1 /\ ix.info.height = 1
      BY <2>1 DEF Tree, Infos, RootOf
    <3> QED
      BY <3>1
  <2>3. ix = [created |-> ix.created, node |-> ix.node, pins |-> ix.pins, info |-> ix.info]
    BY <2>1 DEF Tree
  <2> HIDE DEF ix
  <2>4. UpdateIndexInfo(ix, 1, 1) = ix
    <3>1. PICK c, g, h, i : ix = [created |-> c, node |-> g, pins |-> h, info |-> i]
      BY <2>3
    <3> QED
      BY <2>2, <3>1 DEF UpdateIndexInfo
  <2> QED
    BY <1>1, <2>4 DEF ix
<1> QED
  BY <1>5, <1>6

-----------------------------------------------------------------------------
\* Entry k of a page goes.
CutAt(ix, p, k) == WithEntries(ix, p, RemoveAt(ix.node[p].entries, k))
Removed(jx, ix, n, p, k) ==
    /\ Only(jx, ix, n, p) /\ Num(jx, p) = Num(ix, p) - 1
    /\ \A i \in 1 .. Num(ix, p) - 1 : Item(jx, p, i) = Item(ix, p, IF i < k THEN i ELSE i + 1)
    /\ jx.node[p].leftMost = ix.node[p].leftMost /\ Par(jx, p) = Par(ix, p) /\ SameChain(jx, ix, p)

LEMMA CutEffect ==
  ASSUME NEW n, NEW rk, NEW ix, Tree(ix, n, rk), NEW p \in 1 .. n, NEW k \in 1 .. Num(ix, p)
  PROVE  Tree(CutAt(ix, p, k), n, rk) /\ Removed(CutAt(ix, p, k), ix, n, p, k)
<1> DEFINE s == ix.node[p].entries
           t == RemoveAt(s, k)
           S == Ents(n, rk, rk[p])
<1>1. s \in Lists(S) /\ s \in Seq(S) /\ Len(s) = Num(ix, p) /\ Num(ix, p) \in Nat
  BY PageFields DEF Num
<1>2. k \in 1 .. Len(s) /\ t = RemoveAt(s, k)
  BY <1>1
<1>3. \A i : Item(ix, p, i) = s[i]
  BY DEF Item
<1>4. CutAt(ix, p, k) = WithEntries(ix, p, t)
  BY DEF CutAt
<1> HIDE DEF s, t, S
<1>5. t \in Lists(S)
  BY <1>1, <1>2, OneLess DEF t
<1>6. /\ Len(t) = Len(s) - 1
      /\ \A j \in 1 .. Len(t) : j < k => t[j] = s[j]
      /\ \A j \in 1 .. Len(t) : j >= k => t[j] = s[j + 1]
  BY <1>1, <1>2, RemovedItems
<1> DEFINE jx == WithEntries(ix, p, t)
<1>7. Tree(jx, n, rk) /\ EntriesSet(jx, ix, n, p, t)
  BY <1>5, EntriesField DEF S
<1> HIDE DEF jx
<1>8. ASSUME NEW i \in 1 .. Num(ix, p) - 1 PROVE Item(jx, p, i) = Item(ix, p, IF i < k THEN i ELSE i + 1)
  <2>1. Item(jx, p, i) = t[i] /\ i \in 1 .. Len(t) /\ (i < k \/ i >= k)
    BY <1>1, <1>2, <1>6, <1>7 DEF EntriesSet, Item
  <2>2. CASE i < k
    BY <1>3, <1>6, <2>1, <2>2
  <2>3. CASE i >= k
    <3>1. ~(i < k)
      BY <1>1, <2>3
    <3> QED
      BY <1>3, <1>6, <2>1, <2>3, <3>1
  <2> QED
    BY <2>1, <2>2, <2>3
<1>9. Num(jx, p) = Num(ix, p) - 1
  BY <1>1, <1>6, <1>7 DEF EntriesSet, Num
<1> QED
  BY <1>4, <1>7, <1>8, <1>9 DEF Removed, EntriesSet, Par, SameChain, jx

\* What a page has that is not the one that changes.
LEMMA OthersSame ==
  ASSUME NEW ix, NEW jx, NEW n, NEW p, Only(jx, ix, n, p), NEW q \in 1 .. n, q # p
  PROVE  SameNodeOf(jx, ix, q)
BY SameNode DEF Only

\* A leaf loses record r.
LEMMA LeafLoses ==
  ASSUME NEW ix, NEW n, NEW rk, NEW T, NEW root, NEW whole, NEW s,
         Good(ix, n, rk, T, root, NoPage, whole, s),
         NEW page \in T, rk[page] = 0, NEW k \in 1 .. Num(ix, page), NEW r, Item(ix, page, k) = r,
         NEW jx, jx = CutAt(ix, page, k)
  PROVE  \E t : /\ Good(jx, n, rk, T, root, page, whole, t)
                /\ s \ {r} \subseteq t /\ t \subseteq s /\ (Unique => t = s \ {r})
<1>1. /\ Tree(ix, n, rk) /\ T \subseteq 1 .. n /\ Family(ix, rk, T, root, NoPage)
      /\ Par(ix, root) = NoPage /\ root \in T /\ NoPage \notin T
      /\ Items(ix, rk, T) = s
      /\ \A p \in T : p \in 1 .. n /\ Num(ix, p) \in Nat /\ rk[p] \in Nat /\ rk[p] <= rk[root]
  BY DEF Good, Shape, Family
<1>2. Tree(jx, n, rk) /\ Removed(jx, ix, n, page, k)
  BY <1>1, CutEffect
<1>3. ASSUME NEW p \in T, p # page
      PROVE  /\ Num(jx, p) = Num(ix, p) /\ Par(jx, p) = Par(ix, p) /\ SameChain(jx, ix, p)
             /\ SameKids(jx, ix, p) /\ SameKeys(jx, ix, p)
             /\ \A i : Item(jx, p, i) = Item(ix, p, i) /\ Key(jx, p, i) = Key(ix, p, i)
             /\ (Sorted(jx, p) <=> Sorted(ix, p))
  <2>1. SameNodeOf(jx, ix, p)
    BY <1>1, <1>2, <1>3, OthersSame DEF Removed
  <2> QED
    BY <2>1 DEF SameNodeOf
<1>4. /\ Num(jx, page) = Num(ix, page) - 1 /\ Num(jx, page) \in Nat
      /\ Par(jx, page) = Par(ix, page) /\ SameChain(jx, ix, page)
      /\ \A i \in 1 .. Num(jx, page) :
            /\ Item(jx, page, i) = Item(ix, page, IF i < k THEN i ELSE i + 1)
            /\ Key(jx, page, i) = Key(ix, page, IF i < k THEN i ELSE i + 1)
            /\ (IF i < k THEN i ELSE i + 1) \in 1 .. Num(ix, page) /\ (IF i < k THEN i ELSE i + 1) # k
  <2>1. Num(jx, page) = Num(ix, page) - 1 /\ Num(jx, page) \in Nat /\ Num(ix, page) \in Nat
    BY <1>1, <1>2 DEF Removed
  <2>2. \A i \in 1 .. Num(jx, page) : Item(jx, page, i) = Item(ix, page, IF i < k THEN i ELSE i + 1)
    BY <1>2, <2>1 DEF Removed
  <2>3. \A i \in 1 .. Num(jx, page) : Key(jx, page, i) = Key(ix, page, IF i < k THEN i ELSE i + 1)
    BY <2>2, KeyOfItem
  <2>4. \A i \in 1 .. Num(jx, page) :
           (IF i < k THEN i ELSE i + 1) \in 1 .. Num(ix, page) /\ (IF i < k THEN i ELSE i + 1) # k
    BY <2>1
  <2>5. Par(jx, page) = Par(ix, page) /\ SameChain(jx, ix, page)
    BY <1>2 DEF Removed
  <2> QED
    BY <2>1, <2>2, <2>3, <2>4, <2>5
<1>5. \A p \in T : Num(jx, p) \in Nat /\ Par(jx, p) = Par(ix, p) /\ SameChain(jx, ix, p)
  BY <1>1, <1>3, <1>4
<1>6. \A p \in T : rk[p] # 0 => SameKids(jx, ix, p) /\ SameKeys(jx, ix, p)
  BY <1>3
<1>7. Shape(jx, n, rk, T, root, NoPage)
  <2>1. Family(jx, rk, T, root, NoPage)
    BY <1>1, <1>5, <1>6, SameFamily
  <2> QED
    BY <1>1, <1>2, <1>5, <2>1 DEF Shape
<1>8. MaxKeys >= 2 => Filled(jx, rk, T, root, page)
  <2>1. ASSUME MaxKeys >= 2, NEW p \in T
        PROVE  Num(jx, p) + (IF p = page THEN 1 ELSE 0) >= Need(rk, root, p)
    <3>1. Num(ix, p) + 0 >= Need(rk, root, p) /\ Need(rk, root, p) \in Nat
      BY <1>1, <2>1, MinKeysFits DEF Good, Filled, Need, AtLeast
    <3>2. Num(jx, p) + (IF p = page THEN 1 ELSE 0) = Num(ix, p)
      BY <1>1, <1>3, <1>4
    <3> QED
      BY <1>1, <3>1, <3>2
  <2> QED
    BY <2>1 DEF Filled
<1>9. ASSUME Unique PROVE \E R : KeyedAs(jx, rk, T, root, R) /\ (whole => Chained(jx, rk, T, R))
  <2>1. PICK R : KeyedAs(ix, rk, T, root, R) /\ (whole => Chained(ix, rk, T, R))
    BY <1>9 DEF Good
  <2>2. /\ \A p \in T : \A i \in 1 .. Num(ix, p) : Key(ix, p, i) \in R[p]
        /\ \A p \in T : Sorted(ix, p)
    BY <1>1, <2>1, KeyedPlain
  <2>3. Sorted(jx, page)
    <3>1. ASSUME NEW i \in 1 .. Num(jx, page), NEW j \in 1 .. Num(jx, page), i < j
          PROVE  Key(jx, page, i) < Key(jx, page, j)
      <4> DEFINE a == IF i < k THEN i ELSE i + 1
                 b == IF j < k THEN j ELSE j + 1
      <4>1. a \in 1 .. Num(ix, page) /\ b \in 1 .. Num(ix, page)
            /\ Key(jx, page, i) = Key(ix, page, a) /\ Key(jx, page, j) = Key(ix, page, b)
        BY <1>4
      <4>2. a < b
        BY <1>4, <3>1
      <4> HIDE DEF a, b
      <4> QED
        BY <2>2, <4>1, <4>2 DEF Sorted
    <3> QED
      BY <3>1 DEF Sorted
  <2>4. \A i \in 1 .. Num(jx, page) : Key(jx, page, i) \in R[page]
    BY <1>4, <2>2
  <2>5. KeyedAs(jx, rk, T, root, R)
    <3>1. \A p \in T : rk[p] = 0 => Sorted(jx, p) /\ \A i \in 1 .. Num(jx, p) : Key(jx, p, i) \in R[p]
      BY <1>3, <2>2, <2>3, <2>4
    <3> QED
      BY <1>1, <1>6, <2>1, <3>1, KeyedLeaf
  <2>6. whole => Chained(jx, rk, T, R)
    BY <1>5, <2>1, ChainedSame
  <2> QED
    BY <2>5, <2>6
<1> DEFINE t == Items(jx, rk, T)
<1>10. t \subseteq s
  <2>1. ASSUME NEW e \in t PROVE e \in s
    <3>1. PICK p \in T : e \in Records /\ rk[p] = 0 /\ \E i \in 1 .. Num(jx, p) : Item(jx, p, i) = e
      BY <2>1 DEF Items
    <3>2. \E i \in 1 .. Num(ix, p) : Item(ix, p, i) = e
      BY <1>3, <1>4, <3>1
    <3> QED
      BY <1>1, <3>1, <3>2 DEF Items
  <2> QED
    BY <2>1
<1>11. s \ {r} \subseteq t
  <2>1. ASSUME NEW e \in s, e # r PROVE e \in t
    <3>1. PICK p \in T : e \in Records /\ rk[p] = 0 /\ \E i \in 1 .. Num(ix, p) : Item(ix, p, i) = e
      BY <1>1, <2>1 DEF Items
    <3>2. PICK i \in 1 .. Num(ix, p) : Item(ix, p, i) = e
      BY <3>1
    <3>3. \E j \in 1 .. Num(jx, p) : Item(jx, p, j) = e
      <4>1. CASE p # page
        BY <1>3, <3>2, <4>1
      <4>2. CASE p = page
        <5>1. i # k
          BY <2>1, <3>2, <4>2
        <5> DEFINE j == IF i < k THEN i ELSE i - 1
        <5>2. j \in 1 .. Num(jx, page) /\ (IF j < k THEN j ELSE j + 1) = i
          BY <1>1, <1>4, <3>2, <4>2, <5>1
        <5> HIDE DEF j
        <5>3. Item(jx, page, j) = Item(ix, page, IF j < k THEN j ELSE j + 1)
          BY <1>4, <5>2
        <5> QED
          BY <3>2, <4>2, <5>2, <5>3
      <4> QED
        BY <4>1, <4>2
    <3> QED
      BY <3>1, <3>3 DEF Items
  <2> QED
    BY <2>1
<1>12. ASSUME Unique PROVE r \notin t
  <2>1. SUFFICES ASSUME r \in t PROVE FALSE
    OBVIOUS
  <2>2. PICK p \in T : r \in Records /\ rk[p] = 0 /\ \E i \in 1 .. Num(jx, p) : Item(jx, p, i) = r
    BY <2>1 DEF Items
  <2>3. PICK i \in 1 .. Num(jx, p) : Item(jx, p, i) = r
    BY <2>2
  <2>4. PICK R : KeyedAs(ix, rk, T, root, R)
    BY <1>12 DEF Good
  <2>5. /\ \A q \in T : \A j \in 1 .. Num(ix, q) : Key(ix, q, j) \in R[q]
        /\ \A q \in T : Sorted(ix, q)
    BY <1>1, <2>4, KeyedPlain
  <2>6. Key(ix, page, k) = r.key /\ r.key \in Int
    BY <2>2, KeyOfItem, RecordKeys
  <2>7. PICK j \in 1 .. Num(ix, p) : Item(ix, p, j) = r /\ (p = page => j # k)
    BY <1>3, <1>4, <2>3
  <2>8. Key(ix, p, j) = r.key
    BY <2>7, KeyOfItem
  <2>9. Apart(rk, T, R)
    BY <1>1, <2>4, PagesApart
  <2>10. p = page
    <3>1. r.key \in R[p] /\ r.key \in R[page] /\ rk[p] = rk[page]
      BY <2>2, <2>5, <2>6, <2>7, <2>8
    <3> QED
      BY <2>6, <2>9, <3>1 DEF Apart
  <2>11. j \in 1 .. Num(ix, page) /\ (j < k \/ k < j) /\ Sorted(ix, page)
    BY <1>1, <2>5, <2>7, <2>10
  <2>12. r.key < r.key
    BY <2>6, <2>8, <2>10, <2>11 DEF Sorted
  <2> QED
    BY <2>6, <2>12
<1>13. Good(jx, n, rk, T, root, page, whole, t)
  BY <1>7, <1>8, <1>9 DEF Good
<1> HIDE DEF t
<1> QED
  BY <1>10, <1>11, <1>12, <1>13

-----------------------------------------------------------------------------
\* Two neighbours: children k - 1 and k of P.
Pair(ix, rk, T, P, k, A, D) ==
    /\ P \in T /\ rk[P] # 0 /\ k \in 1 .. Num(ix, P)
    /\ A = Kid(ix, P, k - 1) /\ D = Kid(ix, P, k)

LEMMA PairPages ==
  ASSUME NEW ix, NEW rk, NEW T, NEW root, Family(ix, rk, T, root, NoPage),
         NEW P, NEW k, NEW A, NEW D, Pair(ix, rk, T, P, k, A, D)
  PROVE  /\ A \in T /\ D \in T /\ A # D /\ A # root /\ D # root /\ A # P /\ D # P
         /\ rk[A] = rk[D] /\ rk[A] + 1 = rk[P] /\ Par(ix, A) = P /\ Par(ix, D) = P
         /\ Num(ix, P) \in Nat /\ k - 1 \in 0 .. Num(ix, P) /\ k \in 0 .. Num(ix, P)
         /\ \A i \in 0 .. Num(ix, P) : Kid(ix, P, i) = A => i = k - 1
         /\ \A i \in 0 .. Num(ix, P) : Kid(ix, P, i) = D => i = k
         /\ \A p \in T : rk[p] # 0 /\ p # P =>
               \A i \in 0 .. Num(ix, p) : Kid(ix, p, i) # A /\ Kid(ix, p, i) # D
<1>1. P \in T /\ rk[P] # 0 /\ k \in 1 .. Num(ix, P) /\ A = Kid(ix, P, k - 1) /\ D = Kid(ix, P, k)
  BY DEF Pair
<1>2. Num(ix, P) \in Nat /\ \A p \in T : rk[p] \in Nat
  BY <1>1 DEF Family
<1>3. k - 1 \in 0 .. Num(ix, P) /\ k \in 0 .. Num(ix, P) /\ k - 1 # k
  BY <1>1, <1>2
<1>4. IsChild(ix, rk, T, root, NoPage, P, A) /\ IsChild(ix, rk, T, root, NoPage, P, D)
  BY <1>1, <1>3 DEF Family
<1>5. \A i, j \in 0 .. Num(ix, P) : Kid(ix, P, i) = Kid(ix, P, j) => i = j
  BY <1>1 DEF Family
<1>6. /\ A \in T /\ D \in T /\ A # root /\ D # root
      /\ rk[A] + 1 = rk[P] /\ rk[D] + 1 = rk[P] /\ Par(ix, A) = P /\ Par(ix, D) = P
  BY <1>4 DEF IsChild
<1>7. A # P /\ D # P /\ rk[A] = rk[D]
  BY <1>1, <1>2, <1>6
<1>8. A # D
  BY <1>1, <1>3, <1>5
<1>9. /\ \A i \in 0 .. Num(ix, P) : Kid(ix, P, i) = A => i = k - 1
      /\ \A i \in 0 .. Num(ix, P) : Kid(ix, P, i) = D => i = k
  BY <1>1, <1>3, <1>5
<1>10. \A p \in T : rk[p] # 0 /\ p # P => \A i \in 0 .. Num(ix, p) : Kid(ix, p, i) # A /\ Kid(ix, p, i) # D
  <2>1. ASSUME NEW p \in T, rk[p] # 0, p # P, NEW i \in 0 .. Num(ix, p)
        PROVE  Kid(ix, p, i) # A /\ Kid(ix, p, i) # D
    <3>1. Par(ix, Kid(ix, p, i)) = p
      BY <2>1 DEF Family, IsChild
    <3> QED
      BY <1>6, <2>1, <3>1
  <2> QED
    BY <2>1
<1> QED
  BY <1>2, <1>3, <1>6, <1>7, <1>8, <1>9, <1>10

\* The keys of neighbours follow each other, separated by the key between them.
SideBySide(ix, R, P, k, A, D) ==
    /\ Key(ix, P, k) \in R[D] /\ Key(ix, P, k) \in Int
    /\ \A x \in R[A] : x < Key(ix, P, k)
    /\ \A x \in R[D] : Key(ix, P, k) <= x
    /\ R[A] \subseteq Int /\ R[A] # {} /\ R[D] \subseteq Int
    /\ Convex(R[A] \union R[D]) /\ Meets(R[A], R[D])
    /\ \A x \in Int : x \in R[A] \union R[D] <=>
          /\ x \in R[P] /\ (k - 1 # 0 => Key(ix, P, k - 1) <= x)
          /\ (k # Num(ix, P) => x < Key(ix, P, k + 1))

LEMMA PairKeys ==
  ASSUME NEW ix, NEW rk, NEW T, NEW root, Family(ix, rk, T, root, NoPage),
         NEW R, KeyedAs(ix, rk, T, root, R),
         NEW P, NEW k, NEW A, NEW D, Pair(ix, rk, T, P, k, A, D)
  PROVE  SideBySide(ix, R, P, k, A, D)
<1> DEFINE a == k - 1
           c == k + 1
           sep == Key(ix, P, k)
           N == Num(ix, P)
<1>1. /\ P \in T /\ rk[P] # 0 /\ k \in 1 .. N /\ A = Kid(ix, P, a) /\ D = Kid(ix, P, k)
      /\ A \in T /\ D \in T /\ N \in Nat /\ a \in 0 .. N /\ k \in 0 .. N /\ root \in T
  <2>1. A \in T /\ D \in T /\ N \in Nat /\ a \in 0 .. N /\ k \in 0 .. N
    BY PairPages
  <2>2. root \in T
    BY DEF Family
  <2> QED
    BY <2>1, <2>2 DEF Pair
<1>2. /\ \A p \in T : R[p] \subseteq Int /\ R[p] # {} /\ Convex(R[p])
      /\ \A p \in T : rk[p] # 0 =>
            \A i \in 0 .. Num(ix, p) : \A x \in Int :
               x \in R[Kid(ix, p, i)] <=> Between(ix, R, p, i, x)
      /\ \A p \in T : \A i \in 1 .. Num(ix, p) : Key(ix, p, i) \in R[p]
      /\ \A p \in T : Sorted(ix, p)
  BY <1>1, KeyedPlain
<1>3. /\ \A i \in 1 .. N : Key(ix, P, i) \in Int /\ Key(ix, P, i) \in R[P]
      /\ \A i, j \in 1 .. N : i < j => Key(ix, P, i) < Key(ix, P, j)
  BY <1>1, <1>2 DEF Sorted
<1>4. a + 1 = k /\ a # N /\ k # 0 /\ (a # 0 => a \in 1 .. N /\ a < k) /\ (k # N => c \in 1 .. N /\ k < c)
      /\ c = k + 1 /\ a = k - 1
  BY <1>1
<1> HIDE DEF a, c, N
<1>5. sep \in Int /\ sep \in R[P] /\ (a # 0 => Key(ix, P, a) \in Int /\ Key(ix, P, a) < sep)
      /\ (k # N => Key(ix, P, c) \in Int /\ sep < Key(ix, P, c))
  BY <1>1, <1>3, <1>4
<1>6. \A x \in Int : x \in R[A] <=> x \in R[P] /\ (a # 0 => Key(ix, P, a) <= x) /\ x < sep
  BY <1>1, <1>2, <1>4 DEF Between, N
<1>7. \A x \in Int : x \in R[D] <=> x \in R[P] /\ sep <= x /\ (k # N => x < Key(ix, P, c))
  BY <1>1, <1>2, <1>4 DEF Between, N
<1> HIDE DEF sep
<1>8. R[A] \subseteq Int /\ R[A] # {} /\ R[D] \subseteq Int /\ R[P] \subseteq Int /\ Convex(R[P])
  BY <1>1, <1>2
<1>9. sep \in R[D]
  BY <1>5, <1>7
<1>10. (\A x \in R[A] : x < sep) /\ (\A x \in R[D] : sep <= x)
  BY <1>6, <1>7, <1>8
<1>11. \A x \in Int : x \in R[A] \union R[D] <=>
          x \in R[P] /\ (a # 0 => Key(ix, P, a) <= x) /\ (k # N => x < Key(ix, P, c))
  <2>1. ASSUME NEW x \in Int PROVE x \in R[A] \/ x \in R[D] <=>
          x \in R[P] /\ (a # 0 => Key(ix, P, a) <= x) /\ (k # N => x < Key(ix, P, c))
    <3>1. x < sep \/ sep <= x
      BY <1>5
    <3>2. CASE x < sep
      <4>1. k # N => x < Key(ix, P, c)
        BY <1>5, <3>2
      <4>2. ~(sep <= x)
        BY <1>5, <3>2
      <4> QED
        BY <1>6, <1>7, <3>2, <4>1, <4>2
    <3>3. CASE sep <= x
      <4>1. a # 0 => Key(ix, P, a) <= x
        BY <1>5, <3>3
      <4>2. ~(x < sep)
        BY <1>5, <3>3
      <4> QED
        BY <1>6, <1>7, <3>3, <4>1, <4>2
    <3> QED
      BY <3>1, <3>2, <3>3
  <2> QED
    BY <2>1
<1> DEFINE U == R[A] \union R[D]
<1>12. Convex(U)
  <2>1. ASSUME NEW x \in U, NEW y \in U, NEW z \in Int, x < z, z < y PROVE z \in U
    <3>1. x \in Int /\ y \in Int /\ x \in R[P] /\ y \in R[P]
      BY <1>8, <1>11
    <3>2. z \in R[P]
      BY <1>8, <2>1, <3>1 DEF Convex
    <3>3. a # 0 => Key(ix, P, a) <= z
      BY <1>5, <1>11, <2>1, <3>1
    <3>4. k # N => z < Key(ix, P, c)
      BY <1>5, <1>11, <2>1, <3>1
    <3> QED
      BY <1>11, <3>2, <3>3, <3>4
  <2> HIDE DEF U
  <2> QED
    BY <2>1 DEF Convex
<1>13. Meets(R[A], R[D])
  <2>1. ASSUME NEW x \in R[A], NEW y \in R[D]
        PROVE  x < y /\ \A z \in Int : x < z /\ z < y => z \in R[A] \union R[D]
    <3>1. x < y
      BY <1>5, <1>8, <1>10
    <3> QED
      BY <1>12, <3>1 DEF Convex
  <2> QED
    BY <2>1 DEF Meets
<1>14. /\ Key(ix, P, k) \in R[D] /\ Key(ix, P, k) \in Int
       /\ \A x \in R[A] : x < Key(ix, P, k)
       /\ \A x \in R[D] : Key(ix, P, k) <= x
  BY <1>5, <1>9, <1>10 DEF sep
<1> QED
  BY <1>8, <1>11, <1>12, <1>13, <1>14 DEF SideBySide, a, c, N

-----------------------------------------------------------------------------
\* The keys of a page are its own, in order, and around those of its children.
NodeKeyed(ix, rk, R, p) ==
    /\ rk[p] # 0 => \A i \in 0 .. Num(ix, p) : \A x \in Int :
                        x \in R[Kid(ix, p, i)] <=> Between(ix, R, p, i, x)
    /\ \A i \in 1 .. Num(ix, p) : Key(ix, p, i) \in R[p]
    /\ Sorted(ix, p)

\* Pages whose keys belong where they did.
LEMMA OthersKeyed ==
  ASSUME NEW ix, NEW jx, NEW rk, NEW R, NEW R1, NEW p, NodeKeyed(ix, rk, R, p),
         SameKeys(jx, ix, p), rk[p] # 0 => SameKids(jx, ix, p), R1[p] = R[p],
         rk[p] # 0 => \A i \in 0 .. Num(ix, p) : R1[Kid(ix, p, i)] = R[Kid(ix, p, i)],
         Num(ix, p) \in Nat
  PROVE  NodeKeyed(jx, rk, R1, p)
<1>1. Num(jx, p) = Num(ix, p) /\ \A i \in 1 .. Num(ix, p) : Key(jx, p, i) = Key(ix, p, i)
  BY DEF SameKeys
<1>2. \A i \in 1 .. Num(jx, p) : Key(jx, p, i) \in R1[p]
  BY <1>1 DEF NodeKeyed
<1>3. Sorted(jx, p)
  BY <1>1 DEF NodeKeyed, Sorted
<1>4. ASSUME rk[p] # 0, NEW i \in 0 .. Num(jx, p), NEW x \in Int
      PROVE  x \in R1[Kid(jx, p, i)] <=> Between(jx, R1, p, i, x)
  <2>1. i \in 0 .. Num(ix, p) /\ Kid(jx, p, i) = Kid(ix, p, i) /\ R1[Kid(ix, p, i)] = R[Kid(ix, p, i)]
    BY <1>1, <1>4 DEF SameKids
  <2>2. x \in R[Kid(ix, p, i)] <=> Between(ix, R, p, i, x)
    BY <1>4, <2>1 DEF NodeKeyed
  <2>3. (i # 0 => i \in 1 .. Num(ix, p)) /\ (i # Num(ix, p) => i + 1 \in 1 .. Num(ix, p))
    BY <2>1
  <2>4. Between(jx, R1, p, i, x) <=> Between(ix, R, p, i, x)
    BY <1>1, <2>3 DEF Between
  <2> QED
    BY <2>1, <2>2, <2>4
<1> QED
  BY <1>2, <1>3, <1>4 DEF NodeKeyed

LEMMA NodesKeyed ==
  ASSUME NEW ix, NEW rk, NEW T, NEW root, NEW R, root \in T, NEW X, Family(ix, rk, T, root, X)
  PROVE  KeyedAs(ix, rk, T, root, R) <=>
            /\ \A p \in T : R[p] \subseteq Int /\ R[p] # {} /\ Convex(R[p])
            /\ R[root] = Int
            /\ \A p \in T : NodeKeyed(ix, rk, R, p)
<1>1. ASSUME KeyedAs(ix, rk, T, root, R)
      PROVE  /\ \A p \in T : R[p] \subseteq Int /\ R[p] # {} /\ Convex(R[p])
             /\ R[root] = Int
             /\ \A p \in T : NodeKeyed(ix, rk, R, p)
  BY <1>1, KeyedPlain DEF NodeKeyed
<1>2. ASSUME \A p \in T : R[p] \subseteq Int /\ R[p] # {} /\ Convex(R[p]), R[root] = Int,
             \A p \in T : NodeKeyed(ix, rk, R, p)
      PROVE  KeyedAs(ix, rk, T, root, R)
  <2>1. /\ \A p \in T : rk[p] # 0 =>
               \A i \in 0 .. Num(ix, p) : \A x \in Int :
                  x \in R[Kid(ix, p, i)] <=> Between(ix, R, p, i, x)
        /\ \A p \in T : \A i \in 1 .. Num(ix, p) : Key(ix, p, i) \in R[p]
        /\ \A p \in T : Sorted(ix, p)
    BY <1>2 DEF NodeKeyed
  <2> QED
    BY <1>2, <2>1, PlainKeyed
<1> QED
  BY <1>1, <1>2

\* The border between neighbours A and D moves to `key'.
Shifted(R, T, A, D, key) ==
    [p \in T |-> IF p = A THEN {x \in R[A] \union R[D] : x < key}
                 ELSE IF p = D THEN {x \in R[A] \union R[D] : key <= x}
                 ELSE R[p]]
NewKey(jx, ix, P, k, key) ==
    /\ Num(jx, P) = Num(ix, P) /\ SameKids(jx, ix, P)
    /\ \A i \in 1 .. Num(ix, P) : Key(jx, P, i) = IF i = k THEN key ELSE Key(ix, P, i)

LEMMA KeyedShift ==
  ASSUME NEW ix, NEW jx, NEW rk, NEW T, NEW root, Family(ix, rk, T, root, NoPage),
         NEW R, KeyedAs(ix, rk, T, root, R),
         NEW P, NEW k, NEW A, NEW D, Pair(ix, rk, T, P, k, A, D),
         NEW key, key \in R[A] \union R[D], \E x \in R[A] \union R[D] : x < key,
         NEW R1, R1 = Shifted(R, T, A, D, key), NewKey(jx, ix, P, k, key),
         \A p \in T : p \notin {A, D, P} => SameKeys(jx, ix, p) /\ SameKids(jx, ix, p),
         NodeKeyed(jx, rk, R1, A), NodeKeyed(jx, rk, R1, D)
  PROVE  KeyedAs(jx, rk, T, root, R1)
<1>1. /\ P \in T /\ rk[P] # 0 /\ k \in 1 .. Num(ix, P) /\ A = Kid(ix, P, k - 1) /\ D = Kid(ix, P, k)
  BY DEF Pair
<1>2. /\ A \in T /\ D \in T /\ A # D /\ A # root /\ D # root /\ A # P /\ D # P
      /\ Num(ix, P) \in Nat
      /\ \A i \in 0 .. Num(ix, P) : Kid(ix, P, i) = A => i = k - 1
      /\ \A i \in 0 .. Num(ix, P) : Kid(ix, P, i) = D => i = k
      /\ \A p \in T : rk[p] # 0 /\ p # P =>
            \A i \in 0 .. Num(ix, p) : Kid(ix, p, i) # A /\ Kid(ix, p, i) # D
  BY PairPages
<1>3. SideBySide(ix, R, P, k, A, D)
  BY PairKeys
<1>4. /\ root \in T /\ \A p \in T : Num(ix, p) \in Nat
      /\ \A p \in T : rk[p] # 0 => \A i \in 0 .. Num(ix, p) : Kid(ix, p, i) \in T
  BY DEF Family, IsChild
<1>5. /\ \A p \in T : R[p] \subseteq Int /\ R[p] # {} /\ Convex(R[p])
      /\ R[root] = Int
      /\ \A p \in T : NodeKeyed(ix, rk, R, p)
  BY <1>4, NodesKeyed
<1> DEFINE U == R[A] \union R[D]
<1>6. /\ R1[A] = {x \in U : x < key} /\ R1[D] = {x \in U : key <= x}
      /\ \A p \in T : p # A /\ p # D => R1[p] = R[p]
  BY <1>2 DEF Shifted
<1>7. /\ U \subseteq Int /\ key \in U /\ Convex(U) /\ \E x \in U : x < key
      /\ \A x \in Int : x \in U <=>
          /\ x \in R[P] /\ (k - 1 # 0 => Key(ix, P, k - 1) <= x)
          /\ (k # Num(ix, P) => x < Key(ix, P, k + 1))
  BY <1>3 DEF SideBySide
<1> HIDE DEF U
<1>8. /\ R1[A] \subseteq Int /\ R1[A] # {} /\ Convex(R1[A])
      /\ R1[D] \subseteq Int /\ R1[D] # {} /\ Convex(R1[D])
  <2>1. R1[A] \subseteq Int /\ R1[A] # {} /\ R1[D] \subseteq Int /\ R1[D] # {} /\ key \in Int
    <3>1. key \in Int /\ key \in U /\ U \subseteq Int
      BY <1>7
    <3>2. key <= key
      BY <3>1
    <3>3. key \in R1[D]
      BY <1>6, <3>1, <3>2
    <3>4. \E x \in U : x \in R1[A]
      BY <1>6, <1>7
    <3> QED
      BY <1>6, <3>1, <3>3, <3>4
  <2>2. Convex(R1[A])
    BY <1>6, <1>7, <2>1 DEF Convex
  <2>3. Convex(R1[D])
    BY <1>6, <1>7, <2>1 DEF Convex
  <2> QED
    BY <2>1, <2>2, <2>3
<1>9. NodeKeyed(jx, rk, R1, P)
  <2> DEFINE N == Num(ix, P)
  <2>1. /\ Num(jx, P) = N /\ N \in Nat
        /\ \A i \in 0 .. N : Kid(jx, P, i) = Kid(ix, P, i)
        /\ \A i \in 1 .. N : Key(jx, P, i) = IF i = k THEN key ELSE Key(ix, P, i)
    BY <1>2 DEF NewKey, SameKids
  <2>2. R1[P] = R[P] /\ R[P] \subseteq Int
    BY <1>1, <1>2, <1>5, <1>6
  <2>3. /\ \A i \in 0 .. N : \A x \in Int : x \in R[Kid(ix, P, i)] <=> Between(ix, R, P, i, x)
        /\ \A i \in 1 .. N : Key(ix, P, i) \in R[P]
        /\ \A i, j \in 1 .. N : i < j => Key(ix, P, i) < Key(ix, P, j)
    BY <1>1, <1>5 DEF NodeKeyed, Sorted
  <2>4. key \in R[P] /\ key \in Int /\ (k - 1 # 0 => Key(ix, P, k - 1) < key)
        /\ (k # N => key < Key(ix, P, k + 1))
    <3>1. PICK x \in U : x < key
      BY <1>7
    <3>2. key \in R[P] /\ key \in Int /\ (k # N => key < Key(ix, P, k + 1)) /\ x \in Int
          /\ (k - 1 # 0 => Key(ix, P, k - 1) <= x)
      BY <1>7
    <3>3. k - 1 # 0 => k - 1 \in 1 .. N
      BY <1>1, <2>1
    <3>4. k - 1 # 0 => Key(ix, P, k - 1) \in Int
      BY <2>2, <2>3, <3>3
    <3> QED
      BY <3>1, <3>2, <3>4
  <2> HIDE DEF N
  <2>5. k \in 1 .. N
    BY <1>1 DEF N
  <2>6. \A i \in 1 .. Num(jx, P) : Key(jx, P, i) \in R1[P]
    BY <2>1, <2>2, <2>3, <2>4
  <2>7. ASSUME NEW i \in 1 .. N, NEW j \in 1 .. N, i < j PROVE Key(jx, P, i) < Key(jx, P, j)
    <3>0. Key(ix, P, i) \in Int /\ Key(ix, P, j) \in Int /\ Key(ix, P, i) < Key(ix, P, j)
      BY <2>2, <2>3, <2>7
    <3>1. CASE i = k
      <4>1. j # k /\ k # N /\ k + 1 \in 1 .. N /\ (k + 1 = j \/ k + 1 < j)
        BY <2>1, <2>5, <2>7, <3>1
      <4>2. Key(ix, P, k + 1) \in Int /\ Key(ix, P, k + 1) <= Key(ix, P, j)
        BY <2>2, <2>3, <3>0, <4>1
      <4>3. Key(jx, P, i) = key /\ Key(jx, P, j) = Key(ix, P, j) /\ key < Key(ix, P, k + 1) /\ key \in Int
        BY <2>1, <2>4, <2>7, <3>1, <4>1
      <4> QED
        BY <3>0, <4>2, <4>3
    <3>2. CASE j = k
      <4>1. i # k /\ k - 1 # 0 /\ k - 1 \in 1 .. N /\ (i = k - 1 \/ i < k - 1)
        BY <2>1, <2>5, <2>7, <3>2
      <4>2. Key(ix, P, k - 1) \in Int /\ Key(ix, P, i) <= Key(ix, P, k - 1)
        BY <2>2, <2>3, <3>0, <4>1
      <4>3. Key(jx, P, i) = Key(ix, P, i) /\ Key(jx, P, j) = key /\ Key(ix, P, k - 1) < key /\ key \in Int
        BY <2>1, <2>4, <2>7, <3>2, <4>1
      <4> QED
        BY <3>0, <4>2, <4>3
    <3>3. CASE i # k /\ j # k
      BY <2>1, <3>0, <3>3
    <3> QED
      BY <3>1, <3>2, <3>3
  <2>8. ASSUME NEW i \in 0 .. N, NEW x \in Int
        PROVE  x \in R1[Kid(jx, P, i)] <=> Between(jx, R1, P, i, x)
    <3>1. Kid(jx, P, i) = Kid(ix, P, i) /\ Kid(ix, P, i) \in T
      BY <1>1, <1>4, <2>1 DEF N
    <3>2. CASE i = k - 1
      <4>1. Kid(ix, P, i) = A /\ i # k /\ i # N /\ i + 1 = k /\ k \in 1 .. N
        BY <1>1, <2>1, <2>5, <3>2
      <4>2. i # 0 => i \in 1 .. N /\ Key(jx, P, i) = Key(ix, P, i)
        BY <2>1, <4>1
      <4>3. Between(jx, R1, P, i, x) <=> x \in R[P] /\ (i # 0 => Key(ix, P, i) <= x) /\ x < key
        BY <2>1, <2>2, <4>1, <4>2 DEF Between
      <4>4. x \in R1[A] <=> x \in R[P] /\ (i # 0 => Key(ix, P, i) <= x) /\ (k # N => x < Key(ix, P, k + 1)) /\ x < key
        BY <1>6, <1>7, <3>2 DEF N
      <4>5. x < key /\ k # N => x < Key(ix, P, k + 1)
        <5>1. k # N => k + 1 \in 1 .. N
          BY <2>1, <2>5
        <5>2. k # N => Key(ix, P, k + 1) \in Int
          BY <2>2, <2>3, <5>1
        <5> QED
          BY <2>4, <5>2
      <4> QED
        BY <3>1, <4>1, <4>3, <4>4, <4>5
    <3>3. CASE i = k
      <4>1. Kid(ix, P, i) = D /\ i # 0 /\ k \in 1 .. N
        BY <1>1, <2>1, <2>5, <3>3
      <4>2. i # N => i + 1 \in 1 .. N /\ i + 1 # k /\ Key(jx, P, i + 1) = Key(ix, P, i + 1)
        BY <2>1, <3>3, <4>1
      <4>3. Between(jx, R1, P, i, x) <=> x \in R[P] /\ key <= x /\ (i # N => x < Key(ix, P, i + 1))
        BY <2>1, <2>2, <3>3, <4>1, <4>2 DEF Between
      <4>4. x \in R1[D] <=> x \in R[P] /\ (k - 1 # 0 => Key(ix, P, k - 1) <= x)
                            /\ (i # N => x < Key(ix, P, i + 1)) /\ key <= x
        BY <1>6, <1>7, <3>3 DEF N
      <4>5. key <= x /\ k - 1 # 0 => Key(ix, P, k - 1) <= x
        <5>1. k - 1 # 0 => k - 1 \in 1 .. N
          BY <2>1, <2>5
        <5>2. k - 1 # 0 => Key(ix, P, k - 1) \in Int
          BY <2>2, <2>3, <5>1
        <5> QED
          BY <2>4, <5>2
      <4> QED
        BY <3>1, <4>1, <4>3, <4>4, <4>5
    <3>4. CASE i # k - 1 /\ i # k
      <4>1. Kid(ix, P, i) # A /\ Kid(ix, P, i) # D
        BY <1>2, <3>4 DEF N
      <4>2. R1[Kid(ix, P, i)] = R[Kid(ix, P, i)]
        BY <1>6, <3>1, <4>1
      <4>3. /\ i # 0 => i \in 1 .. N /\ Key(jx, P, i) = Key(ix, P, i)
            /\ i # N => i + 1 \in 1 .. N /\ i + 1 # k /\ Key(jx, P, i + 1) = Key(ix, P, i + 1)
        BY <2>1, <2>5, <3>4
      <4>4. Between(jx, R1, P, i, x) <=> Between(ix, R, P, i, x)
        BY <2>1, <2>2, <4>3 DEF Between, N
      <4> QED
        BY <2>3, <3>1, <4>2, <4>4
    <3> QED
      BY <3>2, <3>3, <3>4
  <2>9. Sorted(jx, P)
    BY <2>1, <2>7 DEF Sorted
  <2> QED
    BY <2>1, <2>6, <2>8, <2>9 DEF NodeKeyed
<1>10. ASSUME NEW p \in T, p # A, p # D, p # P PROVE NodeKeyed(jx, rk, R1, p)
  <2>1. R1[p] = R[p] /\ NodeKeyed(ix, rk, R, p) /\ Num(ix, p) \in Nat
        /\ SameKeys(jx, ix, p) /\ SameKids(jx, ix, p)
    BY <1>4, <1>5, <1>6, <1>10
  <2>2. rk[p] # 0 => \A i \in 0 .. Num(ix, p) : R1[Kid(ix, p, i)] = R[Kid(ix, p, i)]
    BY <1>2, <1>4, <1>6, <1>10
  <2> QED
    BY <2>1, <2>2, OthersKeyed
<1>11. \A p \in T : NodeKeyed(jx, rk, R1, p)
  BY <1>9, <1>10
<1>12. \A p \in T : R1[p] \subseteq Int /\ R1[p] # {} /\ Convex(R1[p])
  BY <1>5, <1>6, <1>8
<1>13. R1[root] = Int
  BY <1>2, <1>4, <1>5, <1>6
<1>14. /\ \A p \in T : rk[p] # 0 =>
             \A i \in 0 .. Num(jx, p) : \A x \in Int :
                x \in R1[Kid(jx, p, i)] <=> Between(jx, R1, p, i, x)
       /\ \A p \in T : \A i \in 1 .. Num(jx, p) : Key(jx, p, i) \in R1[p]
       /\ \A p \in T : Sorted(jx, p)
  BY <1>11 DEF NodeKeyed
<1> QED
  BY <1>12, <1>13, <1>14, PlainKeyed

-----------------------------------------------------------------------------
\* A stands for the keys of D, too.
Merged(R, T, A, D) == [p \in T \ {D} |-> IF p = A THEN R[A] \union R[D] ELSE R[p]]

\* Child k of P and the key before it go.
LosesKey(jx, ix, P, k) ==
    /\ LosesKid(jx, ix, P, k)
    /\ \A i \in 1 .. Num(ix, P) - 1 : Key(jx, P, i) = Key(ix, P, IF i < k THEN i ELSE i + 1)

LEMMA KeyedMerge ==
  ASSUME NEW ix, NEW jx, NEW rk, NEW T, NEW root, Family(ix, rk, T, root, NoPage),
         NEW R, KeyedAs(ix, rk, T, root, R),
         NEW P, NEW k, NEW A, NEW D, Pair(ix, rk, T, P, k, A, D), LosesKey(jx, ix, P, k),
         NEW R1, R1 = Merged(R, T, A, D),
         \A p \in T : p \notin {A, D, P} => SameKeys(jx, ix, p) /\ SameKids(jx, ix, p),
         NodeKeyed(jx, rk, R1, A), NEW V, V = T \ {D}
  PROVE  KeyedAs(jx, rk, V, root, R1)
<1>1. P \in T /\ rk[P] # 0 /\ k \in 1 .. Num(ix, P) /\ A = Kid(ix, P, k - 1) /\ D = Kid(ix, P, k)
  BY DEF Pair
<1>2. /\ A \in T /\ D \in T /\ A # D /\ A # root /\ D # root /\ A # P /\ D # P
      /\ Num(ix, P) \in Nat
      /\ \A i \in 0 .. Num(ix, P) : Kid(ix, P, i) = A => i = k - 1
      /\ \A i \in 0 .. Num(ix, P) : Kid(ix, P, i) = D => i = k
      /\ \A p \in T : rk[p] # 0 /\ p # P =>
            \A i \in 0 .. Num(ix, p) : Kid(ix, p, i) # A /\ Kid(ix, p, i) # D
  BY PairPages
<1>3. SideBySide(ix, R, P, k, A, D)
  BY PairKeys
<1>4. /\ root \in T /\ \A p \in T : Num(ix, p) \in Nat
      /\ \A p \in T : rk[p] # 0 => \A i \in 0 .. Num(ix, p) : Kid(ix, p, i) \in T
  BY DEF Family, IsChild
<1>5. /\ \A p \in T : R[p] \subseteq Int /\ R[p] # {} /\ Convex(R[p])
      /\ R[root] = Int
      /\ \A p \in T : NodeKeyed(ix, rk, R, p)
  BY <1>4, NodesKeyed
<1> DEFINE U == R[A] \union R[D]
<1>6. R1[A] = U /\ \A p \in V : p # A => R1[p] = R[p]
  BY <1>2 DEF Merged
<1>7. /\ U \subseteq Int /\ U # {} /\ Convex(U)
      /\ \A x \in Int : x \in U <=>
          /\ x \in R[P] /\ (k - 1 # 0 => Key(ix, P, k - 1) <= x)
          /\ (k # Num(ix, P) => x < Key(ix, P, k + 1))
  BY <1>3 DEF SideBySide
<1> HIDE DEF U
<1>8. NodeKeyed(jx, rk, R1, P)
  <2> DEFINE N == Num(ix, P)
             M == Num(jx, P)
             a == k - 1
  <2>0. N \in Nat /\ k \in 1 .. N /\ a = k - 1
    BY <1>1, <1>2
  <2>1. /\ M = N - 1
        /\ \A i \in 0 .. N - 1 : Kid(jx, P, i) = IF i < k THEN Kid(ix, P, i) ELSE Kid(ix, P, i + 1)
        /\ \A i \in 1 .. N - 1 : Key(jx, P, i) = Key(ix, P, IF i < k THEN i ELSE i + 1)
    BY DEF LosesKey, LosesKid
  <2>2. R1[P] = R[P] /\ R[P] \subseteq Int
    BY <1>1, <1>2, <1>5, <1>6
  <2>3. /\ \A i \in 0 .. N : \A x \in Int : x \in R[Kid(ix, P, i)] <=> Between(ix, R, P, i, x)
        /\ \A i \in 1 .. N : Key(ix, P, i) \in R[P]
        /\ \A i, j \in 1 .. N : i < j => Key(ix, P, i) < Key(ix, P, j)
    BY <1>1, <1>5 DEF NodeKeyed, Sorted
  <2> HIDE DEF N, M, a
  <2>4. /\ \A i \in 1 .. M : i < k => Key(jx, P, i) = Key(ix, P, i) /\ i \in 1 .. N
        /\ \A i \in 1 .. M : i >= k => Key(jx, P, i) = Key(ix, P, i + 1) /\ i + 1 \in 1 .. N
    <3>1. ASSUME NEW i \in 1 .. M, i < k PROVE Key(jx, P, i) = Key(ix, P, i) /\ i \in 1 .. N
      BY <2>0, <2>1, <3>1
    <3>2. ASSUME NEW i \in 1 .. M, i >= k PROVE Key(jx, P, i) = Key(ix, P, i + 1) /\ i + 1 \in 1 .. N
      <4>1. i \in 1 .. N - 1 /\ ~(i < k) /\ i + 1 \in 1 .. N
        BY <2>0, <2>1, <3>2
      <4> QED
        BY <2>1, <4>1
    <3> QED
      BY <3>1, <3>2
  <2>5. ASSUME NEW i \in 1 .. M PROVE Key(jx, P, i) \in R1[P]
    <3>1. i < k \/ i >= k
      BY <2>0, <2>1
    <3> QED
      BY <2>2, <2>3, <2>4, <3>1
  <2>6. ASSUME NEW i \in 1 .. M, NEW j \in 1 .. M, i < j PROVE Key(jx, P, i) < Key(jx, P, j)
    <3> DEFINE x == IF i < k THEN i ELSE i + 1
               y == IF j < k THEN j ELSE j + 1
    <3>1. x \in 1 .. N /\ y \in 1 .. N /\ x < y
      BY <2>0, <2>1, <2>6
    <3>2. Key(jx, P, i) = Key(ix, P, x) /\ Key(jx, P, j) = Key(ix, P, y)
      BY <2>1, <2>6
    <3> HIDE DEF x, y
    <3> QED
      BY <2>3, <3>1, <3>2
  <2>7. ASSUME NEW i \in 0 .. M, NEW x \in Int
        PROVE  x \in R1[Kid(jx, P, i)] <=> Between(jx, R1, P, i, x)
    <3>0. i \in 0 .. N - 1 /\ i \in 0 .. N /\ i + 1 \in 0 .. N
      BY <2>0, <2>1, <2>7
    <3>1. CASE i = a
      <4>1. Kid(jx, P, i) = A /\ i < k /\ i + 1 = k /\ (i # M <=> k # N) /\ (i # M => k \in 1 .. M /\ k >= k)
        BY <1>1, <2>0, <2>1, <3>0, <3>1
      <4>2. i # 0 => i \in 1 .. M /\ Key(jx, P, i) = Key(ix, P, i)
        BY <2>0, <2>1, <2>4, <3>0, <4>1
      <4>3. i # M => Key(jx, P, i + 1) = Key(ix, P, k + 1)
        BY <2>4, <4>1
      <4>4. Between(jx, R1, P, i, x) <=> x \in R[P] /\ (i # 0 => Key(ix, P, i) <= x)
                                         /\ (k # N => x < Key(ix, P, k + 1))
        BY <2>2, <4>1, <4>2, <4>3 DEF Between, M
      <4>5. x \in R1[A] <=> x \in R[P] /\ (i # 0 => Key(ix, P, i) <= x) /\ (k # N => x < Key(ix, P, k + 1))
        BY <1>6, <1>7, <3>1 DEF N, a
      <4> QED
        BY <4>1, <4>4, <4>5
    <3>2. CASE i < a
      <4>1. Kid(jx, P, i) = Kid(ix, P, i) /\ i # k - 1 /\ i # k /\ i # M /\ i # N /\ i + 1 < k /\ i + 1 \in 1 .. M
        BY <2>0, <2>1, <3>0, <3>2
      <4>2. Kid(ix, P, i) \in T /\ Kid(ix, P, i) # A /\ Kid(ix, P, i) # D
        BY <1>1, <1>2, <1>4, <3>0, <4>1 DEF N
      <4>3. R1[Kid(ix, P, i)] = R[Kid(ix, P, i)]
        BY <1>6, <4>2
      <4>4. i # 0 => i \in 1 .. M /\ i < k
        BY <2>0, <2>1, <3>0, <4>1
      <4>5. (i # 0 => Key(jx, P, i) = Key(ix, P, i)) /\ Key(jx, P, i + 1) = Key(ix, P, i + 1)
        BY <2>4, <4>1, <4>4
      <4>6. Between(jx, R1, P, i, x) <=> Between(ix, R, P, i, x)
        BY <2>2, <4>1, <4>5 DEF Between, M, N
      <4> QED
        BY <2>3, <3>0, <4>1, <4>3, <4>6
    <3>3. CASE i > a
      <4>1. /\ Kid(jx, P, i) = Kid(ix, P, i + 1) /\ i + 1 # k - 1 /\ i + 1 # k /\ i # 0 /\ i + 1 # 0
            /\ (i # M <=> i + 1 # N) /\ i \in 1 .. M /\ i >= k
            /\ (i # M => i + 1 \in 1 .. M /\ i + 1 >= k)
        BY <2>0, <2>1, <3>0, <3>3
      <4>2. Kid(ix, P, i + 1) \in T /\ Kid(ix, P, i + 1) # A /\ Kid(ix, P, i + 1) # D
        BY <1>1, <1>2, <1>4, <3>0, <4>1 DEF N
      <4>3. R1[Kid(ix, P, i + 1)] = R[Kid(ix, P, i + 1)]
        BY <1>6, <4>2
      <4> DEFINE c == i + 1
      <4>4. c = i + 1 /\ c \in 0 .. N /\ c # 0
        BY <3>0, <4>1
      <4>5. Key(jx, P, i) = Key(ix, P, c) /\ (i # M => Key(jx, P, c) = Key(ix, P, c + 1))
        BY <2>4, <4>1
      <4>6. Between(jx, R1, P, i, x) <=> Between(ix, R, P, c, x)
        <5>1. i # 0 /\ c # 0 /\ (i # M <=> c # N)
          BY <4>1, <4>4
        <5>2. Between(jx, R1, P, i, x) <=> x \in R1[P] /\ Key(jx, P, i) <= x /\ (i # M => x < Key(jx, P, c))
          BY <5>1 DEF Between, M
        <5>3. Between(ix, R, P, c, x) <=> x \in R[P] /\ Key(ix, P, c) <= x /\ (c # N => x < Key(ix, P, c + 1))
          BY <5>1 DEF Between, N
        <5> HIDE DEF c
        <5> QED
          BY <2>2, <4>5, <5>1, <5>2, <5>3
      <4>7. x \in R[Kid(ix, P, c)] <=> Between(ix, R, P, c, x)
        BY <2>3, <4>4
      <4> QED
        BY <4>1, <4>3, <4>6, <4>7
    <3>4. i = a \/ i < a \/ i > a
      BY <2>0, <3>0
    <3> QED
      BY <3>1, <3>2, <3>3, <3>4
  <2> QED
    BY <2>5, <2>6, <2>7 DEF NodeKeyed, Sorted, M
<1>9. ASSUME NEW p \in V, p # A, p # P PROVE NodeKeyed(jx, rk, R1, p)
  <2>1. R1[p] = R[p] /\ NodeKeyed(ix, rk, R, p) /\ Num(ix, p) \in Nat
        /\ SameKeys(jx, ix, p) /\ SameKids(jx, ix, p)
    BY <1>4, <1>5, <1>6, <1>9
  <2>2. rk[p] # 0 => \A i \in 0 .. Num(ix, p) : R1[Kid(ix, p, i)] = R[Kid(ix, p, i)]
    BY <1>2, <1>4, <1>6, <1>9
  <2> QED
    BY <2>1, <2>2, OthersKeyed
<1>10. \A p \in V : NodeKeyed(jx, rk, R1, p)
  BY <1>8, <1>9
<1>11. \A p \in V : R1[p] \subseteq Int /\ R1[p] # {} /\ Convex(R1[p])
  BY <1>5, <1>6, <1>7
<1>12. R1[root] = Int
  BY <1>2, <1>4, <1>5, <1>6
<1>13. /\ \A p \in V : rk[p] # 0 =>
             \A i \in 0 .. Num(jx, p) : \A x \in Int :
                x \in R1[Kid(jx, p, i)] <=> Between(jx, R1, p, i, x)
       /\ \A p \in V : \A i \in 1 .. Num(jx, p) : Key(jx, p, i) \in R1[p]
       /\ \A p \in V : Sorted(jx, p)
  BY <1>10 DEF NodeKeyed
<1> QED
  BY <1>11, <1>12, <1>13, PlainKeyed

-----------------------------------------------------------------------------
\* A key that is not in U is before all of U, or after.
LEMMA Outside ==
  ASSUME NEW U, U \subseteq Int, Convex(U), NEW y \in Int, y \notin U, NEW u \in U, NEW v \in U, y < u
  PROVE  y < v
<1>1. ASSUME ~(y < v) PROVE FALSE
  <2>1. v < y
    BY <1>1
  <2> QED
    BY <2>1 DEF Convex
<1> QED
  BY <1>1

\* Where the chain leads to and from two neighbouring leaves A and D, of keys U.
Follows(U, V) == \A x \in U : \A y \in V : x < y
Aside(ix, R, A, D, U, q) ==
    /\ ix.node[q].next # D
    /\ ix.node[q].next = A => Meets(R[q], U)
    /\ ix.node[q].prev \in {A, D} => Follows(U, R[q])
    /\ ix.node[A].prev = q => Follows(R[q], U)
    /\ ix.node[D].prev = q => Follows(R[q], U)
    /\ ix.node[D].next = q => Meets(U, R[q])
Around(ix, rk, T, R, A, D, U) ==
    /\ \A q \in T : rk[q] = 0 /\ q # A /\ q # D => Aside(ix, R, A, D, U, q)
    /\ ix.node[A].next = D
    /\ ix.node[D].next = NoPage => \A x \in U : \A y \in Int : x < y => y \in U
    /\ ix.node[D].next # NoPage =>
          ix.node[D].next \in T /\ rk[ix.node[D].next] = 0 /\ ix.node[D].next \notin {A, D}
    /\ ix.node[A].prev \notin {A, D} /\ ix.node[D].prev # D

LEMMA LeavesAround ==
  ASSUME NEW n, NEW rk, NEW ix, Tree(ix, n, rk), NEW T, NEW root, T \subseteq 1 .. n,
         Family(ix, rk, T, root, NoPage), \A p \in T : rk[p] <= rk[root],
         NEW R, KeyedAs(ix, rk, T, root, R), Chained(ix, rk, T, R),
         NEW P, NEW k, NEW A, NEW D, Pair(ix, rk, T, P, k, A, D), rk[A] = 0,
         NEW U, U = R[A] \union R[D]
  PROVE  Around(ix, rk, T, R, A, D, U)
<1> DEFINE sep == Key(ix, P, k)
           nx(p) == ix.node[p].next
           pv(p) == ix.node[p].prev
<1>1. A \in T /\ D \in T /\ A # D /\ rk[D] = 0 /\ NoPage \notin T /\ root \in T
  <2>1. A \in T /\ D \in T /\ A # D /\ rk[A] = rk[D]
    BY PairPages
  <2> QED
    BY <2>1 DEF Family
<1>2. SideBySide(ix, R, P, k, A, D)
  BY PairKeys
<1>3. /\ sep \in R[D] /\ sep \in U /\ sep \in Int /\ sep \notin R[A]
      /\ \A x \in R[A] : x < sep /\ x \in Int /\ x \in U
      /\ \A x \in R[D] : sep <= x /\ x \in Int /\ x \in U
      /\ R[A] # {} /\ U \subseteq Int /\ Convex(U) /\ \A x \in U : x \in R[A] \/ x \in R[D]
  <2>1. /\ sep \in R[D] /\ sep \in Int
        /\ \A x \in R[A] : x < sep
        /\ \A x \in R[D] : sep <= x
        /\ R[A] \subseteq Int /\ R[A] # {} /\ R[D] \subseteq Int
        /\ Convex(U)
    BY <1>2 DEF SideBySide
  <2>2. ~(sep < sep)
    BY <2>1
  <2> QED
    BY <2>1, <2>2
<1> HIDE DEF sep
<1>4. PICK a \in R[A] : TRUE
  BY <1>3
<1>5. a \in Int /\ a \in U /\ a < sep /\ a \notin R[D]
  <2>1. a \in Int /\ a \in U /\ a < sep
    BY <1>3
  <2>2. ~(sep <= a)
    BY <1>3, <2>1
  <2> QED
    BY <1>3, <2>1, <2>2
<1>6. Apart(rk, T, R)
  BY PagesApart
<1>7. \A p \in T : R[p] \subseteq Int /\ R[p] # {}
  BY <1>1, KeyedPlain
<1>8. /\ \A q \in T : rk[q] = 0 => \A x \in Int : x \in R[q] /\ x \in R[A] => q = A
      /\ \A q \in T : rk[q] = 0 => \A x \in Int : x \in R[q] /\ x \in R[D] => q = D
  BY <1>1, <1>6 DEF Apart
<1>9. \A p \in T : rk[p] = 0 =>
         /\ nx(p) = NoPage => \A x \in R[p] : \A y \in Int : x < y => y \in R[p]
         /\ nx(p) # NoPage => nx(p) \in T /\ rk[nx(p)] = 0 /\ Meets(R[p], R[nx(p)])
         /\ pv(p) \in T /\ rk[pv(p)] = 0 => Follows(R[pv(p)], R[p])
  BY DEF Chained, Follows
<1> HIDE DEF nx, pv
<1>10. ASSUME NEW q \in T, rk[q] = 0, q # A, q # D, NEW y \in R[q] PROVE y \in Int /\ y \notin U
  BY <1>3, <1>7, <1>8, <1>10
<1>11. ASSUME NEW q \in T, rk[q] = 0, q # A, q # D
       PROVE  /\ nx(q) # D
              /\ nx(q) = A => Meets(R[q], U)
              /\ pv(q) \in {A, D} => Follows(U, R[q])
              /\ pv(A) = q => Follows(R[q], U)
              /\ pv(D) = q => Follows(R[q], U)
              /\ nx(D) = q => Meets(U, R[q])
  <2>1. ASSUME NEW y \in R[q], NEW u \in U, NEW v \in U, y < u PROVE y < v
    <3>1. y \in Int /\ y \notin U
      BY <1>10, <1>11
    <3> QED
      BY <1>3, <2>1, <3>1, Outside
  <2>2. ASSUME NEW y \in R[q], NEW u \in U, NEW v \in U, u < y PROVE v < y
    <3>1. y \in Int /\ y \notin U /\ u \in Int /\ v \in Int
      BY <1>3, <1>10, <1>11
    <3>2. ~(y < v)
      <4>1. ASSUME y < v PROVE FALSE
        <5>1. y < u
          BY <2>1, <4>1
        <5> QED
          BY <2>2, <3>1, <5>1
      <4> QED
        BY <4>1
    <3>3. y # v
      BY <3>1
    <3> QED
      BY <3>1, <3>2, <3>3
  <2>3. ASSUME nx(q) = D PROVE FALSE
    <3>1. PICK x \in R[q] : TRUE
      BY <1>7, <1>11
    <3>2. Meets(R[q], R[D])
      BY <1>1, <1>9, <1>11, <2>3
    <3>3. x < sep
      BY <1>3, <3>1, <3>2 DEF Meets
    <3>4. x < a
      BY <1>3, <1>5, <2>1, <3>1, <3>3
    <3>5. a \in R[q] \union R[D]
      BY <1>3, <1>5, <3>1, <3>2, <3>4 DEF Meets
    <3> QED
      BY <1>4, <1>5, <1>8, <1>11, <3>5
  <2>4. ASSUME nx(q) = A PROVE Meets(R[q], U)
    <3>1. Meets(R[q], R[A])
      BY <1>1, <1>9, <1>11, <2>4
    <3>2. ASSUME NEW x \in R[q], NEW y \in U
          PROVE  x < y /\ \A z \in Int : x < z /\ z < y => z \in R[q] \union U
      <4>1. x < a
        BY <3>1, <1>4 DEF Meets
      <4>2. x < y
        BY <1>5, <2>1, <4>1
      <4>3. ASSUME NEW z \in Int, x < z, z < y PROVE z \in R[q] \union U
        <5>1. CASE z < a
          <6>1. z \in R[q] \union R[A]
            BY <1>4, <3>1, <4>3, <5>1 DEF Meets
          <6> QED
            BY <1>3, <6>1
        <5>2. CASE z = a
          BY <1>5, <5>2
        <5>3. CASE a < z
          BY <1>3, <1>5, <4>3, <5>3 DEF Convex
        <5> QED
          BY <1>5, <5>1, <5>2, <5>3
      <4> QED
        BY <4>2, <4>3
    <3> QED
      BY <3>2 DEF Meets
  <2>5. ASSUME pv(q) \in {A, D} PROVE Follows(U, R[q])
    <3>1. \E u \in U : \A y \in R[q] : u < y
      <4>1. CASE pv(q) = A
        <5>1. Follows(R[A], R[q])
          BY <1>1, <1>9, <1>11, <4>1
        <5> QED
          BY <1>4, <1>5, <5>1 DEF Follows
      <4>2. CASE pv(q) = D
        <5>1. Follows(R[D], R[q])
          BY <1>1, <1>9, <1>11, <4>2
        <5> QED
          BY <1>3, <5>1 DEF Follows
      <4> QED
        BY <2>5, <4>1, <4>2
    <3> QED
      BY <2>2, <3>1 DEF Follows
  <2>6. ASSUME pv(A) = q PROVE Follows(R[q], U)
    <3>1. Follows(R[q], R[A])
      BY <1>1, <1>9, <1>11, <2>6
    <3>2. \A y \in R[q] : y < a
      BY <1>4, <3>1 DEF Follows
    <3> QED
      BY <1>5, <2>1, <3>2 DEF Follows
  <2>7. ASSUME pv(D) = q PROVE Follows(R[q], U)
    <3>1. Follows(R[q], R[D])
      BY <1>1, <1>9, <1>11, <2>7
    <3>2. \A y \in R[q] : y < sep
      BY <1>3, <3>1 DEF Follows
    <3> QED
      BY <1>3, <2>1, <3>2 DEF Follows
  <2>8. ASSUME nx(D) = q PROVE Meets(U, R[q])
    <3>1. Meets(R[D], R[q])
      BY <1>1, <1>9, <1>11, <2>8
    <3>2. ASSUME NEW x \in U, NEW y \in R[q]
          PROVE  x < y /\ \A z \in Int : x < z /\ z < y => z \in U \union R[q]
      <4>1. sep < y
        BY <3>1, <1>3 DEF Meets
      <4>2. x < y
        BY <1>3, <2>2, <4>1
      <4>3. ASSUME NEW z \in Int, x < z, z < y PROVE z \in U \union R[q]
        <5>1. CASE sep < z
          <6>1. z \in R[D] \union R[q]
            BY <1>3, <3>1, <4>3, <5>1 DEF Meets
          <6> QED
            BY <1>3, <6>1
        <5>2. CASE z = sep
          BY <1>3, <5>2
        <5>3. CASE z < sep
          BY <1>3, <4>3, <5>3 DEF Convex
        <5> QED
          BY <1>3, <5>1, <5>2, <5>3
      <4> QED
        BY <4>2, <4>3
    <3> QED
      BY <3>2 DEF Meets
  <2> QED
    BY <2>3, <2>4, <2>5, <2>6, <2>7, <2>8
<1>12. nx(A) = D
  <2>1. ASSUME nx(A) = NoPage PROVE FALSE
    <3>1. sep \in R[A]
      BY <1>1, <1>3, <1>5, <1>9, <1>4, <2>1
    <3> QED
      BY <1>3, <3>1
  <2>2. ASSUME nx(A) # NoPage, nx(A) # D PROVE FALSE
    <3> DEFINE X == nx(A)
    <3>1. X \in T /\ rk[X] = 0 /\ Meets(R[A], R[X]) /\ X # D
      BY <1>1, <1>9, <2>2
    <3> HIDE DEF X
    <3>2. PICK y \in R[X] : y \in Int
      BY <1>7, <3>1
    <3>3. a < y /\ ~(y < y)
      BY <1>4, <3>1, <3>2 DEF Meets
    <3>4. y \notin R[A]
      BY <3>1, <3>2, <3>3 DEF Meets
    <3>5. CASE y < sep
      <4>1. y \in U
        BY <1>3, <1>5, <3>2, <3>3, <3>5 DEF Convex
      <4> QED
        BY <1>3, <1>8, <3>1, <3>2, <3>4, <4>1
    <3>6. CASE y = sep
      BY <1>3, <1>8, <3>1, <3>2, <3>6
    <3>7. CASE sep < y
      <4>1. sep \in R[A] \union R[X]
        BY <1>3, <1>4, <1>5, <3>1, <3>2, <3>7 DEF Meets
      <4> QED
        BY <1>3, <1>8, <3>1, <4>1
    <3> QED
      BY <1>3, <3>2, <3>5, <3>6, <3>7
  <2> QED
    BY <2>1, <2>2
<1>13. ASSUME nx(D) = NoPage, NEW x \in U, NEW y \in Int, x < y PROVE y \in U
  <2>1. CASE sep < y
    BY <1>1, <1>3, <1>9, <1>13, <2>1
  <2>2. CASE y = sep
    BY <1>3, <2>2
  <2>3. CASE y < sep
    BY <1>3, <1>13, <2>3 DEF Convex
  <2> QED
    BY <1>3, <2>1, <2>2, <2>3
<1>14. ASSUME nx(D) # NoPage PROVE nx(D) \in T /\ rk[nx(D)] = 0 /\ nx(D) \notin {A, D}
  <2>1. nx(D) \in T /\ rk[nx(D)] = 0 /\ Meets(R[D], R[nx(D)])
    BY <1>1, <1>9, <1>14
  <2>2. \A x \in R[nx(D)] : sep < x
    BY <1>3, <2>1 DEF Meets
  <2>3. ~(sep < sep) /\ ~(sep < a)
    BY <1>3, <1>5
  <2> QED
    BY <1>3, <1>4, <2>1, <2>2, <2>3
<1>15. pv(A) \notin {A, D} /\ pv(D) # D
  <2>1. pv(A) \in {A, D} => Follows(R[pv(A)], R[A])
    BY <1>1, <1>9
  <2>2. pv(D) = D => Follows(R[D], R[D])
    BY <1>1, <1>9
  <2>3. ~(a < a) /\ ~(sep < a) /\ ~(sep < sep)
    BY <1>3, <1>5
  <2>4. ~Follows(R[A], R[A]) /\ ~Follows(R[D], R[A]) /\ ~Follows(R[D], R[D])
    BY <1>3, <1>4, <2>3 DEF Follows
  <2> QED
    BY <2>1, <2>2, <2>4
<1>16. \A q \in T : rk[q] = 0 /\ q # A /\ q # D => Aside(ix, R, A, D, U, q)
  BY <1>11 DEF Aside, nx, pv
<1> QED
  BY <1>12, <1>13, <1>14, <1>15, <1>16 DEF Around, nx, pv

-----------------------------------------------------------------------------
\* A leaf's place in the chain.
Linked(ix, rk, T, R, p) ==
    /\ ix.node[p].next = NoPage => \A x \in R[p] : \A y \in Int : x < y => y \in R[p]
    /\ ix.node[p].next # NoPage =>
          /\ ix.node[p].next \in T /\ rk[ix.node[p].next] = 0
          /\ Meets(R[p], R[ix.node[p].next])
    /\ ix.node[p].prev \in T /\ rk[ix.node[p].prev] = 0 => Follows(R[ix.node[p].prev], R[p])

LEMMA LinkedAll ==
  ASSUME NEW ix, NEW rk, NEW T, NEW R
  PROVE  Chained(ix, rk, T, R) <=> \A p \in T : rk[p] = 0 => Linked(ix, rk, T, R, p)
BY DEF Chained, Linked, Follows

\* The keys U of two neighbours are divided anew, before `key'.
Borders(U, V, W, key) ==
    /\ U \subseteq Int /\ Convex(U) /\ key \in U
    /\ V = {x \in U : x < key} /\ W = {x \in U : key <= x} /\ V # {}

LEMMA BordersMeet ==
  ASSUME NEW U, NEW V, NEW W, NEW key, Borders(U, V, W, key)
  PROVE  /\ Meets(V, W) /\ Follows(V, W)
         /\ \A q : Meets(q, U) => Meets(q, V) \/ ~(q \subseteq Int)
         /\ \A q : Meets(U, q) => Meets(W, q) \/ ~(q \subseteq Int)
         /\ \A q : Follows(U, q) => Follows(V, q) /\ Follows(W, q)
         /\ \A q : Follows(q, U) => Follows(q, V) /\ Follows(q, W)
         /\ (\A x \in U : \A y \in Int : x < y => y \in U) =>
               \A x \in W : \A y \in Int : x < y => y \in W
<1>1. /\ U \subseteq Int /\ Convex(U) /\ key \in U /\ key \in Int
      /\ \A x : x \in V <=> (x \in U /\ x < key)
      /\ \A x : x \in W <=> (x \in U /\ key <= x)
  BY DEF Borders
<1>2. V \subseteq Int /\ W \subseteq Int /\ key \in W
  <2>1. V \subseteq U /\ W \subseteq U
    BY ONLY Borders(U, V, W, key) DEF Borders
  <2>2. V \subseteq Int /\ W \subseteq Int
    BY <1>1, <2>1
  <2>3. key <= key
    BY <1>1
  <2>4. key \in W
    BY ONLY Borders(U, V, W, key), <2>3 DEF Borders
  <2> QED
    BY ONLY <2>2, <2>4
<1>3. PICK v \in V : v \in Int /\ v \in U /\ v < key
  BY <1>1, <1>2 DEF Borders
<1>4. Meets(V, W)
  <2>1. ASSUME NEW x \in V, NEW y \in W PROVE x < y
    BY <1>1, <1>2
  <2>2. ASSUME NEW x \in V, NEW y \in W, NEW z \in Int, x < z, z < y PROVE z \in V \union W
    <3>1. z \in U
      BY <1>1, <2>2 DEF Convex
    <3> QED
      BY <1>1, <3>1
  <2> QED
    BY <2>1, <2>2 DEF Meets
<1>5. Follows(V, W)
  BY <1>4 DEF Meets, Follows
<1>6. ASSUME NEW q, q \subseteq Int, Meets(q, U) PROVE Meets(q, V)
  <2>1. ASSUME NEW x \in q, NEW y \in V PROVE x < y
    BY <1>1, <1>6 DEF Meets
  <2>2. ASSUME NEW x \in q, NEW y \in V, NEW z \in Int, x < z, z < y PROVE z \in q \union V
    <3>1. z \in q \union U
      BY <1>1, <1>6, <2>2 DEF Meets
    <3>2. y < key /\ y \in Int
      BY <1>1
    <3>3. z < key
      BY <1>1, <2>2, <3>2
    <3> QED
      BY <1>1, <3>1, <3>3
  <2> QED
    BY <2>1, <2>2 DEF Meets
<1>7. ASSUME NEW q, q \subseteq Int, Meets(U, q) PROVE Meets(W, q)
  <2>1. ASSUME NEW x \in W, NEW y \in q PROVE x < y
    BY <1>1, <1>7 DEF Meets
  <2>2. ASSUME NEW x \in W, NEW y \in q, NEW z \in Int, x < z, z < y PROVE z \in W \union q
    <3>1. z \in q \union U
      BY <1>1, <1>7, <2>2 DEF Meets
    <3>2. key <= x /\ x \in Int
      BY <1>1
    <3>3. key <= z
      BY <1>1, <2>2, <3>2
    <3> QED
      BY <1>1, <3>1, <3>3
  <2> QED
    BY <2>1, <2>2 DEF Meets
<1>8. \A q : Follows(U, q) => Follows(V, q) /\ Follows(W, q)
  BY <1>1 DEF Follows
<1>9. \A q : Follows(q, U) => Follows(q, V) /\ Follows(q, W)
  BY <1>1 DEF Follows
<1>10. ASSUME \A x \in U : \A y \in Int : x < y => y \in U, NEW x \in W, NEW y \in Int, x < y
       PROVE  y \in W
  <2>1. y \in U
    BY <1>1, <1>10
  <2>2. key <= x /\ x \in Int
    BY <1>1, <1>2
  <2>3. key <= y
    BY <1>1, <1>10, <2>2
  <2> QED
    BY <1>1, <2>1, <2>3
<1> QED
  BY <1>4, <1>5, <1>6, <1>7, <1>8, <1>9, <1>10

\* The border between neighbouring leaves A and D moves to `key'.
LEMMA ChainedShift ==
  ASSUME NEW ix, NEW jx, NEW rk, NEW T, NEW R, Chained(ix, rk, T, R), NoPage \notin T,
         NEW A \in T, NEW D \in T, A # D, rk[A] = 0, rk[D] = 0,
         NEW U, U = R[A] \union R[D], Around(ix, rk, T, R, A, D, U),
         \A p \in T : R[p] \subseteq Int, Convex(U),
         NEW key, key \in U, \E x \in U : x < key,
         NEW R1, R1 = Shifted(R, T, A, D, key),
         \A p \in T : rk[p] = 0 => SameChain(jx, ix, p)
  PROVE  Chained(jx, rk, T, R1)
<1> DEFINE V == R1[A]
           W == R1[D]
<1>1. /\ V = {x \in U : x < key} /\ W = {x \in U : key <= x}
      /\ \A p \in T : p # A /\ p # D => R1[p] = R[p]
  BY DEF Shifted
<1>2. Borders(U, V, W, key)
  BY <1>1 DEF Borders
<1>3. /\ \A p \in T : rk[p] = 0 /\ p # A /\ p # D => Aside(ix, R, A, D, U, p) /\ Linked(ix, rk, T, R, p)
      /\ ix.node[A].next = D
      /\ ix.node[D].next = NoPage => \A x \in U : \A y \in Int : x < y => y \in U
      /\ ix.node[D].next # NoPage =>
            ix.node[D].next \in T /\ rk[ix.node[D].next] = 0 /\ ix.node[D].next \notin {A, D}
      /\ ix.node[A].prev \notin {A, D} /\ ix.node[D].prev # D
  BY LinkedAll DEF Around
<1>4. \A p \in T : rk[p] = 0 => jx.node[p].next = ix.node[p].next /\ jx.node[p].prev = ix.node[p].prev
  BY DEF SameChain
<1>5. R1[A] = V /\ R1[D] = W /\ V \subseteq Int /\ W \subseteq Int
  BY <1>1
<1> HIDE DEF V, W
<1>6. /\ Meets(V, W) /\ Follows(V, W)
      /\ \A q \in T : Meets(R[q], U) => Meets(R[q], V)
      /\ \A q \in T : Meets(U, R[q]) => Meets(W, R[q])
      /\ \A q \in T : Follows(U, R[q]) => Follows(V, R[q]) /\ Follows(W, R[q])
      /\ \A q \in T : Follows(R[q], U) => Follows(R[q], V) /\ Follows(R[q], W)
      /\ (\A x \in U : \A y \in Int : x < y => y \in U) =>
            \A x \in W : \A y \in Int : x < y => y \in W
  BY <1>2, BordersMeet
<1>7. Linked(jx, rk, T, R1, A)
  <2>1. ASSUME ix.node[A].prev \in T, rk[ix.node[A].prev] = 0 PROVE Follows(R1[ix.node[A].prev], V)
    <3>1. Aside(ix, R, A, D, U, ix.node[A].prev)
      BY <1>3, <2>1
    <3>2. Follows(R[ix.node[A].prev], U)
      BY <3>1 DEF Aside
    <3> QED
      BY <1>1, <1>3, <1>6, <2>1, <3>2
  <2> QED
    BY <1>3, <1>4, <1>5, <1>6, <2>1 DEF Linked
<1>8. Linked(jx, rk, T, R1, D)
  <2>1. ASSUME ix.node[D].prev \in T, rk[ix.node[D].prev] = 0 PROVE Follows(R1[ix.node[D].prev], W)
    <3>1. CASE ix.node[D].prev = A
      BY <1>5, <1>6, <3>1
    <3>2. CASE ix.node[D].prev # A
      <4>1. Aside(ix, R, A, D, U, ix.node[D].prev)
        BY <1>3, <2>1, <3>2
      <4>2. Follows(R[ix.node[D].prev], U)
        BY <4>1 DEF Aside
      <4> QED
        BY <1>1, <1>3, <1>6, <2>1, <3>2, <4>2
    <3> QED
      BY <3>1, <3>2
  <2>2. ASSUME ix.node[D].next # NoPage PROVE Meets(W, R1[ix.node[D].next])
    <3>1. Aside(ix, R, A, D, U, ix.node[D].next)
      BY <1>3, <2>2
    <3>2. Meets(U, R[ix.node[D].next])
      BY <3>1 DEF Aside
    <3> QED
      BY <1>1, <1>3, <1>6, <2>2, <3>2
  <2> QED
    BY <1>3, <1>4, <1>5, <1>6, <2>1, <2>2 DEF Linked
<1>9. ASSUME NEW p \in T, rk[p] = 0, p # A, p # D PROVE Linked(jx, rk, T, R1, p)
  <2>1. Aside(ix, R, A, D, U, p) /\ Linked(ix, rk, T, R, p) /\ R1[p] = R[p]
    BY <1>1, <1>3, <1>9
  <2>2. ASSUME ix.node[p].next # NoPage PROVE Meets(R1[p], R1[ix.node[p].next])
    <3>1. ix.node[p].next \in T /\ Meets(R[p], R[ix.node[p].next]) /\ ix.node[p].next # D
      BY <2>1, <2>2 DEF Linked, Aside
    <3>2. CASE ix.node[p].next = A
      BY <1>5, <1>6, <2>1, <3>2 DEF Aside
    <3>3. CASE ix.node[p].next # A
      BY <1>1, <2>1, <3>1, <3>3
    <3> QED
      BY <3>2, <3>3
  <2>3. ASSUME ix.node[p].prev \in T, rk[ix.node[p].prev] = 0 PROVE Follows(R1[ix.node[p].prev], R1[p])
    <3>1. CASE ix.node[p].prev \in {A, D}
      <4>1. Follows(U, R[p])
        BY <2>1, <3>1 DEF Aside
      <4>2. Follows(V, R[p]) /\ Follows(W, R[p])
        BY <1>6, <4>1
      <4> QED
        BY <1>5, <2>1, <3>1, <4>2
    <3>2. CASE ix.node[p].prev \notin {A, D}
      BY <1>1, <2>1, <2>3, <3>2 DEF Linked
    <3> QED
      BY <3>1, <3>2
  <2>4. ix.node[p].next # NoPage => ix.node[p].next \in T /\ rk[ix.node[p].next] = 0
    BY <2>1 DEF Linked
  <2>5. ix.node[p].next = NoPage => \A x \in R1[p] : \A y \in Int : x < y => y \in R1[p]
    BY <2>1 DEF Linked
  <2>6. jx.node[p].next = ix.node[p].next /\ jx.node[p].prev = ix.node[p].prev
    BY <1>4, <1>9
  <2> QED
    BY <2>2, <2>3, <2>4, <2>5, <2>6 DEF Linked
<1> QED
  BY <1>7, <1>8, <1>9, LinkedAll

\* Leaf A absorbs its neighbour D.
LEMMA ChainedMerge ==
  ASSUME NEW ix, NEW jx, NEW rk, NEW T, NEW R, Chained(ix, rk, T, R), NoPage \notin T,
         NEW A \in T, NEW D \in T, A # D, rk[A] = 0, rk[D] = 0,
         NEW U, U = R[A] \union R[D], Around(ix, rk, T, R, A, D, U),
         NEW R1, R1 = Merged(R, T, A, D), NEW V, V = T \ {D},
         jx.node[A].next = ix.node[D].next, jx.node[A].prev = ix.node[A].prev,
         \A p \in V : rk[p] = 0 /\ p # A => jx.node[p].next = ix.node[p].next,
         \A p \in V : rk[p] = 0 /\ p # A => jx.node[p].prev =
             IF p = ix.node[D].next THEN A ELSE ix.node[p].prev
  PROVE  Chained(jx, rk, V, R1)
<1>1. R1[A] = U /\ \A p \in V : p # A => R1[p] = R[p]
  BY DEF Merged
<1>2. /\ \A p \in T : rk[p] = 0 /\ p # A /\ p # D => Aside(ix, R, A, D, U, p) /\ Linked(ix, rk, T, R, p)
      /\ ix.node[D].next = NoPage => \A x \in U : \A y \in Int : x < y => y \in U
      /\ ix.node[D].next # NoPage =>
            ix.node[D].next \in T /\ rk[ix.node[D].next] = 0 /\ ix.node[D].next \notin {A, D}
      /\ ix.node[A].prev \notin {A, D}
  BY LinkedAll DEF Around
<1>3. Linked(jx, rk, V, R1, A)
  <2>1. ASSUME ix.node[A].prev \in T, rk[ix.node[A].prev] = 0 PROVE Follows(R1[ix.node[A].prev], U)
    <3>1. Aside(ix, R, A, D, U, ix.node[A].prev)
      BY <1>2, <2>1
    <3> QED
      BY <1>1, <1>2, <2>1, <3>1 DEF Aside
  <2>2. ASSUME ix.node[D].next # NoPage PROVE Meets(U, R1[ix.node[D].next]) /\ ix.node[D].next \in V
    <3>1. Aside(ix, R, A, D, U, ix.node[D].next)
      BY <1>2, <2>2
    <3> QED
      BY <1>1, <1>2, <2>2, <3>1 DEF Aside
  <2> QED
    BY <1>1, <1>2, <2>1, <2>2 DEF Linked
<1>4. ASSUME NEW p \in V, rk[p] = 0, p # A PROVE Linked(jx, rk, V, R1, p)
  <2>1. Aside(ix, R, A, D, U, p) /\ Linked(ix, rk, T, R, p) /\ R1[p] = R[p]
    BY <1>1, <1>2, <1>4
  <2>2. ASSUME ix.node[p].next # NoPage
        PROVE  Meets(R1[p], R1[ix.node[p].next]) /\ ix.node[p].next \in V /\ rk[ix.node[p].next] = 0
    <3>1. ix.node[p].next \in T /\ Meets(R[p], R[ix.node[p].next]) /\ ix.node[p].next # D
          /\ rk[ix.node[p].next] = 0
      BY <2>1, <2>2 DEF Linked, Aside
    <3>2. CASE ix.node[p].next = A
      BY <1>1, <2>1, <3>1, <3>2 DEF Aside
    <3>3. CASE ix.node[p].next # A
      BY <1>1, <2>1, <3>1, <3>3
    <3> QED
      BY <3>2, <3>3
  <2>3. ASSUME ix.node[p].prev \in V, rk[ix.node[p].prev] = 0 PROVE Follows(R1[ix.node[p].prev], R1[p])
    <3>1. CASE ix.node[p].prev = A
      BY <1>1, <2>1, <3>1 DEF Aside
    <3>2. CASE ix.node[p].prev # A
      BY <1>1, <2>1, <2>3, <3>2 DEF Linked
    <3> QED
      BY <3>1, <3>2
  <2>4. ASSUME p = ix.node[D].next PROVE Follows(R1[A], R1[p])
    <3>1. Meets(U, R[p])
      BY <2>1, <2>4 DEF Aside
    <3> QED
      BY <1>1, <2>1, <3>1 DEF Meets, Follows
  <2>5. ix.node[p].next = NoPage => \A x \in R1[p] : \A y \in Int : x < y => y \in R1[p]
    BY <2>1 DEF Linked
  <2>6. jx.node[p].next = ix.node[p].next
        /\ jx.node[p].prev = IF p = ix.node[D].next THEN A ELSE ix.node[p].prev
    BY <1>4
  <2> QED
    BY <2>2, <2>3, <2>4, <2>5, <2>6 DEF Linked
<1> QED
  BY <1>3, <1>4, LinkedAll

-----------------------------------------------------------------------------
\* The entries of two neighbouring leaves, in one row.
Both(ix, A, D, i) == IF i <= Num(ix, A) THEN Item(ix, A, i) ELSE Item(ix, D, i - Num(ix, A))
InARow(ix, A, D, U, last) ==
    /\ \A i \in 1 .. last : Both(ix, A, D, i).key \in U
    /\ \A i, j \in 1 .. last : i < j => Both(ix, A, D, i).key < Both(ix, A, D, j).key

LEMMA BothInARow ==
  ASSUME NEW ix, NEW R, NEW P, NEW k, NEW A, NEW D, SideBySide(ix, R, P, k, A, D),
         Num(ix, A) \in Nat, Num(ix, D) \in Nat,
         \A i \in 1 .. Num(ix, A) : Key(ix, A, i) \in R[A], Sorted(ix, A),
         \A i \in 1 .. Num(ix, D) : Key(ix, D, i) \in R[D], Sorted(ix, D),
         NEW U, U = R[A] \union R[D], NEW last, last = Num(ix, A) + Num(ix, D)
  PROVE  InARow(ix, A, D, U, last)
<1>1. ASSUME NEW i \in 1 .. last
      PROVE  \/ i <= Num(ix, A) /\ i \in 1 .. Num(ix, A) /\ Both(ix, A, D, i).key = Key(ix, A, i)
             \/ /\ ~(i <= Num(ix, A)) /\ i - Num(ix, A) \in 1 .. Num(ix, D)
                /\ Both(ix, A, D, i).key = Key(ix, D, i - Num(ix, A))
  <2>1. CASE i <= Num(ix, A)
    BY <2>1, KeyOfItem DEF Both
  <2>2. CASE ~(i <= Num(ix, A))
    <3>1. i - Num(ix, A) \in 1 .. Num(ix, D)
      BY <2>2
    <3>2. Both(ix, A, D, i) = Item(ix, D, i - Num(ix, A))
      BY <2>2 DEF Both
    <3> QED
      BY <2>2, <3>1, <3>2, KeyOfItem
  <2> QED
    BY <2>1, <2>2
<1>2. \A x \in R[A] : \A y \in R[D] : x < y
  BY DEF SideBySide, Meets
<1>3. \A i \in 1 .. last : Both(ix, A, D, i).key \in U
  BY <1>1
<1>4. ASSUME NEW i \in 1 .. last, NEW j \in 1 .. last, i < j
      PROVE  Both(ix, A, D, i).key < Both(ix, A, D, j).key
  <2>1. CASE j <= Num(ix, A)
    <3>1. i <= Num(ix, A) /\ i \in 1 .. Num(ix, A) /\ j \in 1 .. Num(ix, A)
      BY <1>4, <2>1
    <3>2. Key(ix, A, i) < Key(ix, A, j)
      BY <1>4, <3>1 DEF Sorted
    <3> QED
      BY <1>1, <2>1, <3>1, <3>2
  <2>2. CASE ~(j <= Num(ix, A)) /\ i <= Num(ix, A)
    BY <1>1, <1>2, <2>2
  <2>3. CASE ~(i <= Num(ix, A))
    <3>1. ~(j <= Num(ix, A)) /\ i - Num(ix, A) < j - Num(ix, A)
      BY <1>4, <2>3
    <3>2. i - Num(ix, A) \in 1 .. Num(ix, D) /\ j - Num(ix, A) \in 1 .. Num(ix, D)
          /\ Both(ix, A, D, i).key = Key(ix, D, i - Num(ix, A))
          /\ Both(ix, A, D, j).key = Key(ix, D, j - Num(ix, A))
      BY <1>1, <2>3, <3>1
    <3>3. Key(ix, D, i - Num(ix, A)) < Key(ix, D, j - Num(ix, A))
      BY <3>1, <3>2 DEF Sorted
    <3> QED
      BY <3>2, <3>3
  <2> QED
    BY <2>1, <2>2, <2>3
<1> QED
  BY <1>3, <1>4 DEF InARow

\* Of the entries of leaves A and D the first, now `keep' of them, are in A, the others in D.
Rebordered(jx, ix, n, P, k, A, D, keep) ==
    /\ keep \in Nat \ {0} /\ keep < Num(ix, A) + Num(ix, D)
    /\ Num(jx, A) = keep /\ Num(jx, D) = Num(ix, A) + Num(ix, D) - keep
    /\ \A i \in 1 .. keep : Item(jx, A, i) = Both(ix, A, D, i)
    /\ \A i \in 1 .. Num(ix, A) + Num(ix, D) - keep : Item(jx, D, i) = Both(ix, A, D, keep + i)
    /\ NewKey(jx, ix, P, k, Key(jx, D, 1))
    /\ \A q \in 1 .. n : q \notin {A, D, P} => jx.node[q] = ix.node[q]
    /\ \A q \in 1 .. n : Par(jx, q) = Par(ix, q) /\ SameChain(jx, ix, q)

LEMMA ReborderKeys ==
  ASSUME NEW ix, NEW jx, NEW rk, NEW T, NEW R, NEW A \in T, NEW D \in T, A # D, rk[A] = 0, rk[D] = 0,
         NEW n, NEW P, NEW k, NEW keep, Rebordered(jx, ix, n, P, k, A, D, keep),
         Num(ix, A) \in Nat, Num(ix, D) \in Nat,
         NEW U, U = R[A] \union R[D], U \subseteq Int, InARow(ix, A, D, U, Num(ix, A) + Num(ix, D)),
         NEW key, key = Key(jx, D, 1), NEW R1, R1 = Shifted(R, T, A, D, key)
  PROVE  /\ key \in U /\ \E x \in U : x < key
         /\ NodeKeyed(jx, rk, R1, A) /\ NodeKeyed(jx, rk, R1, D)
<1> DEFINE last == Num(ix, A) + Num(ix, D)
           kk(i) == Both(ix, A, D, i).key
<1>1. /\ keep \in Nat /\ keep >= 1 /\ keep < last /\ last \in Nat
      /\ Num(jx, A) = keep /\ Num(jx, D) = last - keep
  BY DEF Rebordered
<1>2. /\ \A i \in 1 .. keep : Key(jx, A, i) = kk(i)
      /\ \A i \in 1 .. last - keep : Key(jx, D, i) = kk(keep + i)
  BY KeyOfItem DEF Rebordered
<1>3. /\ \A i \in 1 .. last : kk(i) \in U /\ kk(i) \in Int
      /\ \A i, j \in 1 .. last : i < j => kk(i) < kk(j)
  BY DEF InARow
<1> HIDE DEF kk, last
<1>4. key = kk(keep + 1) /\ keep + 1 \in 1 .. last /\ 1 \in 1 .. last /\ 1 < keep + 1
  BY <1>1, <1>2
<1>5. key \in U /\ key \in Int /\ kk(1) \in U /\ kk(1) < key
  BY <1>3, <1>4
<1>6. R1[A] = {x \in U : x < key} /\ R1[D] = {x \in U : key <= x}
  BY DEF Shifted
<1>7. ASSUME NEW i \in 1 .. keep PROVE Key(jx, A, i) \in R1[A]
  <2>1. i \in 1 .. last /\ i < keep + 1
    BY <1>1
  <2>2. kk(i) \in U /\ kk(i) < key
    BY <1>3, <1>4, <2>1
  <2> QED
    BY <1>2, <1>6, <2>2
<1>8. ASSUME NEW i \in 1 .. last - keep PROVE Key(jx, D, i) \in R1[D]
  <2>1. keep + i \in 1 .. last /\ (i = 1 \/ keep + 1 < keep + i)
    BY <1>1
  <2>2. kk(keep + i) \in U /\ kk(keep + i) \in Int /\ key <= kk(keep + i)
    BY <1>3, <1>4, <1>5, <2>1
  <2> QED
    BY <1>2, <1>6, <2>2
<1>9. Sorted(jx, A)
  <2>1. ASSUME NEW i \in 1 .. keep, NEW j \in 1 .. keep, i < j PROVE kk(i) < kk(j)
    <3>1. i \in 1 .. last /\ j \in 1 .. last
      BY <1>1
    <3> QED
      BY <1>3, <2>1, <3>1
  <2> QED
    BY <1>1, <1>2, <2>1 DEF Sorted
<1>10. Sorted(jx, D)
  <2>1. ASSUME NEW i \in 1 .. last - keep, NEW j \in 1 .. last - keep, i < j
        PROVE  kk(keep + i) < kk(keep + j)
    <3>1. keep + i \in 1 .. last /\ keep + j \in 1 .. last /\ keep + i < keep + j
      BY <1>1, <2>1
    <3> QED
      BY <1>3, <3>1
  <2> QED
    BY <1>1, <1>2, <2>1 DEF Sorted
<1> QED
  BY <1>1, <1>5, <1>7, <1>8, <1>9, <1>10 DEF NodeKeyed

-----------------------------------------------------------------------------
\* Leaves A and D have the same entries together.
SameTogether(jx, ix, A, D) ==
    /\ \A i \in 1 .. Num(jx, A) : \E j \in 1 .. Num(ix, A) + Num(ix, D) : Item(jx, A, i) = Both(ix, A, D, j)
    /\ \A i \in 1 .. Num(jx, D) : \E j \in 1 .. Num(ix, A) + Num(ix, D) : Item(jx, D, i) = Both(ix, A, D, j)
    /\ \A j \in 1 .. Num(ix, A) + Num(ix, D) :
          \/ \E i \in 1 .. Num(jx, A) : Item(jx, A, i) = Both(ix, A, D, j)
          \/ \E i \in 1 .. Num(jx, D) : Item(jx, D, i) = Both(ix, A, D, j)

LEMMA ReborderItems ==
  ASSUME NEW ix, NEW jx, NEW n, NEW P, NEW k, NEW A, NEW D, NEW keep,
         Rebordered(jx, ix, n, P, k, A, D, keep), Num(ix, A) \in Nat, Num(ix, D) \in Nat
  PROVE  SameTogether(jx, ix, A, D)
<1> DEFINE last == Num(ix, A) + Num(ix, D)
<1>1. /\ keep \in Nat /\ keep < last /\ last \in Nat
      /\ Num(jx, A) = keep /\ Num(jx, D) = last - keep
      /\ \A i \in 1 .. keep : Item(jx, A, i) = Both(ix, A, D, i)
      /\ \A i \in 1 .. last - keep : Item(jx, D, i) = Both(ix, A, D, keep + i)
  BY DEF Rebordered
<1> HIDE DEF last
<1>2. \A i \in 1 .. keep : \E j \in 1 .. last : Item(jx, A, i) = Both(ix, A, D, j)
  BY <1>1
<1>3. ASSUME NEW i \in 1 .. last - keep PROVE \E j \in 1 .. last : Item(jx, D, i) = Both(ix, A, D, j)
  <2>1. keep + i \in 1 .. last
    BY <1>1
  <2> QED
    BY <1>1, <2>1
<1>4. ASSUME NEW j \in 1 .. last
      PROVE  \/ \E i \in 1 .. keep : Item(jx, A, i) = Both(ix, A, D, j)
             \/ \E i \in 1 .. last - keep : Item(jx, D, i) = Both(ix, A, D, j)
  <2>1. CASE j <= keep
    BY <1>1, <2>1
  <2>2. CASE ~(j <= keep)
    <3>1. PICK i \in 1 .. last - keep : keep + i = j
      <4>1. j - keep \in 1 .. last - keep /\ keep + (j - keep) = j
        BY <1>1, <2>2
      <4> QED
        BY <4>1
    <3> QED
      BY <1>1, <3>1
  <2> QED
    BY <2>1, <2>2
<1> QED
  BY <1>1, <1>2, <1>3, <1>4 DEF SameTogether, last

LEMMA BothItem ==
  ASSUME NEW ix, NEW A, NEW D, Num(ix, A) \in Nat, Num(ix, D) \in Nat, NEW e
  PROVE  (\E j \in 1 .. Num(ix, A) + Num(ix, D) : Both(ix, A, D, j) = e) <=>
             (\E i \in 1 .. Num(ix, A) : Item(ix, A, i) = e) \/ (\E i \in 1 .. Num(ix, D) : Item(ix, D, i) = e)
<1>1. ASSUME NEW j \in 1 .. Num(ix, A) + Num(ix, D), Both(ix, A, D, j) = e
      PROVE  (\E i \in 1 .. Num(ix, A) : Item(ix, A, i) = e) \/ (\E i \in 1 .. Num(ix, D) : Item(ix, D, i) = e)
  <2>1. CASE j <= Num(ix, A)
    BY <1>1, <2>1 DEF Both
  <2>2. CASE ~(j <= Num(ix, A))
    <3>1. j - Num(ix, A) \in 1 .. Num(ix, D) /\ Item(ix, D, j - Num(ix, A)) = e
      BY <1>1, <2>2 DEF Both
    <3> QED
      BY <3>1
  <2> QED
    BY <2>1, <2>2
<1>2. ASSUME NEW i \in 1 .. Num(ix, A), Item(ix, A, i) = e
      PROVE  \E j \in 1 .. Num(ix, A) + Num(ix, D) : Both(ix, A, D, j) = e
  <2>1. i \in 1 .. Num(ix, A) + Num(ix, D) /\ Both(ix, A, D, i) = e
    BY <1>2 DEF Both
  <2> QED
    BY <2>1
<1>3. ASSUME NEW i \in 1 .. Num(ix, D), Item(ix, D, i) = e
      PROVE  \E j \in 1 .. Num(ix, A) + Num(ix, D) : Both(ix, A, D, j) = e
  <2>1. PICK j \in 1 .. Num(ix, A) + Num(ix, D) : j - Num(ix, A) = i /\ ~(j <= Num(ix, A))
    <3>1. i + Num(ix, A) \in 1 .. Num(ix, A) + Num(ix, D) /\ (i + Num(ix, A)) - Num(ix, A) = i
          /\ ~(i + Num(ix, A) <= Num(ix, A))
      OBVIOUS
    <3> QED
      BY <3>1
  <2>2. Both(ix, A, D, j) = e
    BY <1>3, <2>1 DEF Both
  <2> QED
    BY <2>2
<1> QED
  BY <1>1, <1>2, <1>3

LEMMA TogetherItems ==
  ASSUME NEW ix, NEW jx, NEW rk, NEW T, NEW A \in T, NEW D \in T, A # D, rk[A] = 0, rk[D] = 0,
         Num(ix, A) \in Nat, Num(ix, D) \in Nat, SameTogether(jx, ix, A, D),
         \A p \in T : rk[p] = 0 /\ p # A /\ p # D => jx.node[p].entries = ix.node[p].entries
  PROVE  Items(jx, rk, T) = Items(ix, rk, T)
<1> DEFINE Has(x, p, e) == \E i \in 1 .. Num(x, p) : Item(x, p, i) = e
<1>1. ASSUME NEW e
      PROVE  Has(jx, A, e) \/ Has(jx, D, e) <=> \E j \in 1 .. Num(ix, A) + Num(ix, D) : Both(ix, A, D, j) = e
  BY DEF SameTogether
<1>2. ASSUME NEW e
      PROVE  Has(jx, A, e) \/ Has(jx, D, e) <=> Has(ix, A, e) \/ Has(ix, D, e)
  <2>1. (\E j \in 1 .. Num(ix, A) + Num(ix, D) : Both(ix, A, D, j) = e) <=>
             (\E i \in 1 .. Num(ix, A) : Item(ix, A, i) = e) \/ (\E i \in 1 .. Num(ix, D) : Item(ix, D, i) = e)
    BY BothItem
  <2> QED
    BY <1>1, <2>1
<1>3. \A p \in T : rk[p] = 0 /\ p # A /\ p # D => \A e : Has(jx, p, e) <=> Has(ix, p, e)
  BY DEF Num, Item
<1>4. /\ \A e : e \in Items(jx, rk, T) <=> e \in Records /\ \E p \in T : rk[p] = 0 /\ Has(jx, p, e)
      /\ \A e : e \in Items(ix, rk, T) <=> e \in Records /\ \E p \in T : rk[p] = 0 /\ Has(ix, p, e)
  BY DEF Items
<1> HIDE DEF Has
<1>5. ASSUME NEW e PROVE e \in Items(jx, rk, T) <=> e \in Items(ix, rk, T)
  <2>1. ASSUME NEW p \in T, rk[p] = 0, Has(jx, p, e) PROVE \E q \in T : rk[q] = 0 /\ Has(ix, q, e)
    BY <1>2, <1>3, <2>1
  <2>2. ASSUME NEW p \in T, rk[p] = 0, Has(ix, p, e) PROVE \E q \in T : rk[q] = 0 /\ Has(jx, q, e)
    BY <1>2, <1>3, <2>2
  <2> QED
    BY <1>4, <2>1, <2>2
<1> QED
  BY <1>5

\* One leaf gives an entry to its neighbour that has one less than it needs.
LEMMA ReborderGood ==
  ASSUME NEW ix, NEW n, NEW rk, NEW T, NEW root, NEW thin, NEW whole, NEW s,
         Good(ix, n, rk, T, root, thin, whole, s), NEW jx, Tree(jx, n, rk),
         NEW P, NEW k, NEW A, NEW D, Pair(ix, rk, T, P, k, A, D), rk[A] = 0, thin \in {A, D},
         NEW keep, Rebordered(jx, ix, n, P, k, A, D, keep),
         MaxKeys >= 2 => Num(jx, A) >= AtLeast(0) /\ Num(jx, D) >= AtLeast(0)
  PROVE  Good(jx, n, rk, T, root, NoPage, whole, s)
<1>1. /\ Tree(ix, n, rk) /\ T \subseteq 1 .. n /\ Family(ix, rk, T, root, NoPage)
      /\ Par(ix, root) = NoPage /\ root \in T /\ NoPage \notin T /\ n \in Nat
      /\ Items(ix, rk, T) = s
      /\ \A p \in T : p \in 1 .. n /\ Num(ix, p) \in Nat /\ rk[p] \in Nat /\ rk[p] <= rk[root]
  BY DEF Good, Shape, Family, Tree
<1>2. A \in T /\ D \in T /\ A # D /\ A # root /\ D # root /\ A # P /\ D # P
      /\ rk[D] = 0 /\ rk[P] # 0 /\ P \in T
  <2>1. A \in T /\ D \in T /\ A # D /\ A # root /\ D # root /\ A # P /\ D # P /\ rk[A] = rk[D]
    BY <1>1, PairPages
  <2> QED
    BY <2>1 DEF Pair
<1>3. /\ keep \in Nat /\ keep < Num(ix, A) + Num(ix, D)
      /\ Num(jx, A) = keep /\ Num(jx, D) = Num(ix, A) + Num(ix, D) - keep
      /\ NewKey(jx, ix, P, k, Key(jx, D, 1))
      /\ \A q \in 1 .. n : q \notin {A, D, P} => jx.node[q] = ix.node[q]
      /\ \A q \in 1 .. n : Par(jx, q) = Par(ix, q) /\ SameChain(jx, ix, q)
  BY DEF Rebordered
<1>4. \A p \in T : p \notin {A, D, P} => SameNodeOf(jx, ix, p)
  BY <1>1, <1>3, SameNode
<1>5. \A p \in T : p \notin {A, D, P} => SameKeys(jx, ix, p) /\ SameKids(jx, ix, p) /\ Num(jx, p) = Num(ix, p)
  BY <1>4 DEF SameNodeOf
<1>6. SameKids(jx, ix, P) /\ Num(jx, P) = Num(ix, P)
  BY <1>3 DEF NewKey
<1>7. \A p \in T : Num(jx, p) \in Nat /\ Par(jx, p) = Par(ix, p) /\ SameChain(jx, ix, p)
  <2>1. Num(jx, A) \in Nat /\ Num(jx, D) \in Nat
    BY <1>1, <1>2, <1>3
  <2> QED
    BY <1>1, <1>3, <1>5, <1>6, <2>1
<1>8. \A p \in T : rk[p] # 0 => SameKids(jx, ix, p) /\ Num(jx, p) = Num(ix, p)
  BY <1>2, <1>5, <1>6
<1>9. Shape(jx, n, rk, T, root, NoPage)
  <2>1. Family(jx, rk, T, root, NoPage)
    BY <1>1, <1>7, <1>8, SameFamily
  <2> QED
    BY <1>1, <1>7, <2>1 DEF Shape
<1>10. MaxKeys >= 2 => Filled(jx, rk, T, root, NoPage)
  <2>1. ASSUME MaxKeys >= 2, NEW p \in T
        PROVE  Num(jx, p) + (IF p = NoPage THEN 1 ELSE 0) >= Need(rk, root, p)
    <3>0. (IF p = NoPage THEN 1 ELSE 0) = 0
      BY <1>1
    <3>1. CASE p \in {A, D}
      <4>1. Need(rk, root, p) = AtLeast(0)
        BY <1>2, <3>1 DEF Need
      <4>2. Num(jx, p) >= AtLeast(0) /\ Num(jx, p) \in Nat
        BY <1>7, <2>1, <3>1
      <4> QED
        BY <3>0, <4>1, <4>2
    <3>2. CASE p \notin {A, D}
      <4>1. Num(ix, p) + (IF p = thin THEN 1 ELSE 0) >= Need(rk, root, p)
        BY <2>1 DEF Good, Filled
      <4>2. Num(jx, p) = Num(ix, p) /\ p # thin
        BY <1>5, <1>6, <3>2
      <4> QED
        BY <3>0, <4>1, <4>2
    <3> QED
      BY <3>1, <3>2
  <2> QED
    BY <2>1 DEF Filled
<1>11. ASSUME Unique PROVE \E R : KeyedAs(jx, rk, T, root, R) /\ (whole => Chained(jx, rk, T, R))
  <2>1. PICK R : KeyedAs(ix, rk, T, root, R) /\ (whole => Chained(ix, rk, T, R))
    BY <1>11 DEF Good
  <2> DEFINE U == R[A] \union R[D]
             key == Key(jx, D, 1)
             R1 == Shifted(R, T, A, D, key)
  <2>2. SideBySide(ix, R, P, k, A, D)
    BY <1>1, <2>1, PairKeys
  <2>3. /\ \A p \in T : R[p] \subseteq Int
        /\ \A p \in T : \A i \in 1 .. Num(ix, p) : Key(ix, p, i) \in R[p]
        /\ \A p \in T : Sorted(ix, p)
    BY <1>1, <2>1, KeyedPlain
  <2>4. U \subseteq Int /\ Convex(U) /\ U = R[A] \union R[D]
    BY <1>2, <2>2, <2>3 DEF SideBySide
  <2>5. key = Key(jx, D, 1) /\ R1 = Shifted(R, T, A, D, key)
    OBVIOUS
  <2> HIDE DEF U, key, R1
  <2>6. InARow(ix, A, D, U, Num(ix, A) + Num(ix, D))
    BY <1>1, <1>2, <2>2, <2>3, <2>4, BothInARow
  <2>7. /\ key \in U /\ \E x \in U : x < key
        /\ NodeKeyed(jx, rk, R1, A) /\ NodeKeyed(jx, rk, R1, D)
    <3>1. Num(ix, A) \in Nat /\ Num(ix, D) \in Nat /\ A \in T /\ D \in T /\ A # D /\ rk[D] = 0
      BY <1>1, <1>2
    <3> QED
      BY <2>4, <2>5, <2>6, <3>1, ReborderKeys
  <2>8. KeyedAs(jx, rk, T, root, R1)
    <3>1. key \in R[A] \union R[D] /\ \E x \in R[A] \union R[D] : x < key
      BY <2>4, <2>7
    <3>2. NewKey(jx, ix, P, k, key)
      BY <1>3, <2>5
    <3>3. \A p \in T : p \notin {A, D, P} => SameKeys(jx, ix, p) /\ SameKids(jx, ix, p)
      BY <1>5
    <3> QED
      BY <1>1, <2>1, <2>5, <2>7, <3>1, <3>2, <3>3, KeyedShift
  <2>9. whole => Chained(jx, rk, T, R1)
    <3>1. ASSUME whole PROVE Chained(jx, rk, T, R1)
      <4>1. Chained(ix, rk, T, R)
        BY <2>1, <3>1
      <4>2. Around(ix, rk, T, R, A, D, U)
        BY <1>1, <2>1, <2>4, <4>1, LeavesAround
      <4>3. \A p \in T : rk[p] = 0 => SameChain(jx, ix, p)
        BY <1>7
      <4> QED
        BY <1>1, <1>2, <2>3, <2>4, <2>5, <2>7, <4>1, <4>2, <4>3, ChainedShift
    <3> QED
      BY <3>1
  <2> QED
    BY <2>8, <2>9
<1>12. Items(jx, rk, T) = s
  <2>1. SameTogether(jx, ix, A, D)
    BY <1>1, <1>2, ReborderItems
  <2>2. \A p \in T : rk[p] = 0 /\ p # A /\ p # D => jx.node[p].entries = ix.node[p].entries
    BY <1>1, <1>2, <1>3
  <2>3. Items(jx, rk, T) = Items(ix, rk, T)
    <3>1. Num(ix, A) \in Nat /\ Num(ix, D) \in Nat /\ A \in T /\ D \in T /\ A # D /\ rk[D] = 0
      BY <1>1, <1>2
    <3> QED
      BY <2>1, <2>2, <3>1, TogetherItems
  <2> QED
    BY <1>1, <2>3
<1> QED
  BY <1>9, <1>10, <1>11, <1>12 DEF Good

-----------------------------------------------------------------------------
\* Nodes X and Y get other entries, and P another key.
Redistributed(jx, ix, n, X, s, Y, t, P, k, key) ==
    /\ jx.node[X].entries = s /\ jx.node[Y].entries = t
    /\ NewKey(jx, ix, P, k, key)
    /\ \A q \in 1 .. n : q \notin {X, Y, P} => jx.node[q] = ix.node[q]
    /\ \A q \in 1 .. n : /\ jx.node[q].leftMost = ix.node[q].leftMost
                         /\ Par(jx, q) = Par(ix, q) /\ SameChain(jx, ix, q)
    /\ jx.pins = ix.pins /\ jx.info = ix.info

Redistribute(ix, X, s, Y, t, P, k, key) ==
    WithKey(WithEntries(WithEntries(ix, X, s), Y, t), P, k, key)

LEMMA Redistributes ==
  ASSUME NEW n, NEW rk, NEW ix, Tree(ix, n, rk), NEW X \in 1 .. n, NEW Y \in 1 .. n, NEW P \in 1 .. n,
         X # Y, P # X, P # Y, rk[P] # 0, NEW s \in Lists(Ents(n, rk, rk[X])),
         NEW t \in Lists(Ents(n, rk, rk[Y])), NEW k \in 1 .. Num(ix, P), NEW key \in Keys
  PROVE  /\ Tree(Redistribute(ix, X, s, Y, t, P, k, key), n, rk)
         /\ Redistributed(Redistribute(ix, X, s, Y, t, P, k, key), ix, n, X, s, Y, t, P, k, key)
<1> DEFINE ax == WithEntries(ix, X, s)
           bx == WithEntries(ax, Y, t)
           jx == WithKey(bx, P, k, key)
<1>1. Tree(ax, n, rk) /\ EntriesSet(ax, ix, n, X, s)
  BY EntriesField
<1> HIDE DEF ax
<1>2. Tree(bx, n, rk) /\ EntriesSet(bx, ax, n, Y, t)
  BY <1>1, EntriesField
<1> HIDE DEF bx
<1>3. bx.node[P] = ix.node[P]
  BY <1>1, <1>2 DEF EntriesSet, Only
<1>4. Tree(jx, n, rk) /\ KeySet(jx, bx, n, P, k, key)
  <2>1. k \in 1 .. Num(bx, P)
    BY <1>3 DEF Num
  <2> QED
    BY <1>2, <2>1, KeyField
<1> HIDE DEF jx
<1>5. Tree(ix, n, rk)
  OBVIOUS
<1>6. jx.node[X].entries = s /\ jx.node[Y].entries = t
  BY <1>1, <1>2, <1>4 DEF EntriesSet, KeySet, Only
<1>7. \A q \in 1 .. n : q \notin {X, Y, P} => jx.node[q] = ix.node[q]
  BY <1>1, <1>2, <1>4 DEF EntriesSet, KeySet, Only
<1>8. ASSUME NEW q \in 1 .. n
      PROVE  /\ jx.node[q].leftMost = ix.node[q].leftMost
             /\ Par(jx, q) = Par(ix, q) /\ SameChain(jx, ix, q)
  <2>1. CASE q = X
    BY <1>1, <1>2, <1>4, <2>1 DEF EntriesSet, KeySet, Only, Par, SameChain
  <2>2. CASE q = Y
    BY <1>1, <1>2, <1>4, <2>2 DEF EntriesSet, KeySet, Only, Par, SameChain
  <2>3. CASE q = P
    BY <1>3, <1>4, <2>3 DEF KeySet, Par, SameChain
  <2>4. CASE q \notin {X, Y, P}
    BY <1>7, <2>4 DEF Par, SameChain
  <2> QED
    BY <2>1, <2>2, <2>3, <2>4
<1>9. NewKey(jx, ix, P, k, key)
  <2>1. /\ Num(bx, P) = Num(ix, P) /\ \A i : Key(bx, P, i) = Key(ix, P, i)
        /\ \A i : Kid(bx, P, i) = Kid(ix, P, i)
    BY <1>3 DEF Num, Key, Kid
  <2>2. SameKids(jx, bx, P)
    <3>1. /\ Num(jx, P) = Num(bx, P)
          /\ \A i \in 1 .. Num(bx, P) : jx.node[P].entries[i].child = bx.node[P].entries[i].child
          /\ jx.node[P].leftMost = bx.node[P].leftMost
      BY <1>4 DEF KeySet
    <3>2. /\ Kid(bx, P, 0) = bx.node[P].leftMost
          /\ \A i \in 1 .. Num(bx, P) : Kid(bx, P, i) = bx.node[P].entries[i].child
          /\ Num(bx, P) \in Nat
      BY SMTT(40), <1>2, KidsOfPage
    <3>3. /\ Kid(jx, P, 0) = jx.node[P].leftMost
          /\ \A i \in 1 .. Num(jx, P) : Kid(jx, P, i) = jx.node[P].entries[i].child
      <4>1. Tree(jx, n, rk)
        BY <1>4
      <4> QED
        BY SMTT(40), <4>1, KidsOfPage
    <3>4. ASSUME NEW i \in 0 .. Num(bx, P) PROVE Kid(jx, P, i) = Kid(bx, P, i)
      <4>1. i = 0 \/ i \in 1 .. Num(bx, P)
        BY <3>2
      <4> QED
        BY <3>1, <3>2, <3>3, <4>1
    <3> QED
      BY <3>1, <3>4 DEF SameKids
  <2>3. SameKids(jx, ix, P)
    BY <2>1, <2>2 DEF SameKids
  <2>4. \A i \in 1 .. Num(ix, P) : Key(jx, P, i) = IF i = k THEN key ELSE Key(ix, P, i)
    BY <1>4, <2>1 DEF KeySet
  <2> QED
    BY <2>3, <2>4 DEF NewKey, SameKids
<1>10. jx.pins = ix.pins /\ jx.info = ix.info
  BY <1>1, <1>2, <1>4 DEF EntriesSet, KeySet, Only
<1>11. Redistributed(jx, ix, n, X, s, Y, t, P, k, key)
  BY <1>6, <1>7, <1>8, <1>9, <1>10 DEF Redistributed
<1>12. jx = Redistribute(ix, X, s, Y, t, P, k, key)
  BY DEF Redistribute, jx, bx, ax
<1> QED
  BY <1>4, <1>11, <1>12

\* The items of sequences that lend or get an entry.
IsLast(s, e, t) == e = Last(s) /\ t = Front(s)
GivesLast(S, s, e, t) ==
    /\ e \in S /\ t \in Lists(S) /\ e = s[Len(s)] /\ Len(t) = Len(s) - 1 /\ Len(s) \in Nat
    /\ \A i \in 1 .. Len(s) - 1 : t[i] = s[i]
LEMMA LastFrontItems ==
  ASSUME NEW S, NEW s \in Lists(S), Len(s) # 0, NEW e, NEW t, IsLast(s, e, t)
  PROVE  GivesLast(S, s, e, t)
<1>0. e = Last(s) /\ t = Front(s)
  BY DEF IsLast
<1>1. s \in Seq(S) /\ Len(s) \in Nat \ {0} /\ s # <<>>
  BY EmptySeq DEF Lists
<1>2. e \in S /\ t \in Lists(S)
  BY <1>0, <1>1, LastFront
<1>3. e = s[Len(s)]
  BY <1>0 DEF Last
<1>4. Len(t) = Len(s) - 1 /\ \A i \in 1 .. Len(s) - 1 : t[i] = s[i]
  <2> DEFINE b == Len(s) - 1
  <2>1. 1 \in 1 .. Len(s) + 1 /\ b \in 0 .. Len(s) /\ 1 <= b + 1 /\ b - 1 + 1 = b
    BY <1>1
  <2>2. t = SubSeq(s, 1, b)
    BY <1>0 DEF Front
  <2> HIDE DEF b
  <2>3. Len(t) = b /\ \A j \in 1 .. b : t[j] = s[1 + j - 1]
    BY <1>1, <2>1, <2>2, PartItems
  <2>4. \A j \in 1 .. b : 1 + j - 1 = j
    OBVIOUS
  <2>5. b = Len(s) - 1
    BY DEF b
  <2> QED
    BY <2>3, <2>4, <2>5
<1> QED
  BY <1>1, <1>2, <1>3, <1>4 DEF GivesLast

IsHead(s, e, t) == e = Head(s) /\ t = Tail(s)
GivesHead(S, s, e, t) ==
    /\ e \in S /\ t \in Lists(S) /\ e = s[1] /\ Len(t) = Len(s) - 1 /\ Len(s) \in Nat
    /\ \A i \in 1 .. Len(s) - 1 : t[i] = s[i + 1]
LEMMA HeadTailItems ==
  ASSUME NEW S, NEW s \in Lists(S), Len(s) # 0, NEW e, NEW t, IsHead(s, e, t)
  PROVE  GivesHead(S, s, e, t)
<1>0. e = Head(s) /\ t = Tail(s)
  BY DEF IsHead
<1>1. s \in Seq(S) /\ Len(s) \in Nat \ {0} /\ s # <<>>
  BY EmptySeq DEF Lists
<1>2. e \in S /\ t \in Lists(S)
  BY <1>0, <1>1, HeadTail
<1>3. e = s[1] /\ Len(t) = Len(s) - 1 /\ \A i \in 1 .. Len(t) : t[i] = s[i + 1]
  BY <1>0, <1>1, HeadTailProperties
<1> QED
  BY <1>1, <1>2, <1>3 DEF GivesHead

GetsFirst(S, s, e, t) ==
    /\ t \in Lists(S) /\ Len(t) = Len(s) + 1 /\ Len(s) \in Nat /\ t[1] = e
    /\ \A i \in 1 .. Len(s) : t[i + 1] = s[i]
GetsLast(S, s, e, t) ==
    /\ t \in Lists(S) /\ Len(t) = Len(s) + 1 /\ Len(s) \in Nat /\ t[Len(s) + 1] = e
    /\ \A i \in 1 .. Len(s) : t[i] = s[i]
LEMMA FirstItems ==
  ASSUME NEW S, NEW s \in Lists(S), Len(s) < MinKeys, NEW e \in S
  PROVE  GetsFirst(S, s, e, <<e>> \o s)
<1> DEFINE t == <<e>> \o s
           o == <<e>>
<1>1. s \in Seq(S) /\ Len(s) \in Nat
  BY DEF Lists
<1>2. t \in Lists(S)
  BY OneMore
<1>3. o \in Seq(S) /\ Len(o) = 1 /\ o[1] = e /\ t = o \o s
  OBVIOUS
<1> HIDE DEF o, t
<1>4. /\ Len(t) = Len(o) + Len(s)
      /\ \A j \in 1 .. Len(o) : t[j] = o[j]
      /\ \A j \in Len(o) + 1 .. Len(o) + Len(s) : t[j] = s[j - Len(o)]
  BY <1>1, <1>3, ConcatItems
<1>5. Len(t) = Len(s) + 1 /\ t[1] = e
  BY <1>1, <1>3, <1>4
<1>6. ASSUME NEW i \in 1 .. Len(s) PROVE t[i + 1] = s[i]
  <2>1. i + 1 \in Len(o) + 1 .. Len(o) + Len(s) /\ (i + 1) - Len(o) = i
    BY <1>1, <1>3
  <2> QED
    BY <1>4, <2>1
<1>7. GetsFirst(S, s, e, t)
  BY <1>1, <1>2, <1>5, <1>6 DEF GetsFirst
<1> QED
  BY <1>7 DEF t

LEMMA LastItems ==
  ASSUME NEW S, NEW s \in Lists(S), Len(s) < MinKeys, NEW e \in S
  PROVE  GetsLast(S, s, e, Append(s, e))
<1> DEFINE u == Append(s, e)
<1>1. s \in Seq(S) /\ Len(s) \in Nat
  BY DEF Lists
<1>2. u \in Lists(S)
  BY OneMore
<1>3. /\ Len(u) = Len(s) + 1 /\ u[Len(s) + 1] = e
      /\ \A i \in 1 .. Len(s) : u[i] = s[i]
  BY <1>1
<1> HIDE DEF u
<1>4. GetsLast(S, s, e, u)
  BY <1>1, <1>2, <1>3 DEF GetsLast
<1> QED
  BY <1>4 DEF u

-----------------------------------------------------------------------------
\* A leaf that lends an entry, and the key of its parent, are there.
Borrows(ix, n, rk, page, lender, P, k) ==
    /\ page \in 1 .. n /\ lender \in 1 .. n /\ P \in 1 .. n
    /\ page # lender /\ P # page /\ P # lender /\ rk[page] = rk[lender] /\ rk[P] # 0
    /\ k \in 1 .. Num(ix, P)
    /\ Num(ix, page) < MinKeys /\ Num(ix, lender) > MinKeys

LEMMA BorrowsNumbers ==
  ASSUME NEW n, NEW rk, NEW ix, Tree(ix, n, rk), NEW page, NEW lender, NEW P, NEW k,
         Borrows(ix, n, rk, page, lender, P, k)
  PROVE  /\ ix.node[page].entries \in Lists(Ents(n, rk, rk[page]))
         /\ ix.node[lender].entries \in Lists(Ents(n, rk, rk[page]))
         /\ Len(ix.node[page].entries) = Num(ix, page) /\ Len(ix.node[page].entries) < MinKeys
         /\ Len(ix.node[lender].entries) = Num(ix, lender) /\ Len(ix.node[lender].entries) # 0
         /\ Num(ix, page) \in Nat /\ Num(ix, lender) \in Nat /\ MinKeys \in Nat \ {0}
         /\ Num(ix, lender) >= 2
<1>1. ix.node[page].entries \in Lists(Ents(n, rk, rk[page]))
      /\ ix.node[lender].entries \in Lists(Ents(n, rk, rk[lender]))
      /\ Num(ix, page) \in Nat /\ Num(ix, lender) \in Nat
  BY PageFields DEF Borrows, Num
<1>2. Len(ix.node[page].entries) = Num(ix, page) /\ Len(ix.node[lender].entries) = Num(ix, lender)
  BY DEF Num
<1>3. MinKeys \in Nat \ {0}
  BY MinKeysFits
<1> QED
  BY <1>1, <1>2, <1>3 DEF Borrows

LEMMA BorrowLeftIs ==
  ASSUME NEW n, NEW rk, NEW ix, Tree(ix, n, rk), NEW A, NEW D, NEW P, NEW k,
         Borrows(ix, n, rk, D, A, P, k), rk[A] = 0,
         NEW keep, keep = Num(ix, A) - 1, NEW jx, jx = BorrowLeft(ix, D, A, P, k)
  PROVE  /\ Tree(jx, n, rk) /\ Rebordered(jx, ix, n, P, k, A, D, keep)
         /\ jx.pins = ix.pins /\ jx.info = ix.info
<1> DEFINE give == ix.node[A].entries
           have == ix.node[D].entries
           e == Last(give)
           t == Front(give)
           s == <<e>> \o have
           key == e.key
<1>1. /\ A \in 1 .. n /\ D \in 1 .. n /\ P \in 1 .. n /\ D # A /\ P # D /\ P # A /\ rk[P] # 0
      /\ k \in 1 .. Num(ix, P) /\ rk[D] = 0
  BY DEF Borrows
<1>2. /\ give \in Lists(Records) /\ have \in Lists(Records) /\ Len(have) = Num(ix, D)
      /\ Len(have) < MinKeys /\ Len(give) = Num(ix, A) /\ Len(give) # 0
      /\ Num(ix, A) \in Nat /\ Num(ix, D) \in Nat /\ Num(ix, A) >= 2
  BY <1>1, BorrowsNumbers DEF Ents
<1>3. jx = Redistribute(ix, D, s, A, t, P, k, key)
  BY DEF BorrowLeft, Redistribute, WithKey, WithEntries
<1>4. e = Last(give) /\ t = Front(give) /\ s = <<e>> \o have /\ key = e.key
      /\ give = ix.node[A].entries /\ have = ix.node[D].entries
  OBVIOUS
<1> HIDE DEF give, have, e, t, s, key
<1>5. /\ e \in Records /\ t \in Lists(Records) /\ e = give[Len(give)] /\ Len(t) = Len(give) - 1
      /\ \A i \in 1 .. Len(give) - 1 : t[i] = give[i]
  <2>1. IsLast(give, e, t) /\ give \in Lists(Records) /\ Len(give) # 0
    BY <1>2, <1>4 DEF IsLast
  <2>2. GivesLast(Records, give, e, t)
    BY <2>1, LastFrontItems
  <2> QED
    BY <2>2 DEF GivesLast
<1>6. /\ s \in Lists(Records) /\ Len(s) = Len(have) + 1 /\ s[1] = e
      /\ \A i \in 1 .. Len(have) : s[i + 1] = have[i]
  <2>1. have \in Lists(Records) /\ Len(have) < MinKeys /\ e \in Records /\ s = <<e>> \o have
    BY <1>2, <1>4, <1>5
  <2>2. GetsFirst(Records, have, e, s)
    BY <2>1, FirstItems
  <2> QED
    BY <2>2 DEF GetsFirst
<1>7. key \in Keys
  BY <1>4, <1>5 DEF Keys
<1>8. Tree(jx, n, rk) /\ Redistributed(jx, ix, n, D, s, A, t, P, k, key)
  <2>1. s \in Lists(Ents(n, rk, rk[D])) /\ t \in Lists(Ents(n, rk, rk[A]))
    BY <1>1, <1>5, <1>6 DEF Ents
  <2>2. jx = Redistribute(ix, D, s, A, t, P, k, key) /\ key \in Keys
    BY <1>3, <1>7
  <2> QED
    BY <1>1, <2>1, <2>2, Redistributes
<1>9. /\ \A i : Item(jx, A, i) = t[i] /\ Item(jx, D, i) = s[i]
      /\ \A i : Item(ix, A, i) = give[i] /\ Item(ix, D, i) = have[i]
      /\ Num(jx, A) = Len(t) /\ Num(jx, D) = Len(s)
  BY <1>4, <1>8 DEF Redistributed, Item, Num
<1>10. Num(jx, A) = keep /\ Num(jx, D) = Num(ix, A) + Num(ix, D) - keep
  BY <1>2, <1>5, <1>6, <1>9
<1>11. ASSUME NEW i \in 1 .. keep PROVE Item(jx, A, i) = Both(ix, A, D, i)
  <2>1. i \in 1 .. Len(give) - 1 /\ i <= Num(ix, A)
    BY <1>2
  <2> QED
    BY <1>5, <1>9, <2>1 DEF Both
<1>12. ASSUME NEW i \in 1 .. Num(ix, A) + Num(ix, D) - keep
       PROVE  Item(jx, D, i) = Both(ix, A, D, keep + i)
  <2>1. CASE i = 1
    <3>1. keep + i = Num(ix, A) /\ keep + i <= Num(ix, A)
      BY <1>2, <2>1
    <3>2. Both(ix, A, D, keep + i) = give[Len(give)]
      BY <1>2, <1>9, <3>1 DEF Both
    <3> QED
      BY <1>5, <1>6, <1>9, <2>1, <3>2
  <2>2. CASE i # 1
    <3>1. ~(keep + i <= Num(ix, A)) /\ (keep + i) - Num(ix, A) = i - 1 /\ i - 1 \in 1 .. Len(have)
          /\ (i - 1) + 1 = i
      BY <1>2, <2>2
    <3>2. Both(ix, A, D, keep + i) = have[i - 1]
      BY <1>9, <3>1 DEF Both
    <3>3. s[i] = have[i - 1]
      BY <1>6, <3>1
    <3> QED
      BY <1>9, <3>2, <3>3
  <2> QED
    BY <2>1, <2>2
<1>13. Key(jx, D, 1) = key
  BY <1>4, <1>6, <1>9, KeyOfItem
<1>14. /\ NewKey(jx, ix, P, k, Key(jx, D, 1))
       /\ \A q \in 1 .. n : q \notin {A, D, P} => jx.node[q] = ix.node[q]
       /\ \A q \in 1 .. n : Par(jx, q) = Par(ix, q) /\ SameChain(jx, ix, q)
       /\ jx.pins = ix.pins /\ jx.info = ix.info
  BY <1>8, <1>13 DEF Redistributed
<1>15. keep \in Nat \ {0} /\ keep < Num(ix, A) + Num(ix, D)
  BY <1>2
<1> QED
  BY <1>8, <1>10, <1>11, <1>12, <1>14, <1>15 DEF Rebordered

LEMMA BorrowRightIs ==
  ASSUME NEW n, NEW rk, NEW ix, Tree(ix, n, rk), NEW A, NEW D, NEW P, NEW k,
         Borrows(ix, n, rk, A, D, P, k), rk[A] = 0,
         NEW keep, keep = Num(ix, A) + 1, NEW jx, jx = BorrowRight(ix, A, D, P, k)
  PROVE  /\ Tree(jx, n, rk) /\ Rebordered(jx, ix, n, P, k, A, D, keep)
         /\ jx.pins = ix.pins /\ jx.info = ix.info
<1> DEFINE give == ix.node[D].entries
           have == ix.node[A].entries
           e == Head(give)
           t == Tail(give)
           s == Append(have, e)
           key == Head(t).key
<1>1. /\ A \in 1 .. n /\ D \in 1 .. n /\ P \in 1 .. n /\ D # A /\ P # D /\ P # A /\ rk[P] # 0
      /\ k \in 1 .. Num(ix, P) /\ rk[D] = 0
  BY DEF Borrows
<1>2. /\ give \in Lists(Records) /\ have \in Lists(Records) /\ Len(have) = Num(ix, A)
      /\ Len(have) < MinKeys /\ Len(give) = Num(ix, D) /\ Len(give) # 0
      /\ Num(ix, A) \in Nat /\ Num(ix, D) \in Nat /\ Num(ix, D) >= 2
  BY SMTT(40), <1>1, BorrowsNumbers DEF Ents
<1>3. t # <<>> => jx = Redistribute(ix, A, s, D, t, P, k, key)
  BY ZenonT(30) DEF BorrowRight, Redistribute, WithKey, WithEntries
<1>4. e = Head(give) /\ t = Tail(give) /\ s = Append(have, e) /\ key = Head(t).key
      /\ give = ix.node[D].entries /\ have = ix.node[A].entries
  OBVIOUS
<1> HIDE DEF give, have, e, t, s, key
<1>5. /\ e \in Records /\ t \in Lists(Records) /\ e = give[1] /\ Len(t) = Len(give) - 1
      /\ \A i \in 1 .. Len(give) - 1 : t[i] = give[i + 1]
  <2>1. IsHead(give, e, t) /\ give \in Lists(Records) /\ Len(give) # 0
    BY <1>2, <1>4 DEF IsHead
  <2>2. GivesHead(Records, give, e, t)
    BY <2>1, HeadTailItems
  <2> QED
    BY <2>2 DEF GivesHead
<1>6. /\ s \in Lists(Records) /\ Len(s) = Len(have) + 1 /\ s[Len(have) + 1] = e
      /\ \A i \in 1 .. Len(have) : s[i] = have[i]
  <2>1. have \in Lists(Records) /\ Len(have) < MinKeys /\ e \in Records /\ s = Append(have, e)
    BY <1>2, <1>4, <1>5
  <2>2. GetsLast(Records, have, e, s)
    BY <2>1, LastItems
  <2> QED
    BY <2>2 DEF GetsLast
<1>7. t # <<>> /\ key \in Keys /\ key = t[1].key
  <2>1. Len(t) # 0 /\ t # <<>>
    BY <1>2, <1>5
  <2>2. Head(t) \in Records /\ Head(t) = t[1]
    <3> DEFINE h == Head(t)
               u == Tail(t)
    <3>1. t \in Lists(Records) /\ Len(t) # 0 /\ IsHead(t, h, u) /\ h = Head(t)
      BY <1>5, <2>1 DEF IsHead
    <3> HIDE DEF h, u
    <3>2. GivesHead(Records, t, h, u)
      BY <3>1, HeadTailItems
    <3> QED
      BY <3>1, <3>2 DEF GivesHead
  <2> QED
    BY <1>4, <2>1, <2>2 DEF Keys
<1>8. Tree(jx, n, rk) /\ Redistributed(jx, ix, n, A, s, D, t, P, k, key)
  <2>1. s \in Lists(Ents(n, rk, rk[A])) /\ t \in Lists(Ents(n, rk, rk[D]))
    BY <1>1, <1>5, <1>6 DEF Ents
  <2>2. jx = Redistribute(ix, A, s, D, t, P, k, key) /\ key \in Keys
    BY SMTT(40), <1>3, <1>7
  <2> QED
    BY <1>1, <2>1, <2>2, Redistributes
<1>9. /\ \A i : Item(jx, A, i) = s[i] /\ Item(jx, D, i) = t[i]
      /\ \A i : Item(ix, A, i) = have[i] /\ Item(ix, D, i) = give[i]
      /\ Num(jx, A) = Len(s) /\ Num(jx, D) = Len(t)
  BY <1>4, <1>8 DEF Redistributed, Item, Num
<1>10. Num(jx, A) = keep /\ Num(jx, D) = Num(ix, A) + Num(ix, D) - keep
  BY <1>2, <1>5, <1>6, <1>9
<1>11. ASSUME NEW i \in 1 .. keep PROVE Item(jx, A, i) = Both(ix, A, D, i)
  <2>1. CASE i = keep
    <3>1. ~(i <= Num(ix, A)) /\ i - Num(ix, A) = 1 /\ i = Len(have) + 1
      BY <1>2, <2>1
    <3>2. Both(ix, A, D, i) = give[1]
      BY <1>9, <3>1 DEF Both
    <3>3. s[i] = e
      BY <1>6, <3>1
    <3> QED
      BY <1>5, <1>9, <3>2, <3>3
  <2>2. CASE i # keep
    <3>1. i \in 1 .. Len(have) /\ i <= Num(ix, A)
      BY <1>2, <2>2
    <3> QED
      BY <1>6, <1>9, <3>1 DEF Both
  <2> QED
    BY <2>1, <2>2
<1>12. ASSUME NEW i \in 1 .. Num(ix, A) + Num(ix, D) - keep
       PROVE  Item(jx, D, i) = Both(ix, A, D, keep + i)
  <2>1. ~(keep + i <= Num(ix, A)) /\ (keep + i) - Num(ix, A) = i + 1 /\ i \in 1 .. Len(give) - 1
    BY <1>2
  <2>2. Both(ix, A, D, keep + i) = give[i + 1]
    BY <1>9, <2>1 DEF Both
  <2> QED
    BY <1>5, <1>9, <2>1, <2>2
<1>13. Key(jx, D, 1) = key
  BY <1>7, <1>9, KeyOfItem
<1>14. /\ NewKey(jx, ix, P, k, Key(jx, D, 1))
       /\ \A q \in 1 .. n : q \notin {A, D, P} => jx.node[q] = ix.node[q]
       /\ \A q \in 1 .. n : Par(jx, q) = Par(ix, q) /\ SameChain(jx, ix, q)
       /\ jx.pins = ix.pins /\ jx.info = ix.info
  BY <1>8, <1>13 DEF Redistributed
<1>15. keep \in Nat \ {0} /\ keep < Num(ix, A) + Num(ix, D)
  BY <1>2
<1> QED
  BY <1>8, <1>10, <1>11, <1>12, <1>14, <1>15 DEF Rebordered

-----------------------------------------------------------------------------
\* Leaf A has the entries of D, too, and its parent P loses D.
LeavesMerged(jx, ix, n, P, k, A, D) ==
    /\ Num(jx, A) = Num(ix, A) + Num(ix, D)
    /\ \A i \in 1 .. Num(ix, A) + Num(ix, D) : Item(jx, A, i) = Both(ix, A, D, i)
    /\ LosesKey(jx, ix, P, k)
    /\ \A q \in 1 .. n : q \notin {A, P} =>
          jx.node[q].entries = ix.node[q].entries /\ jx.node[q].leftMost = ix.node[q].leftMost
    /\ \A q \in 1 .. n : Par(jx, q) = Par(ix, q)
    /\ jx.node[A].next = ix.node[D].next
    /\ \A q \in 1 .. n : q # A => jx.node[q].next = ix.node[q].next
    /\ \A q \in 1 .. n : jx.node[q].prev = IF q = ix.node[D].next THEN A ELSE ix.node[q].prev

LEMMA MergeItems ==
  ASSUME NEW ix, NEW jx, NEW rk, NEW T, NEW A \in T, NEW D \in T, A # D, rk[A] = 0, rk[D] = 0,
         Num(ix, A) \in Nat, Num(ix, D) \in Nat, Num(jx, A) = Num(ix, A) + Num(ix, D),
         \A i \in 1 .. Num(ix, A) + Num(ix, D) : Item(jx, A, i) = Both(ix, A, D, i),
         \A p \in T : rk[p] = 0 /\ p # A /\ p # D => jx.node[p].entries = ix.node[p].entries,
         NEW V, V = T \ {D}
  PROVE  Items(jx, rk, V) = Items(ix, rk, T)
<1> DEFINE Has(x, p, e) == \E i \in 1 .. Num(x, p) : Item(x, p, i) = e
<1>1. ASSUME NEW e
      PROVE  Has(jx, A, e) <=> \E j \in 1 .. Num(ix, A) + Num(ix, D) : Both(ix, A, D, j) = e
  OBVIOUS
<1>2. ASSUME NEW e PROVE Has(jx, A, e) <=> Has(ix, A, e) \/ Has(ix, D, e)
  <2>1. (\E j \in 1 .. Num(ix, A) + Num(ix, D) : Both(ix, A, D, j) = e) <=>
             (\E i \in 1 .. Num(ix, A) : Item(ix, A, i) = e) \/ (\E i \in 1 .. Num(ix, D) : Item(ix, D, i) = e)
    BY BothItem
  <2> QED
    BY <1>1, <2>1
<1>3. \A p \in T : rk[p] = 0 /\ p # A /\ p # D => \A e : Has(jx, p, e) <=> Has(ix, p, e)
  BY DEF Num, Item
<1>4. /\ \A e : e \in Items(jx, rk, V) <=> e \in Records /\ \E p \in V : rk[p] = 0 /\ Has(jx, p, e)
      /\ \A e : e \in Items(ix, rk, T) <=> e \in Records /\ \E p \in T : rk[p] = 0 /\ Has(ix, p, e)
  BY DEF Items
<1> HIDE DEF Has
<1>5. ASSUME NEW e PROVE e \in Items(jx, rk, V) <=> e \in Items(ix, rk, T)
  <2>1. ASSUME NEW p \in V, rk[p] = 0, Has(jx, p, e) PROVE \E q \in T : rk[q] = 0 /\ Has(ix, q, e)
    BY <1>2, <1>3, <2>1
  <2>2. ASSUME NEW p \in T, rk[p] = 0, Has(ix, p, e) PROVE \E q \in V : rk[q] = 0 /\ Has(jx, q, e)
    <3>1. A \in V /\ (p # D => p \in V)
      OBVIOUS
    <3>2. CASE p \in {A, D}
      BY <1>2, <2>2, <3>1, <3>2
    <3>3. CASE p \notin {A, D}
      BY <1>3, <2>2, <3>1, <3>3
    <3> QED
      BY <3>2, <3>3
  <2> QED
    BY <1>4, <2>1, <2>2
<1> QED
  BY <1>5

LEMMA MergeKeys ==
  ASSUME NEW ix, NEW jx, NEW rk, NEW T, NEW R, NEW A \in T, NEW D \in T, A # D, rk[A] = 0, rk[D] = 0,
         Num(ix, A) \in Nat, Num(ix, D) \in Nat, Num(jx, A) = Num(ix, A) + Num(ix, D),
         \A i \in 1 .. Num(ix, A) + Num(ix, D) : Item(jx, A, i) = Both(ix, A, D, i),
         NEW U, U = R[A] \union R[D], InARow(ix, A, D, U, Num(ix, A) + Num(ix, D)),
         NEW R1, R1 = Merged(R, T, A, D)
  PROVE  NodeKeyed(jx, rk, R1, A)
<1>1. R1[A] = U
  BY DEF Merged
<1>2. \A i \in 1 .. Num(jx, A) : Key(jx, A, i) = Both(ix, A, D, i).key
  BY KeyOfItem
<1>3. /\ \A i \in 1 .. Num(jx, A) : Both(ix, A, D, i).key \in U
      /\ \A i, j \in 1 .. Num(jx, A) : i < j => Both(ix, A, D, i).key < Both(ix, A, D, j).key
  BY DEF InARow
<1>4. Sorted(jx, A)
  BY <1>2, <1>3 DEF Sorted
<1> QED
  BY <1>1, <1>2, <1>3, <1>4 DEF NodeKeyed

\* Two leaves become one.
LEMMA LeafMergeGood ==
  ASSUME NEW ix, NEW n, NEW rk, NEW T, NEW root, NEW thin, NEW whole, NEW s,
         Good(ix, n, rk, T, root, thin, whole, s), NEW jx, Tree(jx, n, rk),
         NEW P, NEW k, NEW A, NEW D, Pair(ix, rk, T, P, k, A, D), rk[A] = 0, thin \in {A, D},
         LeavesMerged(jx, ix, n, P, k, A, D), NEW V, V = T \ {D}
  PROVE  Good(jx, n, rk, V, root, P, whole, s)
<1>1. /\ Tree(ix, n, rk) /\ T \subseteq 1 .. n /\ Family(ix, rk, T, root, NoPage)
      /\ Par(ix, root) = NoPage /\ root \in T /\ NoPage \notin T /\ n \in Nat
      /\ Items(ix, rk, T) = s
      /\ \A p \in T : p \in 1 .. n /\ Num(ix, p) \in Nat /\ rk[p] \in Nat /\ rk[p] <= rk[root]
  BY DEF Good, Shape, Family, Tree
<1>2. A \in T /\ D \in T /\ A # D /\ A # root /\ D # root /\ A # P /\ D # P
      /\ rk[D] = 0 /\ rk[P] # 0 /\ P \in T /\ k \in 1 .. Num(ix, P) /\ D = Kid(ix, P, k)
      /\ rk[Kid(ix, P, k)] = 0
  <2>1. A \in T /\ D \in T /\ A # D /\ A # root /\ D # root /\ A # P /\ D # P /\ rk[A] = rk[D]
    BY <1>1, PairPages
  <2> QED
    BY <2>1 DEF Pair
<1>3. /\ Num(jx, A) = Num(ix, A) + Num(ix, D)
      /\ \A i \in 1 .. Num(ix, A) + Num(ix, D) : Item(jx, A, i) = Both(ix, A, D, i)
      /\ LosesKey(jx, ix, P, k)
      /\ \A q \in 1 .. n : q \notin {A, P} =>
            jx.node[q].entries = ix.node[q].entries /\ jx.node[q].leftMost = ix.node[q].leftMost
      /\ \A q \in 1 .. n : Par(jx, q) = Par(ix, q)
  BY DEF LeavesMerged
<1>4. ASSUME NEW p \in T, p \notin {A, P}
      PROVE  SameKeys(jx, ix, p) /\ SameKids(jx, ix, p) /\ Num(jx, p) = Num(ix, p)
  <2>1. jx.node[p].entries = ix.node[p].entries /\ jx.node[p].leftMost = ix.node[p].leftMost
    BY <1>1, <1>3, <1>4
  <2> QED
    BY <2>1 DEF SameKeys, SameKids, Num, Kid, Key, ChildAt
<1>5. LosesKid(jx, ix, P, k) /\ Num(jx, P) = Num(ix, P) - 1 /\ Num(jx, P) \in Nat
  <2>1. LosesKid(jx, ix, P, k)
    BY <1>3 DEF LosesKey
  <2>2. Num(jx, P) = Num(ix, P) - 1
    BY <2>1 DEF LosesKid
  <2> QED
    BY <1>1, <1>2, <2>1, <2>2
<1>6. \A p \in T : Num(jx, p) \in Nat /\ Par(jx, p) = Par(ix, p)
  <2>1. Num(jx, A) \in Nat
    BY <1>1, <1>2, <1>3
  <2> QED
    BY <1>1, <1>3, <1>4, <1>5, <2>1
<1>7. Shape(jx, n, rk, V, root, NoPage)
  <2>1. \A p \in T : rk[p] # 0 /\ p # P => SameKids(jx, ix, p)
    BY <1>2, <1>4
  <2>2. Family(jx, rk, V, root, NoPage)
    BY <1>1, <1>2, <1>5, <1>6, <2>1, CutFamily
  <2> QED
    BY <1>1, <1>6, <2>2 DEF Shape
<1>8. MaxKeys >= 2 => Filled(jx, rk, V, root, P)
  <2>1. ASSUME MaxKeys >= 2, NEW p \in V
        PROVE  Num(jx, p) + (IF p = P THEN 1 ELSE 0) >= Need(rk, root, p)
    <3>1. \A q \in T : Num(ix, q) + (IF q = thin THEN 1 ELSE 0) >= Need(rk, root, q)
      BY <2>1 DEF Good, Filled
    <3>2. Need(rk, root, p) \in Nat /\ p \in T /\ p # D
      BY <2>1, MinKeysFits DEF Need, AtLeast
    <3>3. CASE p = A
      <4>1. Need(rk, root, A) = AtLeast(0) /\ Need(rk, root, D) = AtLeast(0)
        BY <1>2 DEF Need
      <4>2. AtLeast(0) \in Nat /\ (AtLeast(0) = 0 \/ AtLeast(0) >= 1)
        BY MinKeysFits DEF AtLeast
      <4>3. Num(ix, A) + (IF A = thin THEN 1 ELSE 0) >= AtLeast(0)
            /\ Num(ix, D) + (IF D = thin THEN 1 ELSE 0) >= AtLeast(0)
        BY <1>2, <3>1, <4>1
      <4>4. Num(ix, A) \in Nat /\ Num(ix, D) \in Nat
        BY <1>1, <1>2
      <4>5. Num(ix, A) + Num(ix, D) >= AtLeast(0)
        BY <1>2, <4>2, <4>3, <4>4
      <4>6. (IF p = P THEN 1 ELSE 0) = 0
        BY <1>2, <3>3
      <4> QED
        BY <1>3, <3>3, <4>1, <4>4, <4>5, <4>6
    <3>4. CASE p = P
      <4>1. Num(ix, P) + 0 >= Need(rk, root, P) /\ Num(ix, P) \in Nat
        <5>1. (IF P = thin THEN 1 ELSE 0) = 0
          BY <1>2
        <5> QED
          BY <1>1, <1>2, <3>1, <5>1
      <4>2. Num(jx, P) + (IF P = P THEN 1 ELSE 0) = Num(ix, P) + 0
        BY <1>5, <4>1
      <4> QED
        BY <3>4, <4>1, <4>2
    <3>5. CASE p \notin {A, P}
      <4>1. (IF p = thin THEN 1 ELSE 0) = 0 /\ (IF p = P THEN 1 ELSE 0) = 0
        BY <3>2, <3>5
      <4>2. Num(jx, p) = Num(ix, p)
        BY <1>4, <3>2, <3>5
      <4> QED
        BY <3>1, <3>2, <4>1, <4>2
    <3> QED
      BY <3>3, <3>4, <3>5
  <2> QED
    BY <2>1 DEF Filled
<1>9. ASSUME Unique PROVE \E R : KeyedAs(jx, rk, V, root, R) /\ (whole => Chained(jx, rk, V, R))
  <2>1. PICK R : KeyedAs(ix, rk, T, root, R) /\ (whole => Chained(ix, rk, T, R))
    BY <1>9 DEF Good
  <2> DEFINE U == R[A] \union R[D]
             R1 == Merged(R, T, A, D)
  <2>2. SideBySide(ix, R, P, k, A, D)
    BY <1>1, <2>1, PairKeys
  <2>3. /\ \A p \in T : R[p] \subseteq Int
        /\ \A p \in T : \A i \in 1 .. Num(ix, p) : Key(ix, p, i) \in R[p]
        /\ \A p \in T : Sorted(ix, p)
    BY <1>1, <2>1, KeyedPlain
  <2>4. U \subseteq Int /\ U = R[A] \union R[D]
    BY <1>2, <2>3
  <2>5. R1 = Merged(R, T, A, D)
    OBVIOUS
  <2> HIDE DEF U, R1
  <2>6. InARow(ix, A, D, U, Num(ix, A) + Num(ix, D))
    BY <1>1, <1>2, <2>2, <2>3, <2>4, BothInARow
  <2>7. Num(ix, A) \in Nat /\ Num(ix, D) \in Nat /\ A \in T /\ D \in T /\ A # D /\ rk[D] = 0
    BY <1>1, <1>2
  <2>8. NodeKeyed(jx, rk, R1, A)
    BY <1>3, <2>4, <2>5, <2>6, <2>7, MergeKeys
  <2>9. KeyedAs(jx, rk, V, root, R1)
    <3>1. \A p \in T : p \notin {A, D, P} => SameKeys(jx, ix, p) /\ SameKids(jx, ix, p)
      BY <1>4
    <3> QED
      BY <1>1, <1>3, <2>1, <2>5, <2>8, <3>1, KeyedMerge
  <2>10. ASSUME whole PROVE Chained(jx, rk, V, R1)
    <3>1. Chained(ix, rk, T, R)
      BY <2>1, <2>10
    <3>2. Around(ix, rk, T, R, A, D, U)
      BY <1>1, <2>1, <2>4, <3>1, LeavesAround
    <3>3. /\ jx.node[A].next = ix.node[D].next
          /\ \A q \in V : q # A => jx.node[q].next = ix.node[q].next
          /\ \A q \in V : q # A => jx.node[q].prev = IF q = ix.node[D].next THEN A ELSE ix.node[q].prev
      BY <1>1 DEF LeavesMerged
    <3>4. jx.node[A].prev = ix.node[A].prev
      <4>1. jx.node[A].prev = IF A = ix.node[D].next THEN A ELSE ix.node[A].prev
        BY <1>1, <1>2 DEF LeavesMerged
      <4>2. ix.node[D].next # A
        <5>1. ix.node[D].next = NoPage => ix.node[D].next # A
          BY <1>1, <1>2
        <5> QED
          BY <3>2, <5>1 DEF Around
      <4> QED
        BY <4>1, <4>2
    <3>5. /\ \A q \in V : rk[q] = 0 /\ q # A => jx.node[q].next = ix.node[q].next
          /\ \A q \in V : rk[q] = 0 /\ q # A => jx.node[q].prev =
                IF q = ix.node[D].next THEN A ELSE ix.node[q].prev
          /\ jx.node[A].next = ix.node[D].next
      BY <3>3
    <3>6. NoPage \notin T /\ U = R[A] \union R[D]
      BY <1>1, <2>4
    <3> QED
      BY <2>5, <2>7, <3>1, <3>2, <3>4, <3>5, <3>6, ChainedMerge
  <2> QED
    BY <2>9, <2>10
<1>10. Items(jx, rk, V) = s
  <2>1. Num(ix, A) \in Nat /\ Num(ix, D) \in Nat /\ A \in T /\ D \in T /\ A # D /\ rk[D] = 0
    BY <1>1, <1>2
  <2>2. \A p \in T : rk[p] = 0 /\ p # A /\ p # D => jx.node[p].entries = ix.node[p].entries
    BY <1>1, <1>2, <1>3
  <2>3. Items(jx, rk, V) = Items(ix, rk, T)
    BY <1>3, <2>1, <2>2, MergeItems
  <2> QED
    BY <1>1, <2>3
<1> QED
  BY <1>7, <1>8, <1>9, <1>10 DEF Good

-----------------------------------------------------------------------------
\* What is pinned, or released, has the same nodes.
SameNodes(jx, ix) == jx.node = ix.node /\ jx.info = ix.info

LEMMA SameNodesField ==
  ASSUME NEW ix, NEW jx, SameNodes(jx, ix)
  PROVE  \A q : SameNodeOf(jx, ix, q) /\ jx.node[q] = ix.node[q]
BY SameNode DEF SameNodes

LEMMA PinSame ==
  ASSUME NEW n, NEW rk, NEW ix, Tree(ix, n, rk), NEW p \in 1 .. n
  PROVE  Tree(Pin(ix, p), n, rk) /\ SameNodes(Pin(ix, p), ix)
<1>1. Tree(Pin(ix, p), n, rk)
  BY PinTree
<1>2. Pin(ix, p).node = ix.node /\ Pin(ix, p).info = ix.info
  BY DEF Pin, Tree
<1> QED
  BY <1>1, <1>2 DEF SameNodes

LEMMA ReleaseSame ==
  ASSUME NEW n, NEW rk, NEW ix, Tree(ix, n, rk), NEW p \in 0 .. n
  PROVE  Tree(Release(ix, p), n, rk) /\ SameNodes(Release(ix, p), ix)
<1>1. Tree(Release(ix, p), n, rk)
  BY ReleaseTree
<1>2. Release(ix, p).node = ix.node /\ Release(ix, p).info = ix.info
  BY DEF Release, Tree
<1> QED
  BY <1>1, <1>2 DEF SameNodes

\* Leaf A has the entries of D, too, and its place in the chain.
Absorbed(jx, ix, n, A, D) ==
    /\ Num(jx, A) = Num(ix, A) + Num(ix, D)
    /\ \A i \in 1 .. Num(ix, A) + Num(ix, D) : Item(jx, A, i) = Both(ix, A, D, i)
    /\ \A q \in 1 .. n : q # A => jx.node[q].entries = ix.node[q].entries
    /\ \A q \in 1 .. n : jx.node[q].leftMost = ix.node[q].leftMost /\ Par(jx, q) = Par(ix, q)
    /\ jx.node[A].next = ix.node[D].next
    /\ \A q \in 1 .. n : q # A => jx.node[q].next = ix.node[q].next
    /\ \A q \in 1 .. n : jx.node[q].prev = IF q = ix.node[D].next THEN A ELSE ix.node[q].prev
    /\ jx.pins = ix.pins /\ jx.info = ix.info

\* The items of two sequences in a row.
OneRow(jx, ix, A, D) == jx.node[A].entries = ix.node[A].entries \o ix.node[D].entries
IsBoth(jx, ix, A, D) ==
    /\ Num(jx, A) = Num(ix, A) + Num(ix, D)
    /\ \A i \in 1 .. Num(ix, A) + Num(ix, D) : Item(jx, A, i) = Both(ix, A, D, i)
LEMMA RowItems ==
  ASSUME NEW S, NEW ix, NEW jx, NEW A, NEW D, ix.node[A].entries \in Seq(S),
         ix.node[D].entries \in Seq(S), OneRow(jx, ix, A, D)
  PROVE  IsBoth(jx, ix, A, D)
<1> DEFINE s == ix.node[A].entries
           t == ix.node[D].entries
           u == s \o t
<1>1. s \in Seq(S) /\ t \in Seq(S) /\ Len(s) \in Nat /\ Len(t) \in Nat
  OBVIOUS
<1>2. /\ Num(ix, A) = Len(s) /\ Num(ix, D) = Len(t) /\ Num(jx, A) = Len(u)
      /\ \A i : Item(ix, A, i) = s[i] /\ Item(ix, D, i) = t[i] /\ Item(jx, A, i) = u[i]
  BY DEF Num, Item, OneRow
<1>3. u = s \o t
  OBVIOUS
<1> HIDE DEF s, t, u
<1>4. /\ Len(u) = Len(s) + Len(t)
      /\ \A j \in 1 .. Len(s) : u[j] = s[j]
      /\ \A j \in Len(s) + 1 .. Len(s) + Len(t) : u[j] = t[j - Len(s)]
  BY <1>1, <1>3, ConcatItems
<1>5. ASSUME NEW i \in 1 .. Len(s) + Len(t) PROVE Item(jx, A, i) = Both(ix, A, D, i)
  <2>1. CASE i <= Len(s)
    BY <1>2, <1>4, <2>1 DEF Both
  <2>2. CASE ~(i <= Len(s))
    <3>1. i \in Len(s) + 1 .. Len(s) + Len(t)
      BY <1>1, <2>2
    <3>2. u[i] = t[i - Len(s)]
      BY <1>4, <3>1
    <3>3. Both(ix, A, D, i) = Item(ix, D, i - Len(s))
      BY <1>2, <2>2 DEF Both
    <3> QED
      BY <1>2, <3>2, <3>3
  <2> QED
    BY <2>1, <2>2
<1> QED
  BY <1>2, <1>4, <1>5 DEF IsBoth

\* A page's children are its left-most one and those of its entries.
KidsAre(ix, p) ==
    /\ Num(ix, p) \in Nat /\ Kid(ix, p, 0) = ix.node[p].leftMost
    /\ \A j \in 1 .. Num(ix, p) : Kid(ix, p, j) = Item(ix, p, j).child
LEMMA KidItems ==
  ASSUME NEW n, NEW rk, NEW ix, Tree(ix, n, rk), NEW p \in 1 .. n
  PROVE  KidsAre(ix, p)
BY KidsOfPage DEF KidsAre, Item

LEMMA AbsorbIs ==
  ASSUME NEW n, NEW rk, NEW ix, Tree(ix, n, rk), NEW A \in 1 .. n, NEW D \in 1 .. n, A # D,
         rk[A] = 0, rk[D] = 0, Num(ix, A) + Num(ix, D) <= 2 * MinKeys,
         NEW jx, jx = Absorb(ix, A, D)
  PROVE  Tree(jx, n, rk) /\ Absorbed(jx, ix, n, A, D)
<1> DEFINE s == ix.node[A].entries \o ix.node[D].entries
           next == ix.node[D].next
           a == WithEntries(ix, A, s)
           b == WithNext(a, A, next)
           c == WithPrev(b, next, A)
<1>1. s \in Lists(Ents(n, rk, rk[A])) /\ ix.node[A].entries \in Seq(Records)
      /\ ix.node[D].entries \in Seq(Records)
  <2>1. ix.node[A].entries \in Seq(Records) /\ ix.node[D].entries \in Seq(Records)
    BY PageFields DEF Ents
  <2> QED
    BY <2>1, Together DEF Ents, Num
<1>2. next \in 0 .. n /\ n \in Nat
  BY PageFields
<1>3. Tree(a, n, rk) /\ EntriesSet(a, ix, n, A, s)
  <2> HIDE DEF s
  <2> QED
    BY <1>1, EntriesField
<1>4. Tree(b, n, rk) /\ NextSet(b, a, n, A, next)
  <2> HIDE DEF a, next
  <2> QED
    BY <1>2, <1>3, NextField
<1>5. next # NoPage => Tree(c, n, rk) /\ PrevSet(c, b, n, next, A) /\ next \in 1 .. n
  <2> HIDE DEF b, next
  <2>1. next # NoPage => next \in 1 .. n
    BY <1>2 DEF NoPage
  <2>2. A \in 0 .. n
    OBVIOUS
  <2> QED
    BY <1>4, <2>1, <2>2, PrevField
<1>6. jx = IF next = NoPage THEN b ELSE c
  BY DEF Absorb, WithEntries, WithNext, WithPrev
<1>7. s = ix.node[A].entries \o ix.node[D].entries /\ next = ix.node[D].next
  OBVIOUS
<1> HIDE DEF a, b, c, next, s
<1>8. /\ b.node[A].entries = s /\ b.node[A].next = next
      /\ \A q \in 1 .. n : q # A => b.node[q] = ix.node[q]
      /\ b.node[A].leftMost = ix.node[A].leftMost /\ b.node[A].parent = ix.node[A].parent
      /\ b.node[A].prev = ix.node[A].prev
      /\ b.pins = ix.pins /\ b.info = ix.info
  BY <1>3, <1>4 DEF EntriesSet, NextSet, Only
<1>9. /\ \A q \in 1 .. n : /\ jx.node[q].entries = b.node[q].entries
                           /\ jx.node[q].next = b.node[q].next
                           /\ jx.node[q].leftMost = b.node[q].leftMost
                           /\ jx.node[q].parent = b.node[q].parent
                           /\ jx.node[q].prev = IF q = next THEN A ELSE b.node[q].prev
      /\ jx.pins = b.pins /\ jx.info = b.info /\ Tree(jx, n, rk)
  <2>1. CASE next = NoPage
    <3>1. \A q \in 1 .. n : q # next
      BY <2>1 DEF NoPage
    <3> QED
      BY <1>4, <1>6, <2>1, <3>1
  <2>2. CASE next # NoPage
    <3>1. jx = c /\ Tree(c, n, rk) /\ PrevSet(c, b, n, next, A)
      BY SMTT(40), <1>5, <1>6, <2>2
    <3> QED
      BY <3>1 DEF PrevSet, Only
  <2> QED
    BY <2>1, <2>2
<1>10. OneRow(jx, ix, A, D)
  BY <1>7, <1>8, <1>9 DEF OneRow
<1>11. /\ Num(jx, A) = Num(ix, A) + Num(ix, D)
       /\ \A i \in 1 .. Num(ix, A) + Num(ix, D) : Item(jx, A, i) = Both(ix, A, D, i)
  <2>1. ix.node[A].entries \in Seq(Records) /\ ix.node[D].entries \in Seq(Records)
    BY <1>1
  <2>2. IsBoth(jx, ix, A, D)
    BY <1>10, <2>1, RowItems
  <2> QED
    BY <2>2 DEF IsBoth
<1>12. /\ \A q \in 1 .. n : q # A => jx.node[q].entries = ix.node[q].entries
       /\ \A q \in 1 .. n : jx.node[q].leftMost = ix.node[q].leftMost /\ Par(jx, q) = Par(ix, q)
       /\ jx.node[A].next = ix.node[D].next
       /\ \A q \in 1 .. n : q # A => jx.node[q].next = ix.node[q].next
       /\ \A q \in 1 .. n : jx.node[q].prev = IF q = ix.node[D].next THEN A ELSE ix.node[q].prev
       /\ jx.pins = ix.pins /\ jx.info = ix.info
  BY <1>7, <1>8, <1>9 DEF Par
<1> QED
  BY <1>9, <1>11, <1>12 DEF Absorbed

\* Then the parent of the two, pinned, loses D.
LEMMA AbsorbCutIs ==
  ASSUME NEW n, NEW rk, NEW ix, Tree(ix, n, rk), NEW A \in 1 .. n, NEW D \in 1 .. n, A # D,
         rk[A] = 0, rk[D] = 0, Num(ix, A) + Num(ix, D) <= 2 * MinKeys,
         NEW P \in 1 .. n, rk[P] # 0, NEW k \in 1 .. Num(ix, P),
         NEW hx, hx = Pin(Absorb(ix, A, D), P), NEW jx, jx = CutAt(hx, P, k)
  PROVE  /\ Tree(hx, n, rk) /\ k \in 1 .. Num(hx, P) /\ Par(hx, P) = Par(ix, P)
         /\ Tree(jx, n, rk) /\ LeavesMerged(jx, ix, n, P, k, A, D)
         /\ hx.pins = Pin(ix, P).pins /\ hx.info = ix.info
<1> DEFINE ax == Absorb(ix, A, D)
<1>1. ax = Absorb(ix, A, D) /\ hx = Pin(ax, P) /\ A # P /\ D # P
  OBVIOUS
<1> HIDE DEF ax
<1>2. Tree(ax, n, rk) /\ Absorbed(ax, ix, n, A, D)
  BY <1>1, AbsorbIs
<1>3. Tree(hx, n, rk) /\ SameNodes(hx, ax)
  BY <1>1, <1>2, PinSame
<1>4. hx.node = ax.node /\ hx.info = ix.info /\ hx.pins = Pin(ix, P).pins
  BY <1>1, <1>2, <1>3 DEF SameNodes, Absorbed, Pin, Tree
<1>5. ax.node[P].entries = ix.node[P].entries
  BY <1>1, <1>2 DEF Absorbed
<1>6. k \in 1 .. Num(hx, P) /\ Par(hx, P) = Par(ix, P)
  BY <1>2, <1>4, <1>5 DEF Num, Par, Absorbed
<1>7. Tree(jx, n, rk) /\ Removed(jx, hx, n, P, k)
  BY <1>3, <1>6, CutEffect
<1>8. \A q \in 1 .. n : q # P => jx.node[q] = ax.node[q]
  BY <1>4, <1>7 DEF Removed, Only
<1>9. LosesKey(jx, ix, P, k)
  <2>1. /\ Num(jx, P) = Num(ix, P) - 1 /\ Num(ix, P) \in Nat
        /\ \A i \in 1 .. Num(ix, P) - 1 : Item(jx, P, i) = Item(ix, P, IF i < k THEN i ELSE i + 1)
        /\ jx.node[P].leftMost = ix.node[P].leftMost
    <3>1. /\ Num(hx, P) = Num(ix, P) /\ \A i : Item(hx, P, i) = Item(ix, P, i)
          /\ hx.node[P].leftMost = ix.node[P].leftMost
      BY <1>2, <1>4, <1>5 DEF Num, Item, Absorbed
    <3>2. Num(ix, P) \in Nat
      BY KidsOfPage
    <3> QED
      BY <1>7, <3>1, <3>2 DEF Removed
  <2>2. \A i \in 1 .. Num(ix, P) - 1 : Key(jx, P, i) = Key(ix, P, IF i < k THEN i ELSE i + 1)
    BY <2>1, KeyOfItem
  <2>3. ASSUME NEW i \in 0 .. Num(ix, P) - 1
        PROVE  Kid(jx, P, i) = IF i < k THEN Kid(ix, P, i) ELSE Kid(ix, P, i + 1)
    <3>1. /\ Kid(ix, P, 0) = ix.node[P].leftMost
          /\ \A j \in 1 .. Num(ix, P) : Kid(ix, P, j) = Item(ix, P, j).child
      BY KidItems DEF KidsAre
    <3>2. /\ Kid(jx, P, 0) = jx.node[P].leftMost
          /\ \A j \in 1 .. Num(jx, P) : Kid(jx, P, j) = Item(jx, P, j).child
      <4>1. KidsAre(jx, P)
        BY <1>7, KidItems
      <4> QED
        BY <4>1 DEF KidsAre
    <3>3. CASE i = 0
      <4>1. i < k
        BY <3>3
      <4> QED
        BY <2>1, <3>1, <3>2, <3>3, <4>1
    <3>4. CASE i # 0
      <4>1. i \in 1 .. Num(ix, P) - 1 /\ (IF i < k THEN i ELSE i + 1) \in 1 .. Num(ix, P)
            /\ i \in 1 .. Num(ix, P) /\ i + 1 \in 1 .. Num(ix, P)
        BY <2>1, <3>4
      <4>2. Kid(jx, P, i) = Item(ix, P, IF i < k THEN i ELSE i + 1).child
        BY <2>1, <3>2, <4>1
      <4> QED
        BY <3>1, <4>1, <4>2
    <3> QED
      BY <3>3, <3>4
  <2> QED
    BY <2>1, <2>2, <2>3 DEF LosesKey, LosesKid
<1>10. /\ Num(jx, A) = Num(ix, A) + Num(ix, D)
       /\ \A i \in 1 .. Num(ix, A) + Num(ix, D) : Item(jx, A, i) = Both(ix, A, D, i)
       /\ \A q \in 1 .. n : q \notin {A, P} =>
             jx.node[q].entries = ix.node[q].entries /\ jx.node[q].leftMost = ix.node[q].leftMost
  <2>1. jx.node[A] = ax.node[A]
    BY <1>1, <1>8
  <2>2. Num(jx, A) = Num(ax, A) /\ \A i : Item(jx, A, i) = Item(ax, A, i)
    BY <2>1 DEF Num, Item
  <2> QED
    BY <1>2, <1>8, <2>2 DEF Absorbed
<1>11. \A q \in 1 .. n : Par(jx, q) = Par(ax, q) /\ SameChain(jx, ax, q)
  <2>1. Par(jx, P) = Par(hx, P) /\ SameChain(jx, hx, P)
    BY <1>7 DEF Removed
  <2>2. Par(jx, P) = Par(ax, P) /\ SameChain(jx, ax, P)
    BY <1>4, <2>1 DEF Par, SameChain
  <2> QED
    BY <1>8, <2>2 DEF Par, SameChain
<1>12. /\ \A q \in 1 .. n : Par(jx, q) = Par(ix, q)
       /\ jx.node[A].next = ix.node[D].next
       /\ \A q \in 1 .. n : q # A => jx.node[q].next = ix.node[q].next
       /\ \A q \in 1 .. n : jx.node[q].prev = IF q = ix.node[D].next THEN A ELSE ix.node[q].prev
  BY <1>2, <1>11 DEF Absorbed, SameChain
<1>13. LeavesMerged(jx, ix, n, P, k, A, D)
  BY <1>9, <1>10, <1>12 DEF LeavesMerged
<1> QED
  BY <1>3, <1>4, <1>6, <1>7, <1>13

-----------------------------------------------------------------------------
\* The children and keys of two neighbouring nodes in one row, with the key between the nodes.
RowKid(ix, A, D, i) == IF i <= Num(ix, A) THEN Kid(ix, A, i) ELSE Kid(ix, D, i - Num(ix, A) - 1)
RowKey(ix, A, sep, D, i) ==
    IF i <= Num(ix, A) THEN Key(ix, A, i)
    ELSE IF i = Num(ix, A) + 1 THEN sep ELSE Key(ix, D, i - Num(ix, A) - 1)
RowLast(ix, A, D) == Num(ix, A) + Num(ix, D) + 1

InRow(ix, R, A, sep, D, U, last, i, x) ==
    /\ x \in U
    /\ i # 0 => RowKey(ix, A, sep, D, i) <= x
    /\ i # last => x < RowKey(ix, A, sep, D, i + 1)
RowKeyed(ix, R, A, sep, D, U, last) ==
    /\ \A i \in 1 .. last : RowKey(ix, A, sep, D, i) \in U
    /\ \A i, j \in 1 .. last : i < j => RowKey(ix, A, sep, D, i) < RowKey(ix, A, sep, D, j)
    /\ \A i \in 0 .. last : \A x \in Int :
          x \in R[RowKid(ix, A, D, i)] <=> InRow(ix, R, A, sep, D, U, last, i, x)

LEMMA RowIsKeyed ==
  ASSUME NEW ix, NEW rk, NEW R, NEW P, NEW k, NEW A, NEW D, SideBySide(ix, R, P, k, A, D),
         Num(ix, A) \in Nat, Num(ix, D) \in Nat, rk[A] # 0, rk[D] # 0,
         NodeKeyed(ix, rk, R, A), NodeKeyed(ix, rk, R, D), R[Kid(ix, D, 0)] # {}, R[Kid(ix, D, 0)] \subseteq Int,
         NEW sep, sep = Key(ix, P, k),
         NEW U, U = R[A] \union R[D], NEW last, last = RowLast(ix, A, D)
  PROVE  RowKeyed(ix, R, A, sep, D, U, last)
<1> DEFINE a == Num(ix, A)
           d == Num(ix, D)
           rkey(i) == RowKey(ix, A, sep, D, i)
           rkid(i) == RowKid(ix, A, D, i)
<1>1. /\ a \in Nat /\ d \in Nat /\ last = a + d + 1 /\ last \in Nat
  BY DEF RowLast
<1>2. /\ sep \in R[D] /\ sep \in Int
      /\ \A x \in R[A] : x < sep
      /\ \A x \in R[D] : sep <= x
      /\ R[A] \subseteq Int /\ R[D] \subseteq Int
  BY DEF SideBySide
<1>3. /\ \A i \in 1 .. a : Key(ix, A, i) \in R[A]
      /\ \A i \in 1 .. d : Key(ix, D, i) \in R[D]
      /\ \A i, j \in 1 .. a : i < j => Key(ix, A, i) < Key(ix, A, j)
      /\ \A i, j \in 1 .. d : i < j => Key(ix, D, i) < Key(ix, D, j)
  BY DEF NodeKeyed, Sorted
<1>4. /\ \A i \in 0 .. a : \A x \in Int : x \in R[Kid(ix, A, i)] <=>
             x \in R[A] /\ (i # 0 => Key(ix, A, i) <= x) /\ (i # a => x < Key(ix, A, i + 1))
      /\ \A i \in 0 .. d : \A x \in Int : x \in R[Kid(ix, D, i)] <=>
             x \in R[D] /\ (i # 0 => Key(ix, D, i) <= x) /\ (i # d => x < Key(ix, D, i + 1))
  BY DEF NodeKeyed, Between
<1>5. /\ \A i : i <= a => rkey(i) = Key(ix, A, i) /\ rkid(i) = Kid(ix, A, i)
      /\ \A i : ~(i <= a) => rkid(i) = Kid(ix, D, i - a - 1)
      /\ \A i : ~(i <= a) /\ i # a + 1 => rkey(i) = Key(ix, D, i - a - 1)
      /\ \A i : ~(i <= a) /\ i = a + 1 => rkey(i) = sep
  BY DEF RowKey, RowKid
<1>6. \A i, x : InRow(ix, R, A, sep, D, U, last, i, x) <=>
          x \in U /\ (i # 0 => rkey(i) <= x) /\ (i # last => x < rkey(i + 1))
  BY DEF InRow
<1> HIDE DEF a, d, rkey, rkid
<1>7. /\ \A i \in 1 .. a : rkey(i) \in R[A] /\ rkey(i) \in Int /\ rkey(i) < sep
      /\ rkey(a + 1) = sep
      /\ \A j \in 1 .. d : /\ rkey(a + 1 + j) = Key(ix, D, j) /\ rkey(a + 1 + j) \in R[D]
                           /\ rkey(a + 1 + j) \in Int /\ sep <= rkey(a + 1 + j)
  <2>1. ASSUME NEW i \in 1 .. a PROVE rkey(i) \in R[A] /\ rkey(i) \in Int /\ rkey(i) < sep
    <3>1. i <= a /\ rkey(i) = Key(ix, A, i)
      BY <1>5
    <3> QED
      BY <1>2, <1>3, <3>1
  <2>2. rkey(a + 1) = sep
    <3>1. ~(a + 1 <= a)
      BY <1>1
    <3> QED
      BY <1>5, <3>1
  <2>3. ASSUME NEW j \in 1 .. d
        PROVE  /\ rkey(a + 1 + j) = Key(ix, D, j) /\ rkey(a + 1 + j) \in R[D]
               /\ rkey(a + 1 + j) \in Int /\ sep <= rkey(a + 1 + j)
    <3>1. ~(a + 1 + j <= a) /\ a + 1 + j # a + 1 /\ (a + 1 + j) - a - 1 = j
      BY <1>1
    <3>2. rkey(a + 1 + j) = Key(ix, D, j)
      BY <1>5, <3>1
    <3> QED
      BY <1>2, <1>3, <3>2
  <2> QED
    BY <2>1, <2>2, <2>3
<1>8. ASSUME NEW i \in 1 .. last
      PROVE  \/ i \in 1 .. a
             \/ i = a + 1
             \/ \E j \in 1 .. d : i = a + 1 + j
  <2>1. CASE i <= a + 1
    BY <1>1, <2>1
  <2>2. CASE ~(i <= a + 1)
    <3>1. i - a - 1 \in 1 .. d /\ i = a + 1 + (i - a - 1)
      BY <1>1, <2>2
    <3> QED
      BY <3>1
  <2> QED
    BY <2>1, <2>2
<1>9. \A i \in 1 .. last : rkey(i) \in U
  BY <1>2, <1>7, <1>8
<1>10. ASSUME NEW i \in 1 .. last, NEW j \in 1 .. last, i < j PROVE rkey(i) < rkey(j)
  <2>1. CASE j \in 1 .. a
    <3>1. i \in 1 .. a /\ i <= a /\ j <= a
      BY <1>1, <1>10, <2>1
    <3>2. rkey(i) = Key(ix, A, i) /\ rkey(j) = Key(ix, A, j)
      BY <1>5, <3>1
    <3> QED
      BY <1>3, <1>10, <2>1, <3>1, <3>2
  <2>2. CASE j = a + 1
    <3>1. i \in 1 .. a
      BY <1>1, <1>10, <2>2
    <3> QED
      BY <1>7, <2>2, <3>1
  <2>3. CASE \E q \in 1 .. d : j = a + 1 + q
    <3>1. PICK q \in 1 .. d : j = a + 1 + q
      BY <2>3
    <3>2. CASE i \in 1 .. a
      BY <1>2, <1>7, <3>1, <3>2
    <3>3. CASE i = a + 1
      <4>1. 1 \in 1 .. d /\ 1 <= q
        BY <1>1, <3>1
      <4>2. sep <= rkey(j) /\ rkey(j) = Key(ix, D, q) /\ rkey(i) = sep
        BY <1>7, <3>1, <3>3
      <4> QED
        <5>1. PICK x \in R[Kid(ix, D, 0)] : TRUE
          OBVIOUS
        <5>2. 0 \in 0 .. d /\ 0 # d /\ q \in Int
          BY <1>1, <4>1
        <5>3. x \in Int
          BY <5>1
        <5>4. x \in R[D] /\ x < Key(ix, D, 1)
          BY <1>4, <5>2, <5>3
        <5>5. Key(ix, D, 1) <= Key(ix, D, q) /\ Key(ix, D, 1) \in Int /\ Key(ix, D, q) \in Int
          BY <1>2, <1>3, <4>1
        <5>6. sep <= x
          BY <1>2, <5>4
        <5> QED
          BY <1>2, <4>2, <5>3, <5>4, <5>5, <5>6
    <3>4. CASE \E b \in 1 .. d : i = a + 1 + b
      <4>1. PICK b \in 1 .. d : i = a + 1 + b
        BY <3>4
      <4>2. b < q
        BY <1>1, <1>10, <3>1, <4>1
      <4> QED
        BY <1>3, <1>7, <3>1, <4>1, <4>2
    <3> QED
      BY <1>8, <3>2, <3>3, <3>4
  <2> QED
    BY <1>8, <2>1, <2>2, <2>3
<1>11. ASSUME NEW i \in 0 .. last, NEW x \in Int
       PROVE  x \in R[rkid(i)] <=> x \in U /\ (i # 0 => rkey(i) <= x) /\ (i # last => x < rkey(i + 1))
  <2>0. /\ x \in R[A] <=> x \in U /\ x < sep
        /\ x \in R[D] <=> x \in U /\ sep <= x
    BY <1>2
  <2>1. CASE i <= a
    <3>1. i \in 0 .. a /\ i # last
      BY <1>1, <2>1
    <3>2. x \in R[rkid(i)] <=>
             x \in R[A] /\ (i # 0 => Key(ix, A, i) <= x) /\ (i # a => x < Key(ix, A, i + 1))
      BY <1>4, <1>5, <2>1, <3>1
    <3>3. rkey(i) = Key(ix, A, i)
      BY <1>5, <2>1
    <3>4. CASE i = a
      <4>1. rkey(i + 1) = sep
        BY <1>7, <3>4
      <4> QED
        BY <2>0, <3>1, <3>2, <3>3, <3>4, <4>1
    <3>5. CASE i # a
      <4>1. i + 1 \in 1 .. a /\ i + 1 <= a
        BY <1>1, <3>1, <3>5
      <4>2. rkey(i + 1) = Key(ix, A, i + 1) /\ rkey(i + 1) < sep /\ rkey(i + 1) \in Int
        BY <1>5, <1>7, <4>1
      <4>3. x < rkey(i + 1) => x < sep
        BY <1>2, <4>2
      <4> QED
        BY <2>0, <3>1, <3>2, <3>3, <3>5, <4>2, <4>3
    <3> QED
      BY <3>4, <3>5
  <2>2. CASE ~(i <= a)
    <3>1. PICK j \in 0 .. d : i = a + 1 + j /\ i - a - 1 = j
      <4>1. i - a - 1 \in 0 .. d /\ i = a + 1 + (i - a - 1)
        BY <1>1, <2>2
      <4> QED
        BY <4>1
    <3>2. x \in R[rkid(i)] <=>
             x \in R[D] /\ (j # 0 => Key(ix, D, j) <= x) /\ (j # d => x < Key(ix, D, j + 1))
      BY <1>4, <1>5, <2>2, <3>1
    <3>3. i # 0 /\ (i = last <=> j = d)
      BY <1>1, <3>1
    <3>4. j # d => rkey(i + 1) = Key(ix, D, j + 1)
      <4>1. ASSUME j # d PROVE j + 1 \in 1 .. d /\ i + 1 = a + 1 + (j + 1)
        BY <1>1, <3>1, <4>1
      <4> QED
        BY <1>7, <4>1
    <3>5. CASE j = 0
      <4>1. rkey(i) = sep
        BY <1>1, <1>7, <3>1, <3>5
      <4> QED
        BY <2>0, <3>2, <3>3, <3>4, <3>5, <4>1
    <3>6. CASE j # 0
      <4>1. j \in 1 .. d
        BY <1>1, <3>6
      <4>2. rkey(i) = Key(ix, D, j) /\ sep <= rkey(i) /\ rkey(i) \in Int
        BY <1>7, <3>1, <4>1
      <4>3. rkey(i) <= x => sep <= x
        BY <1>2, <4>2
      <4> QED
        BY <2>0, <3>2, <3>3, <3>4, <3>6, <4>2, <4>3
    <3> QED
      BY <3>5, <3>6
  <2> QED
    BY <2>1, <2>2
<1> QED
  BY <1>6, <1>9, <1>10, <1>11 DEF RowKeyed, rkey, rkid

-----------------------------------------------------------------------------
\* Of the row of A and D the first `keep' keys are in A, the next one is between the two, and
\* the others are in D.
RowDivided(jx, ix, A, sep, D, keep) ==
    /\ keep \in Nat /\ keep <= Num(ix, A) + Num(ix, D)
    /\ Num(jx, A) = keep /\ Num(jx, D) = Num(ix, A) + Num(ix, D) - keep
    /\ \A i \in 0 .. keep : Kid(jx, A, i) = RowKid(ix, A, D, i)
    /\ \A i \in 1 .. keep : Key(jx, A, i) = RowKey(ix, A, sep, D, i)
    /\ \A i \in 0 .. Num(ix, A) + Num(ix, D) - keep :
          Kid(jx, D, i) = RowKid(ix, A, D, keep + 1 + i)
    /\ \A i \in 1 .. Num(ix, A) + Num(ix, D) - keep :
          Key(jx, D, i) = RowKey(ix, A, sep, D, keep + 1 + i)

RowIn(ix, T, R, A, D, last) ==
    /\ \A i \in 0 .. last : RowKid(ix, A, D, i) \in T \ {A, D}
    /\ R[RowKid(ix, A, D, 0)] # {} /\ R[RowKid(ix, A, D, 0)] \subseteq Int
BorderIs(ix, A, sep, D, keep, key) == key = RowKey(ix, A, sep, D, keep + 1)
Bordered(jx, rk, R1, A, D, U, key) ==
    /\ key \in U /\ \E x \in U : x < key
    /\ NodeKeyed(jx, rk, R1, A) /\ NodeKeyed(jx, rk, R1, D)

LEMMA RowBorder ==
  ASSUME NEW ix, NEW jx, NEW rk, NEW T, NEW R, NEW A \in T, NEW D \in T, A # D, rk[A] # 0, rk[D] # 0,
         Num(ix, A) \in Nat, Num(ix, D) \in Nat, NEW sep, NEW keep, RowDivided(jx, ix, A, sep, D, keep),
         NEW U, U = R[A] \union R[D], U \subseteq Int, NEW last, last = RowLast(ix, A, D),
         RowKeyed(ix, R, A, sep, D, U, last),
         RowIn(ix, T, R, A, D, last),
         NEW key, BorderIs(ix, A, sep, D, keep, key), NEW R1, R1 = Shifted(R, T, A, D, key)
  PROVE  Bordered(jx, rk, R1, A, D, U, key)
<1> USE DEF RowIn, BorderIs, Bordered
<1> DEFINE rkey(i) == RowKey(ix, A, sep, D, i)
           rkid(i) == RowKid(ix, A, D, i)
<1>1. /\ keep \in Nat /\ last \in Nat /\ keep < last
      /\ Num(jx, A) = keep /\ Num(jx, D) = last - 1 - keep
      /\ \A i \in 0 .. keep : Kid(jx, A, i) = rkid(i)
      /\ \A i \in 1 .. keep : Key(jx, A, i) = rkey(i)
      /\ \A i \in 0 .. last - 1 - keep : Kid(jx, D, i) = rkid(keep + 1 + i)
      /\ \A i \in 1 .. last - 1 - keep : Key(jx, D, i) = rkey(keep + 1 + i)
  <2>1. Num(ix, A) + Num(ix, D) - keep = last - 1 - keep /\ keep \in Nat /\ last \in Nat /\ keep < last
    BY DEF RowDivided, RowLast
  <2> QED
    BY <2>1 DEF RowDivided
<1>2. /\ \A i \in 1 .. last : rkey(i) \in U /\ rkey(i) \in Int
      /\ \A i, j \in 1 .. last : i < j => rkey(i) < rkey(j)
      /\ \A i \in 0 .. last : \A x \in Int :
            x \in R[rkid(i)] <=> x \in U /\ (i # 0 => rkey(i) <= x) /\ (i # last => x < rkey(i + 1))
      /\ \A i \in 0 .. last : rkid(i) \in T \ {A, D}
      /\ R[rkid(0)] # {} /\ R[rkid(0)] \subseteq Int
  BY DEF RowKeyed, InRow
<1>3. key = rkey(keep + 1)
  OBVIOUS
<1> HIDE DEF rkey, rkid
<1>4. key \in U /\ key \in Int /\ keep + 1 \in 1 .. last
  BY <1>1, <1>2, <1>3
<1>5. /\ R1[A] = {x \in U : x < key} /\ R1[D] = {x \in U : key <= x}
      /\ \A p \in T \ {A, D} : R1[p] = R[p]
  BY DEF Shifted
<1>6. \E x \in U : x < key
  <2>1. PICK x \in R[rkid(0)] : x \in Int
    BY <1>2
  <2>2. 0 \in 0 .. last /\ 0 # last
    BY <1>1
  <2>3. x \in U /\ x < rkey(0 + 1)
    BY <1>2, <2>1, <2>2
  <2>4. keep = 0 \/ (1 < keep + 1 /\ 1 \in 1 .. last)
    BY <1>1
  <2>5. rkey(1) = key \/ (rkey(1) < key /\ rkey(1) \in Int)
    BY <1>2, <1>3, <1>4, <2>4
  <2>6. x < rkey(1)
    BY <2>3
  <2> QED
    BY <1>4, <2>1, <2>3, <2>5, <2>6
<1>7. NodeKeyed(jx, rk, R1, A)
  <2>1. ASSUME NEW i \in 0 .. keep, NEW x \in Int PROVE x \in R1[Kid(jx, A, i)] <=> Between(jx, R1, A, i, x)
    <3>1. i \in 0 .. last /\ i # last /\ Kid(jx, A, i) = rkid(i)
      BY <1>1
    <3>2. x \in R1[Kid(jx, A, i)] <=> x \in U /\ (i # 0 => rkey(i) <= x) /\ x < rkey(i + 1)
      BY <1>2, <1>5, <3>1
    <3>3. i # 0 => Key(jx, A, i) = rkey(i)
      BY <1>1
    <3>4. CASE i = keep
      <4>1. rkey(i + 1) = key
        BY <1>3, <3>4
      <4> QED
        BY <1>1, <1>5, <3>2, <3>3, <3>4, <4>1 DEF Between
    <3>5. CASE i # keep
      <4>1. i + 1 \in 1 .. keep /\ i + 1 < keep + 1 /\ i + 1 \in 1 .. last
        BY <1>1, <3>5
      <4>2. Key(jx, A, i + 1) = rkey(i + 1) /\ rkey(i + 1) < key /\ rkey(i + 1) \in Int
        BY <1>1, <1>2, <1>3, <1>4, <4>1
      <4>3. x < rkey(i + 1) => x < key
        BY <1>4, <4>2
      <4> QED
        BY <1>1, <1>5, <3>2, <3>3, <3>5, <4>2, <4>3 DEF Between
    <3> QED
      BY <3>4, <3>5
  <2>2. ASSUME NEW i \in 1 .. keep PROVE Key(jx, A, i) \in R1[A]
    <3>1. i \in 1 .. last /\ i < keep + 1
      BY <1>1
    <3>2. rkey(i) \in U /\ rkey(i) < key
      BY <1>2, <1>3, <1>4, <3>1
    <3> QED
      BY <1>1, <1>5, <3>2
  <2>3. Sorted(jx, A)
    <3>1. ASSUME NEW i \in 1 .. keep, NEW j \in 1 .. keep, i < j PROVE Key(jx, A, i) < Key(jx, A, j)
      <4>1. i \in 1 .. last /\ j \in 1 .. last
        BY <1>1
      <4> QED
        BY <1>1, <1>2, <3>1, <4>1
    <3> QED
      BY <1>1, <3>1 DEF Sorted
  <2> QED
    BY <1>1, <2>1, <2>2, <2>3 DEF NodeKeyed
<1>8. NodeKeyed(jx, rk, R1, D)
  <2> DEFINE d == last - 1 - keep
  <2>0. /\ d \in Nat /\ d = last - 1 - keep /\ Num(jx, D) = d
        /\ \A i \in 0 .. d : Kid(jx, D, i) = rkid(keep + 1 + i)
        /\ \A i \in 1 .. d : Key(jx, D, i) = rkey(keep + 1 + i)
    BY <1>1
  <2> HIDE DEF d
  <2>1. ASSUME NEW i \in 0 .. d, NEW x \in Int PROVE x \in R1[Kid(jx, D, i)] <=> Between(jx, R1, D, i, x)
    <3>1. keep + 1 + i \in 0 .. last /\ keep + 1 + i # 0 /\ (keep + 1 + i = last <=> i = d)
          /\ Kid(jx, D, i) = rkid(keep + 1 + i)
      BY <1>1, <2>0
    <3>2. x \in R1[Kid(jx, D, i)] <=>
             x \in U /\ rkey(keep + 1 + i) <= x /\ (i # d => x < rkey(keep + 1 + i + 1))
      BY <1>2, <1>5, <3>1
    <3>3. i # d => rkey(keep + 1 + i + 1) = Key(jx, D, i + 1)
      <4>1. ASSUME i # d PROVE i + 1 \in 1 .. d /\ keep + 1 + (i + 1) = keep + 1 + i + 1
        BY <1>1, <2>0, <4>1
      <4> QED
        BY <2>0, <4>1
    <3>4. CASE i = 0
      <4>1. rkey(keep + 1 + i) = key
        BY <1>1, <1>3, <3>4
      <4> QED
        BY <1>5, <2>0, <3>2, <3>3, <3>4, <4>1 DEF Between
    <3>5. CASE i # 0
      <4>1. i \in 1 .. d /\ keep + 1 < keep + 1 + i /\ keep + 1 + i \in 1 .. last
        BY <1>1, <2>0, <3>5
      <4>2. Key(jx, D, i) = rkey(keep + 1 + i) /\ key < rkey(keep + 1 + i) /\ rkey(keep + 1 + i) \in Int
        BY <1>2, <1>3, <1>4, <2>0, <4>1
      <4>3. rkey(keep + 1 + i) <= x => key <= x
        BY <1>4, <4>2
      <4> QED
        BY <1>5, <2>0, <3>2, <3>3, <3>5, <4>2, <4>3 DEF Between
    <3> QED
      BY <3>4, <3>5
  <2>2. ASSUME NEW i \in 1 .. d PROVE Key(jx, D, i) \in R1[D]
    <3>1. keep + 1 + i \in 1 .. last /\ keep + 1 < keep + 1 + i
      BY <1>1, <2>0
    <3>2. rkey(keep + 1 + i) \in U /\ key < rkey(keep + 1 + i) /\ rkey(keep + 1 + i) \in Int
      BY <1>2, <1>3, <1>4, <3>1
    <3>3. key <= rkey(keep + 1 + i)
      BY <1>4, <3>2
    <3> QED
      BY <1>5, <2>0, <3>2, <3>3
  <2>3. Sorted(jx, D)
    <3>1. ASSUME NEW i \in 1 .. d, NEW j \in 1 .. d, i < j PROVE Key(jx, D, i) < Key(jx, D, j)
      <4>1. keep + 1 + i \in 1 .. last /\ keep + 1 + j \in 1 .. last /\ keep + 1 + i < keep + 1 + j
        BY <1>1, <2>0, <3>1
      <4> QED
        BY <1>2, <2>0, <4>1
    <3> QED
      BY <2>0, <3>1 DEF Sorted
  <2> QED
    BY <2>0, <2>1, <2>2, <2>3 DEF NodeKeyed
<1> QED
  BY <1>4, <1>6, <1>7, <1>8

\* The whole row is in A.
RowTaken(jx, ix, A, sep, D) ==
    /\ Num(jx, A) = RowLast(ix, A, D)
    /\ \A i \in 0 .. RowLast(ix, A, D) : Kid(jx, A, i) = RowKid(ix, A, D, i)
    /\ \A i \in 1 .. RowLast(ix, A, D) : Key(jx, A, i) = RowKey(ix, A, sep, D, i)

LEMMA RowMerge ==
  ASSUME NEW ix, NEW jx, NEW rk, NEW T, NEW R, NEW A \in T, NEW D \in T, A # D, rk[A] # 0, rk[D] # 0,
         NEW sep, RowTaken(jx, ix, A, sep, D), Num(ix, A) \in Nat, Num(ix, D) \in Nat,
         NEW U, U = R[A] \union R[D], NEW last, last = RowLast(ix, A, D),
         RowKeyed(ix, R, A, sep, D, U, last),
         \A i \in 0 .. last : RowKid(ix, A, D, i) \in T \ {A, D},
         NEW R1, R1 = Merged(R, T, A, D)
  PROVE  NodeKeyed(jx, rk, R1, A)
<1>0. last \in Nat
  BY DEF RowLast
<1> DEFINE rkey(i) == RowKey(ix, A, sep, D, i)
           rkid(i) == RowKid(ix, A, D, i)
<1>1. /\ Num(jx, A) = last
      /\ \A i \in 0 .. last : Kid(jx, A, i) = rkid(i)
      /\ \A i \in 1 .. last : Key(jx, A, i) = rkey(i)
  BY DEF RowTaken
<1>2. /\ \A i \in 1 .. last : rkey(i) \in U
      /\ \A i, j \in 1 .. last : i < j => rkey(i) < rkey(j)
      /\ \A i \in 0 .. last : \A x \in Int :
            x \in R[rkid(i)] <=> x \in U /\ (i # 0 => rkey(i) <= x) /\ (i # last => x < rkey(i + 1))
      /\ \A i \in 0 .. last : rkid(i) \in T \ {A, D}
  BY DEF RowKeyed, InRow
<1> HIDE DEF rkey, rkid
<1>3. R1[A] = U /\ \A p \in T \ {A, D} : R1[p] = R[p]
  BY DEF Merged
<1>4. ASSUME NEW i \in 0 .. last, NEW x \in Int PROVE x \in R1[Kid(jx, A, i)] <=> Between(jx, R1, A, i, x)
  <2>1. x \in R1[Kid(jx, A, i)] <=> x \in U /\ (i # 0 => rkey(i) <= x) /\ (i # last => x < rkey(i + 1))
    BY <1>1, <1>2, <1>3
  <2>2. i # 0 => rkey(i) = Key(jx, A, i)
    BY <1>1
  <2>3. i # last => rkey(i + 1) = Key(jx, A, i + 1)
    <3>1. i # last => i + 1 \in 1 .. last
      BY <1>0
    <3> QED
      BY <1>1, <3>1
  <2> QED
    BY <1>1, <1>3, <2>1, <2>2, <2>3 DEF Between
<1>5. Sorted(jx, A)
  BY <1>1, <1>2 DEF Sorted
<1> QED
  BY <1>1, <1>2, <1>3, <1>4, <1>5 DEF NodeKeyed

-----------------------------------------------------------------------------
\* Child `moved' goes from one of the neighbouring nodes A and D to the other, `to', through their
\* parent.
Crosses(ix, A, D, keep, moved, to) ==
    \/ keep = Num(ix, A) - 1 /\ Num(ix, A) # 0 /\ moved = Kid(ix, A, Num(ix, A)) /\ to = D
    \/ keep = Num(ix, A) + 1 /\ Num(ix, D) # 0 /\ moved = Kid(ix, D, 0) /\ to = A
Regrouped(jx, ix, n, P, k, A, D, keep, moved, to) ==
    /\ RowDivided(jx, ix, A, Key(ix, P, k), D, keep)
    /\ NewKey(jx, ix, P, k, RowKey(ix, A, Key(ix, P, k), D, keep + 1))
    /\ \A q \in 1 .. n : q \notin {A, D, P} =>
          jx.node[q].entries = ix.node[q].entries /\ jx.node[q].leftMost = ix.node[q].leftMost
    /\ \A q \in 1 .. n : Par(jx, q) = IF q = moved THEN to ELSE Par(ix, q)
    /\ \A q \in 1 .. n : SameChain(jx, ix, q)

LEMMA RegroupMoves ==
  ASSUME NEW ix, NEW jx, NEW A, NEW D, A # D, Num(ix, A) \in Nat, Num(ix, D) \in Nat,
         NEW sep, NEW keep, RowDivided(jx, ix, A, sep, D, keep)
  PROVE  /\ keep = Num(ix, A) - 1 => MovesKid(jx, ix, A, Num(ix, A), D, 0)
         /\ keep = Num(ix, A) + 1 => MovesKid(jx, ix, D, 0, A, Num(ix, A) + 1)
<1>1. /\ Num(jx, A) = keep /\ Num(jx, D) = Num(ix, A) + Num(ix, D) - keep
      /\ \A i \in 0 .. keep : Kid(jx, A, i) = RowKid(ix, A, D, i)
      /\ \A i \in 0 .. Num(ix, A) + Num(ix, D) - keep :
            Kid(jx, D, i) = RowKid(ix, A, D, keep + 1 + i)
  BY DEF RowDivided
<1>2. ASSUME keep = Num(ix, A) - 1 PROVE MovesKid(jx, ix, A, Num(ix, A), D, 0)
  <2>1. \A i \in 0 .. Num(ix, A) - 1 : Kid(jx, A, i) = Kid(ix, A, i)
    BY <1>1, <1>2 DEF RowKid
  <2>2. \A i \in 0 .. Num(ix, D) + 1 : Kid(jx, D, i) =
            IF i = 0 THEN Kid(ix, A, Num(ix, A)) ELSE Kid(ix, D, i - 1)
    <3>1. ASSUME NEW i \in 0 .. Num(ix, D) + 1
          PROVE  Kid(jx, D, i) = IF i = 0 THEN Kid(ix, A, Num(ix, A)) ELSE Kid(ix, D, i - 1)
      <4>1. Kid(jx, D, i) = RowKid(ix, A, D, Num(ix, A) + i)
        BY <1>1, <1>2
      <4>2. CASE i = 0
        BY <4>1, <4>2 DEF RowKid
      <4>3. CASE i # 0
        <5>1. ~(Num(ix, A) + i <= Num(ix, A)) /\ Num(ix, A) + i - Num(ix, A) - 1 = i - 1
          BY <4>3
        <5> QED
          BY <4>1, <4>3, <5>1 DEF RowKid
      <4> QED
        BY <4>2, <4>3
    <3> QED
      BY <3>1
  <2>3. Num(jx, A) = Num(ix, A) - 1 /\ Num(jx, D) = Num(ix, D) + 1
    BY <1>1, <1>2
  <2>4. \A i \in 0 .. Num(ix, A) - 1 : i < Num(ix, A)
    OBVIOUS
  <2>5. \A i \in 0 .. Num(ix, D) + 1 : ~(i < 0)
    OBVIOUS
  <2> QED
    BY <2>1, <2>2, <2>3, <2>4, <2>5 DEF MovesKid
<1>3. ASSUME keep = Num(ix, A) + 1 PROVE MovesKid(jx, ix, D, 0, A, Num(ix, A) + 1)
  <2>1. \A i \in 0 .. Num(ix, A) + 1 : Kid(jx, A, i) =
            IF i = Num(ix, A) + 1 THEN Kid(ix, D, 0) ELSE Kid(ix, A, i)
    BY <1>1, <1>3 DEF RowKid
  <2>2. \A i \in 0 .. Num(ix, D) - 1 : Kid(jx, D, i) = Kid(ix, D, i + 1)
    <3>1. ASSUME NEW i \in 0 .. Num(ix, D) - 1 PROVE Kid(jx, D, i) = Kid(ix, D, i + 1)
      <4>1. i \in 0 .. Num(ix, A) + Num(ix, D) - keep /\ keep + 1 + i = Num(ix, A) + 2 + i
        BY <1>3
      <4>2. Kid(jx, D, i) = RowKid(ix, A, D, Num(ix, A) + 2 + i)
        BY <1>1, <4>1
      <4>3. ~(Num(ix, A) + 2 + i <= Num(ix, A)) /\ Num(ix, A) + 2 + i - Num(ix, A) - 1 = i + 1
        OBVIOUS
      <4> QED
        BY <4>2, <4>3 DEF RowKid
    <3> QED
      BY <3>1
  <2>3. Num(jx, A) = Num(ix, A) + 1 /\ Num(jx, D) = Num(ix, D) - 1
    BY <1>1, <1>3
  <2>4. \A i \in 0 .. Num(ix, A) + 1 : ~(i < Num(ix, A) + 1) => i = Num(ix, A) + 1
    OBVIOUS
  <2>5. \A i \in 0 .. Num(ix, D) - 1 : ~(i < 0)
    OBVIOUS
  <2>6. \A i \in 0 .. Num(ix, A) + 1 : i < Num(ix, A) + 1 => i # Num(ix, A) + 1
    OBVIOUS
  <2> QED
    BY <2>1, <2>2, <2>3, <2>4, <2>5, <2>6 DEF MovesKid
<1> QED
  BY <1>2, <1>3

\* The children in the row are of the tree, one level below.
LEMMA RowKids ==
  ASSUME NEW ix, NEW rk, NEW T, NEW root, Family(ix, rk, T, root, NoPage),
         NEW A \in T, NEW D \in T, rk[A] # 0, rk[D] = rk[A], NEW last, last = RowLast(ix, A, D)
  PROVE  \A i \in 0 .. last : RowKid(ix, A, D, i) \in T \ {A, D}
<1>1. /\ \A i \in 0 .. Num(ix, A) : IsChild(ix, rk, T, root, NoPage, A, Kid(ix, A, i))
      /\ \A i \in 0 .. Num(ix, D) : IsChild(ix, rk, T, root, NoPage, D, Kid(ix, D, i))
      /\ \A p \in T : rk[p] \in Nat /\ Num(ix, p) \in Nat
  BY DEF Family
<1>2. /\ \A i \in 0 .. Num(ix, A) : Kid(ix, A, i) \in T /\ rk[Kid(ix, A, i)] + 1 = rk[A]
      /\ \A i \in 0 .. Num(ix, D) : Kid(ix, D, i) \in T /\ rk[Kid(ix, D, i)] + 1 = rk[D]
  BY <1>1 DEF IsChild
<1>3. ASSUME NEW i \in 0 .. last PROVE RowKid(ix, A, D, i) \in T \ {A, D}
  <2>1. CASE i <= Num(ix, A)
    <3>1. RowKid(ix, A, D, i) = Kid(ix, A, i) /\ i \in 0 .. Num(ix, A)
      BY <1>1, <2>1 DEF RowKid, RowLast
    <3> QED
      BY <1>1, <1>2, <3>1
  <2>2. CASE ~(i <= Num(ix, A))
    <3>1. RowKid(ix, A, D, i) = Kid(ix, D, i - Num(ix, A) - 1) /\ i - Num(ix, A) - 1 \in 0 .. Num(ix, D)
      BY <1>1, <2>2 DEF RowKid, RowLast
    <3> QED
      BY <1>1, <1>2, <3>1
  <2> QED
    BY <2>1, <2>2
<1> QED
  BY <1>3
\* One node gives a child to its neighbour that has one entry less than it needs.
LEMMA RegroupGood ==
  ASSUME NEW ix, NEW n, NEW rk, NEW T, NEW root, NEW thin, NEW whole, NEW s,
         Good(ix, n, rk, T, root, thin, whole, s), NEW jx, Tree(jx, n, rk),
         NEW P, NEW k, NEW A, NEW D, Pair(ix, rk, T, P, k, A, D), rk[A] # 0, thin \in {A, D},
         NEW keep, NEW moved, NEW to, Crosses(ix, A, D, keep, moved, to),
         Regrouped(jx, ix, n, P, k, A, D, keep, moved, to),
         MaxKeys >= 2 => Num(jx, A) >= AtLeast(rk[A]) /\ Num(jx, D) >= AtLeast(rk[A])
  PROVE  Good(jx, n, rk, T, root, NoPage, whole, s)
<1>1. /\ Tree(ix, n, rk) /\ T \subseteq 1 .. n /\ Family(ix, rk, T, root, NoPage)
      /\ Par(ix, root) = NoPage /\ root \in T /\ NoPage \notin T /\ n \in Nat
      /\ Items(ix, rk, T) = s
      /\ \A p \in T : p \in 1 .. n /\ Num(ix, p) \in Nat /\ rk[p] \in Nat /\ rk[p] <= rk[root]
  BY DEF Good, Shape, Family, Tree
<1>2. A \in T /\ D \in T /\ A # D /\ A # root /\ D # root /\ A # P /\ D # P
      /\ rk[D] = rk[A] /\ rk[P] # 0 /\ P \in T
  <2>1. A \in T /\ D \in T /\ A # D /\ A # root /\ D # root /\ A # P /\ D # P /\ rk[A] = rk[D]
    BY <1>1, PairPages
  <2> QED
    BY <2>1 DEF Pair
<1> DEFINE sep == Key(ix, P, k)
           key == RowKey(ix, A, sep, D, keep + 1)
           last == RowLast(ix, A, D)
<1>0. sep = Key(ix, P, k) /\ key = RowKey(ix, A, sep, D, keep + 1) /\ last = RowLast(ix, A, D)
  OBVIOUS
<1> HIDE DEF sep, key, last
<1>3. /\ RowDivided(jx, ix, A, sep, D, keep)
      /\ NewKey(jx, ix, P, k, key)
      /\ \A q \in 1 .. n : q \notin {A, D, P} =>
            jx.node[q].entries = ix.node[q].entries /\ jx.node[q].leftMost = ix.node[q].leftMost
      /\ \A q \in 1 .. n : Par(jx, q) = IF q = moved THEN to ELSE Par(ix, q)
      /\ \A q \in 1 .. n : SameChain(jx, ix, q)
  BY <1>0 DEF Regrouped
<1>4. /\ keep \in Nat /\ keep <= Num(ix, A) + Num(ix, D)
      /\ Num(jx, A) = keep /\ Num(jx, D) = Num(ix, A) + Num(ix, D) - keep
  BY <1>3 DEF RowDivided
<1>5. ASSUME NEW p \in T, p \notin {A, D, P}
      PROVE  SameKeys(jx, ix, p) /\ SameKids(jx, ix, p) /\ Num(jx, p) = Num(ix, p)
  <2>1. jx.node[p].entries = ix.node[p].entries /\ jx.node[p].leftMost = ix.node[p].leftMost
    BY <1>1, <1>3, <1>5
  <2> QED
    BY <2>1 DEF SameKeys, SameKids, Num, Kid, Key, ChildAt
<1>6. SameKids(jx, ix, P) /\ Num(jx, P) = Num(ix, P)
  BY <1>3 DEF NewKey
<1>7. \A i \in 0 .. last : RowKid(ix, A, D, i) \in T \ {A, D}
  BY <1>0, <1>1, <1>2, RowKids
<1>8. Num(ix, A) \in Nat /\ Num(ix, D) \in Nat
  BY <1>1, <1>2
<1>9. Shape(jx, n, rk, T, root, NoPage)
  <2>1. /\ \A p \in T : p \notin {A, D} => Num(jx, p) = Num(ix, p)
        /\ \A p \in T : rk[p] # 0 /\ p \notin {A, D} => SameKids(jx, ix, p)
    BY <1>5, <1>6
  <2>2. \A p \in T : Par(jx, p) = IF p = moved THEN to ELSE Par(ix, p)
    BY <1>1, <1>3
  <2>3. /\ keep = Num(ix, A) - 1 => MovesKid(jx, ix, A, Num(ix, A), D, 0)
        /\ keep = Num(ix, A) + 1 => MovesKid(jx, ix, D, 0, A, Num(ix, A) + 1)
    BY <1>2, <1>3, <1>8, RegroupMoves
  <2>4. Family(jx, rk, T, root, NoPage)
    <3>1. CASE keep = Num(ix, A) - 1 /\ Num(ix, A) # 0 /\ moved = Kid(ix, A, Num(ix, A)) /\ to = D
      <4> DEFINE a == Num(ix, A)
                 b == 0
      <4>1. MovesKid(jx, ix, A, a, D, b) /\ a \in 0 .. Num(ix, A) /\ b \in 0 .. Num(ix, D) + 1
            /\ Num(ix, A) # 0
        BY <1>8, <2>3, <3>1
      <4>2. \A p \in T : Par(jx, p) = IF p = Kid(ix, A, a) THEN D ELSE Par(ix, p)
        BY <2>2, <3>1
      <4> HIDE DEF a, b
      <4> QED
        BY <1>1, <1>2, <2>1, <4>1, <4>2, MoveFamily
    <3>2. CASE keep = Num(ix, A) + 1 /\ Num(ix, D) # 0 /\ moved = Kid(ix, D, 0) /\ to = A
      <4> DEFINE a == 0
                 b == Num(ix, A) + 1
      <4>1. MovesKid(jx, ix, D, a, A, b) /\ a \in 0 .. Num(ix, D) /\ b \in 0 .. Num(ix, A) + 1
            /\ Num(ix, D) # 0 /\ D # A /\ rk[D] # 0 /\ rk[A] = rk[D]
        BY <1>2, <1>8, <2>3, <3>2
      <4>2. \A p \in T : Par(jx, p) = IF p = Kid(ix, D, a) THEN A ELSE Par(ix, p)
        BY <2>2, <3>2
      <4>3. /\ \A p \in T : p \notin {D, A} => Num(jx, p) = Num(ix, p)
            /\ \A p \in T : rk[p] # 0 /\ p \notin {D, A} => SameKids(jx, ix, p)
        BY <2>1
      <4> HIDE DEF a, b
      <4> QED
        BY <1>1, <1>2, <4>1, <4>2, <4>3, MoveFamily
    <3> QED
      BY <3>1, <3>2 DEF Crosses
  <2>5. Par(jx, root) = NoPage
    <3>1. moved # root
      <4>1. /\ \A i \in 0 .. Num(ix, A) : IsChild(ix, rk, T, root, NoPage, A, Kid(ix, A, i))
            /\ \A i \in 0 .. Num(ix, D) : IsChild(ix, rk, T, root, NoPage, D, Kid(ix, D, i))
        BY <1>1, <1>2 DEF Family
      <4>2. /\ \A i \in 0 .. Num(ix, A) : Kid(ix, A, i) # root
            /\ \A i \in 0 .. Num(ix, D) : Kid(ix, D, i) # root
        BY <4>1 DEF IsChild
      <4> QED
        BY <1>8, <4>2 DEF Crosses
    <3> QED
      BY <1>1, <2>2, <3>1
  <2> QED
    BY <1>1, <2>4, <2>5 DEF Shape
<1>10. MaxKeys >= 2 => Filled(jx, rk, T, root, NoPage)
  <2>1. ASSUME MaxKeys >= 2, NEW p \in T
        PROVE  Num(jx, p) + (IF p = NoPage THEN 1 ELSE 0) >= Need(rk, root, p)
    <3>0. (IF p = NoPage THEN 1 ELSE 0) = 0
      BY <1>1
    <3>1. CASE p \in {A, D}
      <4>1. Need(rk, root, p) = AtLeast(rk[A])
        BY <1>2, <3>1 DEF Need
      <4>2. Num(jx, p) >= AtLeast(rk[A]) /\ Num(jx, p) \in Nat
        BY <1>4, <1>8, <2>1, <3>1
      <4> QED
        BY <3>0, <4>1, <4>2
    <3>2. CASE p \notin {A, D}
      <4>1. Num(ix, p) + (IF p = thin THEN 1 ELSE 0) >= Need(rk, root, p)
        BY <2>1 DEF Good, Filled
      <4>2. Num(jx, p) = Num(ix, p) /\ p # thin
        BY <1>5, <1>6, <3>2
      <4> QED
        BY <3>0, <4>1, <4>2
    <3> QED
      BY <3>1, <3>2
  <2> QED
    BY <2>1 DEF Filled
<1>11. ASSUME Unique PROVE \E R : KeyedAs(jx, rk, T, root, R) /\ (whole => Chained(jx, rk, T, R))
  <2>1. PICK R : KeyedAs(ix, rk, T, root, R) /\ (whole => Chained(ix, rk, T, R))
    BY <1>11 DEF Good
  <2> DEFINE U == R[A] \union R[D]
             R1 == Shifted(R, T, A, D, key)
  <2>2. SideBySide(ix, R, P, k, A, D)
    BY <1>1, <2>1, PairKeys
  <2>3. /\ \A p \in T : R[p] \subseteq Int /\ R[p] # {}
        /\ \A p \in T : NodeKeyed(ix, rk, R, p)
    BY <1>1, <2>1, NodesKeyed
  <2>4. U \subseteq Int /\ U = R[A] \union R[D] /\ R1 = Shifted(R, T, A, D, key)
    BY <1>2, <2>3
  <2> HIDE DEF U, R1
  <2>5. RowKeyed(ix, R, A, sep, D, U, last)
    <3>1. Kid(ix, D, 0) \in T
      <4>1. IsChild(ix, rk, T, root, NoPage, D, Kid(ix, D, 0))
        BY <1>1, <1>2, <1>8 DEF Family
      <4> QED
        BY <4>1 DEF IsChild
    <3>2. R[Kid(ix, D, 0)] # {} /\ R[Kid(ix, D, 0)] \subseteq Int
      BY <2>3, <3>1
    <3>3. NodeKeyed(ix, rk, R, A) /\ NodeKeyed(ix, rk, R, D) /\ rk[D] # 0
      BY <1>2, <2>3
    <3> QED
      BY <1>0, <1>8, <2>2, <2>4, <3>2, <3>3, RowIsKeyed
  <2>6. /\ key \in U /\ \E x \in U : x < key
        /\ NodeKeyed(jx, rk, R1, A) /\ NodeKeyed(jx, rk, R1, D)
    <3>1. RowIn(ix, T, R, A, D, last)
      <4>1. RowKid(ix, A, D, 0) \in T
        BY <1>0, <1>7, <1>8 DEF RowLast
      <4> QED
        BY <1>7, <2>3, <4>1 DEF RowIn
    <3>2. A \in T /\ D \in T /\ A # D /\ rk[A] # 0 /\ rk[D] # 0
      BY <1>2
    <3>3. RowDivided(jx, ix, A, sep, D, keep)
      BY <1>3
    <3>4. last = RowLast(ix, A, D) /\ BorderIs(ix, A, sep, D, keep, key)
      BY <1>0 DEF BorderIs
    <3>5. Bordered(jx, rk, R1, A, D, U, key)
      BY <1>8, <2>4, <2>5, <3>1, <3>2, <3>3, <3>4, RowBorder
    <3> QED
      BY <3>5 DEF Bordered
  <2>7. KeyedAs(jx, rk, T, root, R1)
    <3>1. key \in R[A] \union R[D] /\ \E x \in R[A] \union R[D] : x < key
      BY <2>4, <2>6
    <3>2. \A p \in T : p \notin {A, D, P} => SameKeys(jx, ix, p) /\ SameKids(jx, ix, p)
      BY <1>5
    <3> QED
      BY <1>1, <1>3, <2>1, <2>4, <2>6, <3>1, <3>2, KeyedShift
  <2>8. whole => Chained(jx, rk, T, R1)
    <3>1. ASSUME whole PROVE Chained(jx, rk, T, R1)
      <4>1. Chained(ix, rk, T, R)
        BY <2>1, <3>1
      <4>2. \A p \in T : rk[p] = 0 => SameChain(jx, ix, p) /\ R1[p] = R[p]
        <5>1. ASSUME NEW p \in T, rk[p] = 0 PROVE R1[p] = R[p]
          <6>1. p # A /\ p # D
            BY <1>2, <5>1
          <6> QED
            BY <2>4, <6>1 DEF Shifted
        <5> QED
          BY <1>1, <1>3, <5>1
      <4>3. \A p : (p \in T /\ rk[p] = 0) <=> (p \in T /\ rk[p] = 0)
        OBVIOUS
      <4> QED
        BY <4>1, <4>2, <4>3, ChainedSame
    <3> QED
      BY <3>1
  <2> QED
    BY <2>7, <2>8
<1>12. Items(jx, rk, T) = s
  <2>1. \A p \in T : rk[p] = 0 => jx.node[p].entries = ix.node[p].entries
    BY <1>1, <1>2, <1>3
  <2>2. \A p : (p \in T /\ rk[p] = 0) <=> (p \in T /\ rk[p] = 0)
    OBVIOUS
  <2>3. Items(jx, rk, T) = Items(ix, rk, T)
    BY <2>1, <2>2, ItemsSame
  <2> QED
    BY <1>1, <2>3
<1> QED
  BY <1>9, <1>10, <1>11, <1>12 DEF Good

-----------------------------------------------------------------------------
\* Nodes X and Y get other entries, L, one of them, another left-most child, and P another key.
Regroup(ix, X, s, L, c, Y, t, P, k, key) ==
    WithKey(WithEntries(WithLeftMost(WithEntries(ix, X, s), L, c), Y, t), P, k, key)
Regroups(jx, ix, n, X, s, L, c, Y, t, P, k, key) ==
    /\ jx.node[X].entries = s /\ jx.node[Y].entries = t
    /\ NewKey(jx, ix, P, k, key)
    /\ \A q \in 1 .. n : q \notin {X, Y, P} => jx.node[q] = ix.node[q]
    /\ \A q \in 1 .. n : jx.node[q].leftMost = IF q = L THEN c ELSE ix.node[q].leftMost
    /\ \A q \in 1 .. n : Par(jx, q) = Par(ix, q) /\ SameChain(jx, ix, q)
    /\ jx.pins = ix.pins /\ jx.info = ix.info
\* Who takes part.
Partners(ix, n, rk, X, Y, P, k) ==
    /\ X \in 1 .. n /\ Y \in 1 .. n /\ P \in 1 .. n /\ X # Y /\ P # X /\ P # Y
    /\ rk[X] # 0 /\ rk[Y] = rk[X] /\ rk[P] # 0 /\ k \in 1 .. Num(ix, P)

LEMMA KeyIsNew ==
  ASSUME NEW n, NEW rk, NEW ix, Tree(ix, n, rk), NEW P \in 1 .. n, rk[P] # 0,
         NEW k \in 1 .. Num(ix, P), NEW key \in Keys, NEW jx, jx = WithKey(ix, P, k, key)
  PROVE  Tree(jx, n, rk) /\ KeySet(jx, ix, n, P, k, key) /\ NewKey(jx, ix, P, k, key)
<1>1. Tree(jx, n, rk) /\ KeySet(jx, ix, n, P, k, key)
  BY KeyField
<1>2. /\ Num(jx, P) = Num(ix, P)
      /\ \A i \in 1 .. Num(ix, P) : jx.node[P].entries[i].child = ix.node[P].entries[i].child
      /\ \A i \in 1 .. Num(ix, P) : Key(jx, P, i) = IF i = k THEN key ELSE Key(ix, P, i)
      /\ jx.node[P].leftMost = ix.node[P].leftMost
  BY <1>1 DEF KeySet
<1>3. KidsAre(ix, P) /\ KidsAre(jx, P)
  <2>1. Tree(jx, n, rk)
    BY <1>1
  <2> QED
    BY <2>1, KidItems
<1>4. ASSUME NEW i \in 0 .. Num(ix, P) PROVE Kid(jx, P, i) = Kid(ix, P, i)
  <2>1. i = 0 \/ i \in 1 .. Num(ix, P)
    BY <1>3 DEF KidsAre
  <2> QED
    BY <1>2, <1>3, <2>1 DEF KidsAre, Item
<1>5. NewKey(jx, ix, P, k, key)
  BY <1>2, <1>4 DEF NewKey, SameKids
<1> QED
  BY <1>1, <1>5

LEMMA RegroupIs ==
  ASSUME NEW n, NEW rk, NEW ix, Tree(ix, n, rk), NEW X, NEW Y, NEW P, NEW k, Partners(ix, n, rk, X, Y, P, k),
         NEW s \in Lists(Ents(n, rk, rk[X])), NEW t \in Lists(Ents(n, rk, rk[X])),
         NEW L \in {X, Y}, NEW c \in Below(n, rk, rk[X]), NEW key \in Keys,
         NEW jx, jx = Regroup(ix, X, s, L, c, Y, t, P, k, key)
  PROVE  Tree(jx, n, rk) /\ Regroups(jx, ix, n, X, s, L, c, Y, t, P, k, key)
<1> DEFINE ax == WithEntries(ix, X, s)
           bx == WithLeftMost(ax, L, c)
           cx == WithEntries(bx, Y, t)
<1>0. /\ X \in 1 .. n /\ Y \in 1 .. n /\ P \in 1 .. n /\ X # Y /\ P # X /\ P # Y
      /\ rk[X] # 0 /\ rk[Y] = rk[X] /\ rk[P] # 0 /\ k \in 1 .. Num(ix, P)
  BY DEF Partners
<1>1. Tree(ax, n, rk) /\ EntriesSet(ax, ix, n, X, s)
  BY <1>0, EntriesField
<1>2. jx = WithKey(cx, P, k, key)
  BY DEF Regroup
<1> HIDE DEF ax
<1>3. Tree(bx, n, rk) /\ LeftMostSet(bx, ax, n, L, c)
  <2>1. L \in 1 .. n /\ rk[L] # 0 /\ c \in Below(n, rk, rk[L])
    BY <1>0
  <2> QED
    BY <1>1, <2>1, LeftMostField
<1> HIDE DEF bx
<1>4. Tree(cx, n, rk) /\ EntriesSet(cx, bx, n, Y, t)
  <2>1. t \in Lists(Ents(n, rk, rk[Y])) /\ Y \in 1 .. n
    BY <1>0
  <2> QED
    BY <1>3, <2>1, EntriesField
<1> HIDE DEF cx
<1>5. cx.node[P] = ix.node[P]
  BY <1>0, <1>1, <1>3, <1>4 DEF EntriesSet, LeftMostSet, Only
<1>6. Tree(jx, n, rk) /\ KeySet(jx, cx, n, P, k, key) /\ NewKey(jx, cx, P, k, key)
  <2>1. k \in 1 .. Num(cx, P)
    BY <1>0, <1>5 DEF Num
  <2> QED
    BY <1>0, <1>2, <1>4, <2>1, KeyIsNew
<1>7. jx.node[X].entries = s /\ jx.node[Y].entries = t
  <2>1. CASE L = X
    BY <1>0, <1>1, <1>3, <1>4, <1>6, <2>1 DEF EntriesSet, LeftMostSet, KeySet, Only
  <2>2. CASE L = Y
    BY <1>0, <1>1, <1>3, <1>4, <1>6, <2>2 DEF EntriesSet, LeftMostSet, KeySet, Only
  <2> QED
    BY <2>1, <2>2
<1>8. \A q \in 1 .. n : q \notin {X, Y, P} => jx.node[q] = ix.node[q]
  BY <1>1, <1>3, <1>4, <1>6 DEF EntriesSet, LeftMostSet, KeySet, Only
<1>9. ASSUME NEW q \in 1 .. n
      PROVE  /\ jx.node[q].leftMost = IF q = L THEN c ELSE ix.node[q].leftMost
             /\ Par(jx, q) = Par(ix, q) /\ SameChain(jx, ix, q)
  <2>1. /\ ax.node[q].leftMost = ix.node[q].leftMost /\ ax.node[q].parent = ix.node[q].parent
        /\ ax.node[q].next = ix.node[q].next /\ ax.node[q].prev = ix.node[q].prev
    BY <1>1 DEF EntriesSet, Only
  <2>2. /\ bx.node[q].leftMost = (IF q = L THEN c ELSE ax.node[q].leftMost)
        /\ bx.node[q].parent = ax.node[q].parent
        /\ bx.node[q].next = ax.node[q].next /\ bx.node[q].prev = ax.node[q].prev
    BY <1>3 DEF LeftMostSet, Only
  <2>3. /\ cx.node[q].leftMost = bx.node[q].leftMost /\ cx.node[q].parent = bx.node[q].parent
        /\ cx.node[q].next = bx.node[q].next /\ cx.node[q].prev = bx.node[q].prev
    BY <1>4 DEF EntriesSet, Only
  <2>4. /\ jx.node[q].leftMost = cx.node[q].leftMost /\ jx.node[q].parent = cx.node[q].parent
        /\ jx.node[q].next = cx.node[q].next /\ jx.node[q].prev = cx.node[q].prev
    BY <1>6 DEF KeySet, Only
  <2> QED
    BY <2>1, <2>2, <2>3, <2>4 DEF Par, SameChain
<1>10. NewKey(jx, ix, P, k, key)
  <2>1. /\ Num(cx, P) = Num(ix, P) /\ \A i : Key(cx, P, i) = Key(ix, P, i)
        /\ \A i : Kid(cx, P, i) = Kid(ix, P, i)
    BY <1>5 DEF Num, Key, Kid
  <2> QED
    BY <1>6, <2>1 DEF NewKey, SameKids
<1>11. jx.pins = ix.pins /\ jx.info = ix.info
  BY <1>1, <1>3, <1>4, <1>6 DEF EntriesSet, LeftMostSet, KeySet, Only
<1> QED
  BY <1>6, <1>7, <1>8, <1>9, <1>10, <1>11 DEF Regroups

\* The children and keys of a node with left-most child c and the entries s.
Holds(jx, p, c, s) ==
    /\ Num(jx, p) = Len(s) /\ Kid(jx, p, 0) = c
    /\ \A i \in 1 .. Len(s) : Kid(jx, p, i) = s[i].child /\ Key(jx, p, i) = s[i].key

LEMMA NodeHolds ==
  ASSUME NEW n, NEW rk, NEW jx, Tree(jx, n, rk), NEW p \in 1 .. n,
         NEW c, jx.node[p].leftMost = c, NEW s, jx.node[p].entries = s
  PROVE  Holds(jx, p, c, s) /\ Len(s) \in Nat
<1>1. KidsAre(jx, p)
  BY KidItems
<1>2. Num(jx, p) = Len(s) /\ \A i : Item(jx, p, i) = s[i]
  BY DEF Num, Item
<1>3. \A i : Key(jx, p, i) = s[i].key
  BY <1>2, KeyOfItem
<1> QED
  BY <1>1, <1>2, <1>3 DEF Holds, KidsAre

\* ... one child being told its new parent.
ToldRegroup(jx, ix, n, X, s, L, c, Y, t, P, k, key, moved) ==
    /\ NewKey(jx, ix, P, k, key)
    /\ Holds(jx, X, IF X = L THEN c ELSE ix.node[X].leftMost, s)
    /\ Holds(jx, Y, IF Y = L THEN c ELSE ix.node[Y].leftMost, t)
    /\ \A q \in 1 .. n : q \notin {X, Y, P} =>
          jx.node[q].entries = ix.node[q].entries /\ jx.node[q].leftMost = ix.node[q].leftMost
    /\ \A q \in 1 .. n : Par(jx, q) = IF q = moved THEN X ELSE Par(ix, q)
    /\ \A q \in 1 .. n : SameChain(jx, ix, q)
    /\ jx.pins = ix.pins /\ jx.info = ix.info

LEMMA RegroupTold ==
  ASSUME NEW n, NEW rk, NEW ix, Tree(ix, n, rk), NEW X, NEW Y, NEW P, NEW k, Partners(ix, n, rk, X, Y, P, k),
         NEW s \in Lists(Ents(n, rk, rk[X])), NEW t \in Lists(Ents(n, rk, rk[X])),
         NEW L \in {X, Y}, NEW c \in Below(n, rk, rk[X]), NEW key \in Keys,
         NEW moved \in Below(n, rk, rk[X]),
         NEW jx, jx = SetChildrenParent(Regroup(ix, X, s, L, c, Y, t, P, k, key), <<moved>>, X)
  PROVE  Tree(jx, n, rk) /\ ToldRegroup(jx, ix, n, X, s, L, c, Y, t, P, k, key, moved)
<1> DEFINE gx == Regroup(ix, X, s, L, c, Y, t, P, k, key)
           told == <<moved>>
<1>0. /\ X \in 1 .. n /\ Y \in 1 .. n /\ P \in 1 .. n /\ X # Y /\ P # X /\ P # Y
  BY DEF Partners
<1>1. gx = Regroup(ix, X, s, L, c, Y, t, P, k, key) /\ jx = SetChildrenParent(gx, told, X)
  OBVIOUS
<1>2. told \in Seq(Below(n, rk, rk[X])) /\ Len(told) = 1 /\ told[1] = moved
  OBVIOUS
<1> HIDE DEF gx, told
<1>3. Tree(gx, n, rk) /\ Regroups(gx, ix, n, X, s, L, c, Y, t, P, k, key)
  BY <1>1, RegroupIs
<1>4. Tree(jx, n, rk) /\ Told(jx, gx, n, told, X)
  BY <1>0, <1>1, <1>2, <1>3, ToldParents
<1>5. \A q \in 1 .. n : SameBody(jx, gx, q)
  BY <1>4 DEF Told
<1>6. \A q \in 1 .. n : Par(jx, q) = IF q = moved THEN X ELSE Par(ix, q)
  <2>1. Par(jx, moved) = X
    BY <1>2, <1>4 DEF Told
  <2>2. ASSUME NEW q \in 1 .. n, q # moved PROVE Par(jx, q) = Par(gx, q)
    <3>1. \A i \in 1 .. Len(told) : told[i] # q
      BY <1>2, <2>2
    <3> QED
      BY <1>4, <3>1 DEF Told
  <2> QED
    BY <1>3, <2>1, <2>2 DEF Regroups
<1>7. /\ jx.node[X].entries = s /\ jx.node[Y].entries = t
      /\ \A q \in 1 .. n : jx.node[q].leftMost = IF q = L THEN c ELSE ix.node[q].leftMost
      /\ \A q \in 1 .. n : SameChain(jx, ix, q)
      /\ \A q \in 1 .. n : q \notin {X, Y, P} =>
            jx.node[q].entries = ix.node[q].entries /\ jx.node[q].leftMost = ix.node[q].leftMost
      /\ jx.pins = ix.pins /\ jx.info = ix.info
  <2>1. jx.node[X].entries = s /\ jx.node[Y].entries = t
    BY <1>0, <1>3, <1>5 DEF Regroups, SameBody
  <2>2. /\ \A q \in 1 .. n : jx.node[q].leftMost = IF q = L THEN c ELSE ix.node[q].leftMost
        /\ \A q \in 1 .. n : SameChain(jx, ix, q)
    BY <1>3, <1>5 DEF Regroups, SameBody, SameChain
  <2>3. ASSUME NEW q \in 1 .. n, q \notin {X, Y, P}
        PROVE  jx.node[q].entries = ix.node[q].entries /\ jx.node[q].leftMost = ix.node[q].leftMost
    <3>1. gx.node[q] = ix.node[q]
      BY <1>3, <2>3 DEF Regroups
    <3> QED
      BY <1>5, <3>1 DEF SameBody
  <2>4. jx.pins = ix.pins /\ jx.info = ix.info
    BY <1>3, <1>4 DEF Regroups, Told
  <2> QED
    BY <2>1, <2>2, <2>3, <2>4
<1>8. NewKey(jx, ix, P, k, key)
  <2>1. NewKey(gx, ix, P, k, key)
    BY <1>3 DEF Regroups
  <2>2. /\ Num(jx, P) = Num(gx, P) /\ SameKids(jx, gx, P)
        /\ \A i \in 1 .. Num(gx, P) : Key(jx, P, i) = Key(gx, P, i)
    BY <1>0, <1>5, SameBodyMeans
  <2> QED
    BY <2>1, <2>2 DEF NewKey, SameKids
<1>9. Holds(jx, X, IF X = L THEN c ELSE ix.node[X].leftMost, s)
  <2> DEFINE cX == IF X = L THEN c ELSE ix.node[X].leftMost
  <2>1. jx.node[X].leftMost = cX /\ jx.node[X].entries = s
    BY <1>0, <1>7
  <2> HIDE DEF cX
  <2>2. Holds(jx, X, cX, s)
    BY <1>0, <1>4, <2>1, NodeHolds
  <2> QED
    BY <2>2 DEF cX
<1>10. Holds(jx, Y, IF Y = L THEN c ELSE ix.node[Y].leftMost, t)
  <2> DEFINE cY == IF Y = L THEN c ELSE ix.node[Y].leftMost
  <2>1. jx.node[Y].leftMost = cY /\ jx.node[Y].entries = t
    BY <1>0, <1>7
  <2> HIDE DEF cY
  <2>2. Holds(jx, Y, cY, t)
    BY <1>0, <1>4, <2>1, NodeHolds
  <2> QED
    BY <2>2 DEF cY
<1> QED
  BY <1>4, <1>6, <1>7, <1>8, <1>9, <1>10 DEF ToldRegroup

-----------------------------------------------------------------------------
\* The rows that result when a child goes through the parent: e leaves one node, x, with the key
\* from the parent, comes to the other.
GoesRight(S, ix, jx, A, D, sep, give, have, e, t, x, s, keep) ==
    /\ Num(ix, A) \in Nat \ {0} /\ Num(ix, D) \in Nat
    /\ Holds(ix, A, ix.node[A].leftMost, give) /\ Holds(ix, D, ix.node[D].leftMost, have)
    /\ GivesLast(S, give, e, t) /\ GetsFirst(S, have, x, s)
    /\ x.child = ix.node[D].leftMost /\ x.key = sep
    /\ Holds(jx, A, ix.node[A].leftMost, t) /\ Holds(jx, D, e.child, s)
    /\ keep = Num(ix, A) - 1
GoesLeft(S, ix, jx, A, D, sep, give, have, e, t, x, s, keep) ==
    /\ Num(ix, A) \in Nat /\ Num(ix, D) \in Nat \ {0}
    /\ Holds(ix, A, ix.node[A].leftMost, have) /\ Holds(ix, D, ix.node[D].leftMost, give)
    /\ GivesHead(S, give, e, t) /\ GetsLast(S, have, x, s)
    /\ x.child = ix.node[D].leftMost /\ x.key = sep
    /\ Holds(jx, A, ix.node[A].leftMost, s) /\ Holds(jx, D, e.child, t)
    /\ keep = Num(ix, A) + 1

LEMMA RowLeft ==
  ASSUME NEW S, NEW ix, NEW jx, NEW A, NEW D, NEW sep, NEW give, NEW have, NEW e, NEW t, NEW x, NEW s,
         NEW keep, GoesRight(S, ix, jx, A, D, sep, give, have, e, t, x, s, keep)
  PROVE  /\ RowDivided(jx, ix, A, sep, D, keep) /\ e.child = Kid(ix, A, Num(ix, A))
         /\ BorderIs(ix, A, sep, D, keep, e.key)
<1> DEFINE a == Num(ix, A)
           d == Num(ix, D)
<1>0. /\ a \in Nat \ {0} /\ d \in Nat /\ a = Num(ix, A) /\ d = Num(ix, D)
      /\ Holds(ix, A, ix.node[A].leftMost, give) /\ Holds(ix, D, ix.node[D].leftMost, have)
      /\ GivesLast(S, give, e, t) /\ GetsFirst(S, have, x, s)
      /\ x.child = ix.node[D].leftMost /\ x.key = sep
      /\ Holds(jx, A, ix.node[A].leftMost, t) /\ Holds(jx, D, e.child, s)
      /\ keep = a - 1
  BY DEF GoesRight
<1> HIDE DEF a, d
<1>1. /\ a = Len(give) /\ d = Len(have) /\ e = give[a]
      /\ Kid(ix, A, 0) = ix.node[A].leftMost /\ Kid(ix, D, 0) = ix.node[D].leftMost
      /\ \A i \in 1 .. a : Kid(ix, A, i) = give[i].child /\ Key(ix, A, i) = give[i].key
      /\ \A i \in 1 .. d : Kid(ix, D, i) = have[i].child /\ Key(ix, D, i) = have[i].key
  BY <1>0 DEF Holds, GivesLast
<1>2. /\ Len(t) = keep /\ \A i \in 1 .. keep : t[i] = give[i]
      /\ Len(s) = d + 1 /\ s[1] = x /\ \A i \in 1 .. d : s[i + 1] = have[i]
  BY <1>0, <1>1 DEF GivesLast, GetsFirst
<1>3. /\ Num(jx, A) = keep /\ Kid(jx, A, 0) = ix.node[A].leftMost
      /\ \A i \in 1 .. keep : Kid(jx, A, i) = t[i].child /\ Key(jx, A, i) = t[i].key
      /\ Num(jx, D) = d + 1 /\ Kid(jx, D, 0) = e.child
      /\ \A i \in 1 .. d + 1 : Kid(jx, D, i) = s[i].child /\ Key(jx, D, i) = s[i].key
  BY <1>0, <1>2 DEF Holds
<1>4. ASSUME NEW i \in 0 .. keep PROVE Kid(jx, A, i) = RowKid(ix, A, D, i)
  <2>1. i <= a /\ (i = 0 \/ (i \in 1 .. keep /\ i \in 1 .. a))
    BY <1>0
  <2> QED
    BY <1>0, <1>1, <1>2, <1>3, <2>1 DEF RowKid
<1>5. ASSUME NEW i \in 1 .. keep PROVE Key(jx, A, i) = RowKey(ix, A, sep, D, i)
  <2>1. i <= a /\ i \in 1 .. a
    BY <1>0
  <2> QED
    BY <1>0, <1>1, <1>2, <1>3, <2>1 DEF RowKey
<1>6. ASSUME NEW i \in 0 .. d + 1 PROVE Kid(jx, D, i) = RowKid(ix, A, D, keep + 1 + i)
  <2>0. keep + 1 + i = a + i
    BY <1>0
  <2>1. CASE i = 0
    <3>1. a + i = a /\ a <= a /\ a \in 1 .. a
      BY <1>0, <2>1
    <3> QED
      BY <1>0, <1>1, <1>3, <2>0, <2>1, <3>1 DEF RowKid
  <2>2. CASE i = 1
    <3>1. ~(a + i <= a) /\ a + i - a - 1 = 0
      BY <1>0, <2>2
    <3> QED
      BY <1>0, <1>1, <1>2, <1>3, <2>0, <2>2, <3>1 DEF RowKid
  <2>3. CASE i \notin {0, 1}
    <3>1. ~(a + i <= a) /\ a + i - a - 1 = i - 1 /\ i - 1 \in 1 .. d /\ (i - 1) + 1 = i /\ i \in 1 .. d + 1
      BY <1>0, <2>3
    <3>2. s[i] = have[i - 1]
      BY <1>0, <1>2, <3>1
    <3> QED
      BY <1>0, <1>1, <1>3, <2>0, <3>1, <3>2 DEF RowKid
  <2> QED
    BY <1>0, <2>1, <2>2, <2>3
<1>7. ASSUME NEW i \in 1 .. d + 1 PROVE Key(jx, D, i) = RowKey(ix, A, sep, D, keep + 1 + i)
  <2>0. keep + 1 + i = a + i
    BY <1>0
  <2>2. CASE i = 1
    <3>1. ~(a + i <= a) /\ a + i = a + 1
      BY <1>0, <2>2
    <3> QED
      BY <1>0, <1>1, <1>2, <1>3, <2>0, <2>2, <3>1 DEF RowKey
  <2>3. CASE i # 1
    <3>1. /\ ~(a + i <= a) /\ a + i - a - 1 = i - 1 /\ i - 1 \in 1 .. d /\ (i - 1) + 1 = i
          /\ a + i # a + 1
      BY <1>0, <2>3
    <3>2. s[i] = have[i - 1]
      BY <1>0, <1>2, <3>1
    <3> QED
      BY <1>0, <1>1, <1>3, <2>0, <3>1, <3>2 DEF RowKey
  <2> QED
    BY <1>0, <2>2, <2>3
<1>8. e.child = Kid(ix, A, a) /\ BorderIs(ix, A, sep, D, keep, e.key)
  <2>1. keep + 1 = a /\ a <= a /\ a \in 1 .. a
    BY <1>0
  <2> QED
    BY <1>0, <1>1, <2>1 DEF RowKey, BorderIs
<1>9. keep \in Nat /\ keep <= a + d /\ a + d - keep = d + 1
  BY <1>0
<1>10. RowDivided(jx, ix, A, sep, D, keep)
  BY <1>0, <1>3, <1>4, <1>5, <1>6, <1>7, <1>9 DEF RowDivided
<1> QED
  BY <1>0, <1>8, <1>10

LEMMA RowRight ==
  ASSUME NEW S, NEW ix, NEW jx, NEW A, NEW D, NEW sep, NEW give, NEW have, NEW e, NEW t, NEW x, NEW s,
         NEW keep, GoesLeft(S, ix, jx, A, D, sep, give, have, e, t, x, s, keep)
  PROVE  /\ RowDivided(jx, ix, A, sep, D, keep) /\ BorderIs(ix, A, sep, D, keep, e.key)
<1> DEFINE a == Num(ix, A)
           d == Num(ix, D)
<1>0. /\ a \in Nat /\ d \in Nat \ {0} /\ a = Num(ix, A) /\ d = Num(ix, D)
      /\ Holds(ix, A, ix.node[A].leftMost, have) /\ Holds(ix, D, ix.node[D].leftMost, give)
      /\ GivesHead(S, give, e, t) /\ GetsLast(S, have, x, s)
      /\ x.child = ix.node[D].leftMost /\ x.key = sep
      /\ Holds(jx, A, ix.node[A].leftMost, s) /\ Holds(jx, D, e.child, t)
      /\ keep = a + 1
  BY DEF GoesLeft
<1> HIDE DEF a, d
<1>1. /\ a = Len(have) /\ d = Len(give) /\ e = give[1]
      /\ Kid(ix, A, 0) = ix.node[A].leftMost /\ Kid(ix, D, 0) = ix.node[D].leftMost
      /\ \A i \in 1 .. a : Kid(ix, A, i) = have[i].child /\ Key(ix, A, i) = have[i].key
      /\ \A i \in 1 .. d : Kid(ix, D, i) = give[i].child /\ Key(ix, D, i) = give[i].key
  BY <1>0 DEF Holds, GivesHead
<1>2. /\ Len(t) = d - 1 /\ \A i \in 1 .. d - 1 : t[i] = give[i + 1]
      /\ Len(s) = keep /\ s[keep] = x /\ \A i \in 1 .. a : s[i] = have[i]
  BY <1>0, <1>1 DEF GivesHead, GetsLast
<1>3. /\ Num(jx, A) = keep /\ Kid(jx, A, 0) = ix.node[A].leftMost
      /\ \A i \in 1 .. keep : Kid(jx, A, i) = s[i].child /\ Key(jx, A, i) = s[i].key
      /\ Num(jx, D) = d - 1 /\ Kid(jx, D, 0) = e.child
      /\ \A i \in 1 .. d - 1 : Kid(jx, D, i) = t[i].child /\ Key(jx, D, i) = t[i].key
  BY <1>0, <1>2 DEF Holds
<1>4. ASSUME NEW i \in 0 .. keep PROVE Kid(jx, A, i) = RowKid(ix, A, D, i)
  <2>1. CASE i = keep
    <3>1. ~(i <= a) /\ i - a - 1 = 0 /\ i \in 1 .. keep
      BY <1>0, <2>1
    <3> QED
      BY <1>0, <1>1, <1>2, <1>3, <2>1, <3>1 DEF RowKid
  <2>2. CASE i # keep
    <3>1. i <= a /\ (i = 0 \/ (i \in 1 .. keep /\ i \in 1 .. a))
      BY <1>0, <2>2
    <3> QED
      BY <1>0, <1>1, <1>2, <1>3, <3>1 DEF RowKid
  <2> QED
    BY <1>0, <2>1, <2>2
<1>5. ASSUME NEW i \in 1 .. keep PROVE Key(jx, A, i) = RowKey(ix, A, sep, D, i)
  <2>1. CASE i = keep
    <3>1. ~(i <= a) /\ i = a + 1
      BY <1>0, <2>1
    <3> QED
      BY <1>0, <1>1, <1>2, <1>3, <2>1, <3>1 DEF RowKey
  <2>2. CASE i # keep
    <3>1. i <= a /\ i \in 1 .. a
      BY <1>0, <2>2
    <3> QED
      BY <1>0, <1>1, <1>2, <1>3, <3>1 DEF RowKey
  <2> QED
    BY <1>0, <2>1, <2>2
<1>6. ASSUME NEW i \in 0 .. d - 1 PROVE Kid(jx, D, i) = RowKid(ix, A, D, keep + 1 + i)
  <2>0. ~(keep + 1 + i <= a) /\ keep + 1 + i - a - 1 = i + 1 /\ i + 1 \in 1 .. d
    BY <1>0
  <2>1. RowKid(ix, A, D, keep + 1 + i) = Kid(ix, D, i + 1)
    BY <1>0, <2>0 DEF RowKid
  <2>2. CASE i = 0
    BY <1>0, <1>1, <1>3, <2>0, <2>1, <2>2
  <2>3. CASE i # 0
    <3>1. i \in 1 .. d - 1
      BY <1>0, <2>3
    <3> QED
      BY <1>0, <1>1, <1>2, <1>3, <2>0, <2>1, <3>1
  <2> QED
    BY <1>0, <2>2, <2>3
<1>7. ASSUME NEW i \in 1 .. d - 1 PROVE Key(jx, D, i) = RowKey(ix, A, sep, D, keep + 1 + i)
  <2>0. ~(keep + 1 + i <= a) /\ keep + 1 + i - a - 1 = i + 1 /\ i + 1 \in 1 .. d
        /\ keep + 1 + i # a + 1
    BY <1>0
  <2>1. RowKey(ix, A, sep, D, keep + 1 + i) = Key(ix, D, i + 1)
    BY <1>0, <2>0 DEF RowKey
  <2> QED
    BY SMTT(40), <1>0, <1>1, <1>2, <1>3, <2>0, <2>1
<1>8. BorderIs(ix, A, sep, D, keep, e.key)
  <2>1. ~(keep + 1 <= a) /\ keep + 1 # a + 1 /\ keep + 1 - a - 1 = 1 /\ 1 \in 1 .. d
    BY <1>0
  <2> QED
    BY <1>0, <1>1, <2>1 DEF RowKey, BorderIs
<1>9. keep \in Nat /\ keep <= a + d /\ a + d - keep = d - 1
  BY <1>0
<1>10. RowDivided(jx, ix, A, sep, D, keep)
  BY <1>0, <1>3, <1>4, <1>5, <1>6, <1>7, <1>9 DEF RowDivided
<1> QED
  BY <1>0, <1>8, <1>10

-----------------------------------------------------------------------------
\* The entry that goes down from the parent.
DownEntry(ix, P, k, D) == [key |-> ix.node[P].entries[k].key, child |-> ix.node[D].leftMost]

LEMMA DownFits ==
  ASSUME NEW n, NEW rk, NEW ix, Tree(ix, n, rk), NEW P \in 1 .. n, NEW D \in 1 .. n, rk[D] # 0,
         NEW k \in 1 .. Num(ix, P), NEW x, x = DownEntry(ix, P, k, D)
  PROVE  x \in Ents(n, rk, rk[D]) /\ x.child = ix.node[D].leftMost /\ x.key = Key(ix, P, k)
<1>1. ix.node[P].entries[k].key \in Keys
  <2>1. k \in 1 .. Len(ix.node[P].entries)
    BY DEF Num
  <2> QED
    BY <2>1, SeparatorKey
<1>2. ix.node[D].leftMost \in Below(n, rk, rk[D])
  BY PageFields
<1> DEFINE sep == ix.node[P].entries[k].key
           c == ix.node[D].leftMost
<1>3. x = [key |-> sep, child |-> c] /\ sep = Key(ix, P, k) /\ c = ix.node[D].leftMost
  BY DEF DownEntry, Key
<1>4. sep \in Keys /\ c \in Below(n, rk, rk[D])
  BY <1>1, <1>2
<1> HIDE DEF sep, c
<1>5. x \in Ents(n, rk, rk[D])
  BY <1>3, <1>4, EntryOf
<1> QED
  BY <1>3, <1>5

LEMMA NodeHeld ==
  ASSUME NEW n, NEW rk, NEW ix, Tree(ix, n, rk), NEW p \in 1 .. n, NEW s, s = ix.node[p].entries
  PROVE  Holds(ix, p, ix.node[p].leftMost, s)
<1> DEFINE c == ix.node[p].leftMost
<1>1. ix.node[p].leftMost = c /\ ix.node[p].entries = s
  OBVIOUS
<1> HIDE DEF c
<1>2. Holds(ix, p, c, s)
  BY <1>1, NodeHolds
<1> QED
  BY <1>2 DEF c

LEMMA BorrowInternalLeftIs ==
  ASSUME NEW n, NEW rk, NEW ix, Tree(ix, n, rk), NEW A, NEW D, NEW P, NEW k,
         Borrows(ix, n, rk, D, A, P, k), rk[A] # 0,
         NEW keep, keep = Num(ix, A) - 1, NEW moved, moved = Kid(ix, A, Num(ix, A)),
         NEW jx, jx = BorrowInternalLeft(ix, D, A, P, k)
  PROVE  /\ Tree(jx, n, rk) /\ Regrouped(jx, ix, n, P, k, A, D, keep, moved, D)
         /\ Crosses(ix, A, D, keep, moved, D)
         /\ jx.pins = ix.pins /\ jx.info = ix.info
<1> DEFINE give == ix.node[A].entries
           have == ix.node[D].entries
           e == Last(give)
           t == Front(give)
           x == DownEntry(ix, P, k, D)
           s == <<x>> \o have
           a == Num(ix, A)
           d == Num(ix, D)
           sep == Key(ix, P, k)
<1>1. /\ A \in 1 .. n /\ D \in 1 .. n /\ P \in 1 .. n /\ D # A /\ P # D /\ P # A /\ rk[P] # 0
      /\ k \in 1 .. Num(ix, P) /\ rk[D] = rk[A]
  BY DEF Borrows
<1>2. /\ give \in Lists(Ents(n, rk, rk[D])) /\ have \in Lists(Ents(n, rk, rk[D]))
      /\ Len(have) < MinKeys /\ Len(give) # 0 /\ a \in Nat /\ d \in Nat /\ a >= 2
  BY SMTT(40), <1>1, BorrowsNumbers
<1>3. jx = SetChildrenParent(Regroup(ix, D, s, D, e.child, A, t, P, k, e.key), <<e.child>>, D)
  BY DEF BorrowInternalLeft, Regroup, WithKey, WithEntries, WithLeftMost, DownEntry
<1>4. e = Last(give) /\ t = Front(give) /\ s = <<x>> \o have /\ x = DownEntry(ix, P, k, D)
      /\ give = ix.node[A].entries /\ have = ix.node[D].entries /\ a = Num(ix, A) /\ d = Num(ix, D)
      /\ sep = Key(ix, P, k)
  OBVIOUS
<1> HIDE DEF give, have, e, t, x, s, a, d, sep
<1>5. x \in Ents(n, rk, rk[D]) /\ x.child = ix.node[D].leftMost /\ x.key = sep
  <2>1. rk[D] # 0
    BY <1>1
  <2> QED
    BY <1>1, <1>4, <2>1, DownFits
<1>6. GivesLast(Ents(n, rk, rk[D]), give, e, t)
  <2>1. IsLast(give, e, t)
    BY <1>4 DEF IsLast
  <2> QED
    BY <1>2, <2>1, LastFrontItems
<1>7. GetsFirst(Ents(n, rk, rk[D]), have, x, s)
  BY <1>2, <1>4, <1>5, FirstItems
<1>8. e.key \in Keys /\ e.child \in Below(n, rk, rk[D])
  <2>1. n \in Nat /\ e \in Ents(n, rk, rk[D]) /\ rk[D] # 0
    BY <1>1, <1>6 DEF GivesLast, Tree
  <2> QED
    BY <2>1, EntryFields
<1> DEFINE c == e.child
           key == e.key
<1>9. /\ c = e.child /\ key = e.key
      /\ jx = SetChildrenParent(Regroup(ix, D, s, D, c, A, t, P, k, key), <<c>>, D)
      /\ key \in Keys /\ c \in Below(n, rk, rk[D])
  BY <1>3, <1>8
<1> HIDE DEF c, key
<1>10. /\ Tree(jx, n, rk) /\ NewKey(jx, ix, P, k, key)
       /\ Holds(jx, D, c, s) /\ Holds(jx, A, ix.node[A].leftMost, t)
       /\ \A q \in 1 .. n : q \notin {D, A, P} =>
               jx.node[q].entries = ix.node[q].entries /\ jx.node[q].leftMost = ix.node[q].leftMost
       /\ \A q \in 1 .. n : Par(jx, q) = IF q = c THEN D ELSE Par(ix, q)
       /\ \A q \in 1 .. n : SameChain(jx, ix, q)
       /\ jx.pins = ix.pins /\ jx.info = ix.info
  <2>1. Partners(ix, n, rk, D, A, P, k)
    BY <1>1 DEF Partners
  <2>2. s \in Lists(Ents(n, rk, rk[D])) /\ t \in Lists(Ents(n, rk, rk[D]))
    BY <1>6, <1>7 DEF GivesLast, GetsFirst
  <2> DEFINE L == D
  <2>3. jx = SetChildrenParent(Regroup(ix, D, s, L, c, A, t, P, k, key), <<c>>, D) /\ L \in {D, A} /\ L = D
    BY <1>9
  <2> HIDE DEF L
  <2>4. Tree(jx, n, rk) /\ ToldRegroup(jx, ix, n, D, s, L, c, A, t, P, k, key, c)
    BY <1>9, <2>1, <2>2, <2>3, RegroupTold
  <2> QED
    BY <1>1, <2>3, <2>4 DEF ToldRegroup
<1>11. RowDivided(jx, ix, A, sep, D, keep) /\ c = moved /\ key = RowKey(ix, A, sep, D, keep + 1)
  <2>1. Holds(ix, A, ix.node[A].leftMost, give) /\ Holds(ix, D, ix.node[D].leftMost, have)
    BY <1>1, <1>4, NodeHeld
  <2>2. Holds(jx, A, ix.node[A].leftMost, t) /\ Holds(jx, D, e.child, s)
    BY <1>9, <1>10
  <2>3. GoesRight(Ents(n, rk, rk[D]), ix, jx, A, D, sep, give, have, e, t, x, s, keep)
    BY <1>2, <1>4, <1>5, <1>6, <1>7, <2>1, <2>2 DEF GoesRight
  <2>4. /\ RowDivided(jx, ix, A, sep, D, keep) /\ e.child = Kid(ix, A, Num(ix, A))
        /\ BorderIs(ix, A, sep, D, keep, e.key)
    BY <2>3, RowLeft
  <2> QED
    BY <1>4, <1>9, <2>4 DEF BorderIs
<1>12. \A q \in 1 .. n : q \notin {A, D, P} =>
          jx.node[q].entries = ix.node[q].entries /\ jx.node[q].leftMost = ix.node[q].leftMost
  BY <1>10
<1>13. Crosses(ix, A, D, keep, moved, D)
  BY <1>2, <1>4 DEF Crosses
<1>14. Regrouped(jx, ix, n, P, k, A, D, keep, moved, D)
  BY <1>4, <1>10, <1>11, <1>12 DEF Regrouped
<1> QED
  BY <1>10, <1>13, <1>14

LEMMA BorrowInternalRightIs ==
  ASSUME NEW n, NEW rk, NEW ix, Tree(ix, n, rk), NEW A, NEW D, NEW P, NEW k,
         Borrows(ix, n, rk, A, D, P, k), rk[A] # 0,
         NEW keep, keep = Num(ix, A) + 1, NEW moved, moved = Kid(ix, D, 0),
         NEW jx, jx = BorrowInternalRight(ix, A, D, P, k)
  PROVE  /\ Tree(jx, n, rk) /\ Regrouped(jx, ix, n, P, k, A, D, keep, moved, A)
         /\ Crosses(ix, A, D, keep, moved, A)
         /\ jx.pins = ix.pins /\ jx.info = ix.info
<1> DEFINE give == ix.node[D].entries
           have == ix.node[A].entries
           e == Head(give)
           t == Tail(give)
           x == DownEntry(ix, P, k, D)
           s == Append(have, x)
           a == Num(ix, A)
           d == Num(ix, D)
           sep == Key(ix, P, k)
           c == ix.node[D].leftMost
<1>1. /\ A \in 1 .. n /\ D \in 1 .. n /\ P \in 1 .. n /\ A # D /\ P # D /\ P # A /\ rk[P] # 0
      /\ k \in 1 .. Num(ix, P) /\ rk[D] = rk[A]
  BY DEF Borrows
<1>2. /\ give \in Lists(Ents(n, rk, rk[A])) /\ have \in Lists(Ents(n, rk, rk[A]))
      /\ Len(have) < MinKeys /\ Len(give) # 0 /\ a \in Nat /\ d \in Nat /\ d >= 2
  BY SMTT(40), <1>1, BorrowsNumbers
<1>3. jx = SetChildrenParent(Regroup(ix, A, s, D, e.child, D, t, P, k, e.key), <<c>>, A)
  BY DEF BorrowInternalRight, Regroup, WithKey, WithEntries, WithLeftMost, DownEntry
<1>4. e = Head(give) /\ t = Tail(give) /\ s = Append(have, x) /\ x = DownEntry(ix, P, k, D)
      /\ give = ix.node[D].entries /\ have = ix.node[A].entries /\ a = Num(ix, A) /\ d = Num(ix, D)
      /\ sep = Key(ix, P, k) /\ c = ix.node[D].leftMost
  OBVIOUS
<1> HIDE DEF give, have, e, t, x, s, a, d, sep, c
<1>5. x \in Ents(n, rk, rk[A]) /\ x.child = ix.node[D].leftMost /\ x.key = sep
  <2>1. rk[D] # 0
    BY <1>1
  <2>2. x \in Ents(n, rk, rk[D]) /\ x.child = ix.node[D].leftMost /\ x.key = sep
    BY <1>1, <1>4, <2>1, DownFits
  <2> QED
    BY <1>1, <2>2
<1>6. GivesHead(Ents(n, rk, rk[A]), give, e, t)
  <2>1. IsHead(give, e, t)
    BY <1>4 DEF IsHead
  <2> QED
    BY <1>2, <2>1, HeadTailItems
<1>7. GetsLast(Ents(n, rk, rk[A]), have, x, s)
  BY <1>2, <1>4, <1>5, LastItems
<1>8. e.key \in Keys /\ e.child \in Below(n, rk, rk[A])
  <2>1. n \in Nat /\ e \in Ents(n, rk, rk[A])
    BY <1>1, <1>6 DEF GivesHead, Tree
  <2> QED
    BY <2>1, EntryFields
<1>9. c \in Below(n, rk, rk[A]) /\ c = moved
  <2>1. ix.node[D].leftMost \in Below(n, rk, rk[D])
    BY <1>1, PageFields
  <2>2. Kid(ix, D, 0) = ix.node[D].leftMost
    BY <1>1, KidItems DEF KidsAre
  <2> QED
    BY <1>1, <1>4, <2>1, <2>2
<1> DEFINE b == e.child
           key == e.key
<1>10. /\ b = e.child /\ key = e.key
       /\ jx = SetChildrenParent(Regroup(ix, A, s, D, b, D, t, P, k, key), <<moved>>, A)
       /\ key \in Keys /\ b \in Below(n, rk, rk[A]) /\ moved \in Below(n, rk, rk[A])
  BY <1>3, <1>8, <1>9
<1> HIDE DEF b, key
<1>11. /\ Tree(jx, n, rk) /\ NewKey(jx, ix, P, k, key)
       /\ Holds(jx, D, b, t) /\ Holds(jx, A, ix.node[A].leftMost, s)
       /\ \A q \in 1 .. n : q \notin {A, D, P} =>
               jx.node[q].entries = ix.node[q].entries /\ jx.node[q].leftMost = ix.node[q].leftMost
       /\ \A q \in 1 .. n : Par(jx, q) = IF q = moved THEN A ELSE Par(ix, q)
       /\ \A q \in 1 .. n : SameChain(jx, ix, q)
       /\ jx.pins = ix.pins /\ jx.info = ix.info
  <2>1. Partners(ix, n, rk, A, D, P, k)
    BY <1>1 DEF Partners
  <2>2. s \in Lists(Ents(n, rk, rk[A])) /\ t \in Lists(Ents(n, rk, rk[A]))
    BY <1>6, <1>7 DEF GivesHead, GetsLast
  <2> DEFINE L == D
  <2>3. jx = SetChildrenParent(Regroup(ix, A, s, L, b, D, t, P, k, key), <<moved>>, A) /\ L \in {A, D} /\ L = D
    BY <1>10
  <2> HIDE DEF L
  <2>4. Tree(jx, n, rk) /\ ToldRegroup(jx, ix, n, A, s, L, b, D, t, P, k, key, moved)
    BY SMTT(40), <1>10, <2>1, <2>2, <2>3, RegroupTold
  <2> QED
    BY <1>1, <2>3, <2>4 DEF ToldRegroup
<1>12. RowDivided(jx, ix, A, sep, D, keep) /\ key = RowKey(ix, A, sep, D, keep + 1)
  <2>1. Holds(ix, A, ix.node[A].leftMost, have) /\ Holds(ix, D, ix.node[D].leftMost, give)
    BY <1>1, <1>4, NodeHeld
  <2>2. Holds(jx, A, ix.node[A].leftMost, s) /\ Holds(jx, D, e.child, t)
    BY <1>10, <1>11
  <2>3. GoesLeft(Ents(n, rk, rk[A]), ix, jx, A, D, sep, give, have, e, t, x, s, keep)
    BY <1>2, <1>4, <1>5, <1>6, <1>7, <2>1, <2>2 DEF GoesLeft
  <2>4. RowDivided(jx, ix, A, sep, D, keep) /\ BorderIs(ix, A, sep, D, keep, e.key)
    BY <2>3, RowRight
  <2> QED
    BY <1>10, <2>4 DEF BorderIs
<1>13. Crosses(ix, A, D, keep, moved, A)
  BY <1>2, <1>4 DEF Crosses
<1>14. Regrouped(jx, ix, n, P, k, A, D, keep, moved, A)
  BY <1>4, <1>11, <1>12 DEF Regrouped
<1> QED
  BY <1>11, <1>13, <1>14

-----------------------------------------------------------------------------
\* Node A has the row of A and D, whose children know it, and its parent P loses D.
NodesMerged(jx, ix, n, P, k, A, D) ==
    /\ RowTaken(jx, ix, A, Key(ix, P, k), D)
    /\ LosesKey(jx, ix, P, k)
    /\ \A q \in 1 .. n : q \notin {A, P} =>
          jx.node[q].entries = ix.node[q].entries /\ jx.node[q].leftMost = ix.node[q].leftMost
    /\ \A q \in 1 .. n : SameChain(jx, ix, q)
    /\ \A i \in 0 .. Num(ix, D) : Par(jx, Kid(ix, D, i)) = A
    /\ \A q \in 1 .. n : (\A i \in 0 .. Num(ix, D) : Kid(ix, D, i) # q) => Par(jx, q) = Par(ix, q)

LEMMA RowKidsGot ==
  ASSUME NEW ix, NEW jx, NEW A, NEW D, Num(ix, A) \in Nat, Num(ix, D) \in Nat,
         NEW sep, RowTaken(jx, ix, A, sep, D)
  PROVE  GetsKids(jx, ix, A, D)
<1>1. Num(jx, A) = Num(ix, A) + 1 + Num(ix, D) /\ RowLast(ix, A, D) = Num(ix, A) + 1 + Num(ix, D)
  BY DEF RowTaken, RowLast
<1>2. \A i \in 0 .. RowLast(ix, A, D) : Kid(jx, A, i) = RowKid(ix, A, D, i)
  BY DEF RowTaken
<1> QED
  BY <1>1, <1>2 DEF GetsKids, RowKid

\* Two nodes become one.
LEMMA NodeMergeGood ==
  ASSUME NEW ix, NEW n, NEW rk, NEW T, NEW root, NEW thin, NEW whole, NEW s,
         Good(ix, n, rk, T, root, thin, whole, s), NEW jx, Tree(jx, n, rk),
         NEW P, NEW k, NEW A, NEW D, Pair(ix, rk, T, P, k, A, D), rk[A] # 0, thin \in {A, D},
         NodesMerged(jx, ix, n, P, k, A, D), NEW V, V = T \ {D}
  PROVE  Good(jx, n, rk, V, root, P, whole, s)
<1>1. /\ Tree(ix, n, rk) /\ T \subseteq 1 .. n /\ Family(ix, rk, T, root, NoPage)
      /\ Par(ix, root) = NoPage /\ root \in T /\ NoPage \notin T /\ n \in Nat
      /\ Items(ix, rk, T) = s
      /\ \A p \in T : p \in 1 .. n /\ Num(ix, p) \in Nat /\ rk[p] \in Nat /\ rk[p] <= rk[root]
  BY DEF Good, Shape, Family, Tree
<1>2. A \in T /\ D \in T /\ A # D /\ A # root /\ D # root /\ A # P /\ D # P
      /\ rk[D] = rk[A] /\ rk[P] # 0 /\ P \in T /\ k \in 1 .. Num(ix, P) /\ D = Kid(ix, P, k)
      /\ A = Kid(ix, P, k - 1) /\ rk[D] # 0
  <2>1. A \in T /\ D \in T /\ A # D /\ A # root /\ D # root /\ A # P /\ D # P /\ rk[A] = rk[D]
    BY <1>1, PairPages
  <2> QED
    BY <2>1 DEF Pair
<1> DEFINE sep == Key(ix, P, k)
           last == RowLast(ix, A, D)
<1>0. sep = Key(ix, P, k) /\ last = RowLast(ix, A, D)
  OBVIOUS
<1> HIDE DEF sep, last
<1>3. /\ RowTaken(jx, ix, A, sep, D)
      /\ LosesKey(jx, ix, P, k)
      /\ \A q \in 1 .. n : q \notin {A, P} =>
            jx.node[q].entries = ix.node[q].entries /\ jx.node[q].leftMost = ix.node[q].leftMost
      /\ \A q \in 1 .. n : SameChain(jx, ix, q)
      /\ \A i \in 0 .. Num(ix, D) : Par(jx, Kid(ix, D, i)) = A
      /\ \A q \in 1 .. n : (\A i \in 0 .. Num(ix, D) : Kid(ix, D, i) # q) => Par(jx, q) = Par(ix, q)
  BY <1>0 DEF NodesMerged
<1>4. ASSUME NEW p \in T, p \notin {A, P}
      PROVE  SameKeys(jx, ix, p) /\ SameKids(jx, ix, p) /\ Num(jx, p) = Num(ix, p)
  <2>1. jx.node[p].entries = ix.node[p].entries /\ jx.node[p].leftMost = ix.node[p].leftMost
    BY <1>1, <1>3, <1>4
  <2> QED
    BY <2>1 DEF SameKeys, SameKids, Num, Kid, Key, ChildAt
<1>5. LosesKid(jx, ix, P, k) /\ Num(jx, P) = Num(ix, P) - 1 /\ Num(jx, P) \in Nat
  <2>1. LosesKid(jx, ix, P, k)
    BY <1>3 DEF LosesKey
  <2>2. Num(jx, P) = Num(ix, P) - 1
    BY <2>1 DEF LosesKid
  <2> QED
    BY <1>1, <1>2, <2>1, <2>2
<1>6. Num(ix, A) \in Nat /\ Num(ix, D) \in Nat /\ Num(jx, A) = Num(ix, A) + Num(ix, D) + 1
  <2>1. Num(jx, A) = RowLast(ix, A, D)
    BY <1>3 DEF RowTaken
  <2> QED
    BY <1>1, <1>2, <2>1 DEF RowLast
<1>7. Shape(jx, n, rk, V, root, NoPage)
  <2>1. /\ \A p \in T : p \notin {A, P} => Num(jx, p) = Num(ix, p)
        /\ \A p \in T : rk[p] # 0 /\ p \notin {A, P} => SameKids(jx, ix, p)
    BY <1>4
  <2>2. GetsKids(jx, ix, A, D)
    BY <1>3, <1>6, RowKidsGot
  <2>3. /\ \A i \in 0 .. Num(ix, D) : Par(jx, Kid(ix, D, i)) = A
        /\ \A p \in T : (\A i \in 0 .. Num(ix, D) : Kid(ix, D, i) # p) => Par(jx, p) = Par(ix, p)
    BY <1>1, <1>3
  <2>4. Family(jx, rk, V, root, NoPage)
    BY ZenonT(60), <1>1, <1>2, <1>5, <2>1, <2>2, <2>3, AbsorbFamily
  <2>5. Par(jx, root) = NoPage
    <3>1. \A i \in 0 .. Num(ix, D) : IsChild(ix, rk, T, root, NoPage, D, Kid(ix, D, i))
      BY <1>1, <1>2 DEF Family
    <3>2. \A i \in 0 .. Num(ix, D) : Kid(ix, D, i) # root
      BY <3>1 DEF IsChild
    <3> QED
      BY <1>1, <2>3, <3>2
  <2> QED
    BY <1>1, <2>4, <2>5 DEF Shape
<1>8. MaxKeys >= 2 => Filled(jx, rk, V, root, P)
  <2>1. ASSUME MaxKeys >= 2, NEW p \in V
        PROVE  Num(jx, p) + (IF p = P THEN 1 ELSE 0) >= Need(rk, root, p)
    <3>1. \A q \in T : Num(ix, q) + (IF q = thin THEN 1 ELSE 0) >= Need(rk, root, q)
      BY <2>1 DEF Good, Filled
    <3>2. Need(rk, root, p) \in Nat /\ p \in T /\ p # D
      BY <2>1, MinKeysFits DEF Need, AtLeast
    <3>3. CASE p = A
      <4>1. Need(rk, root, A) = AtLeast(rk[A])
        BY <1>2 DEF Need
      <4>3. Num(ix, A) + (IF A = thin THEN 1 ELSE 0) >= AtLeast(rk[A])
        BY <1>2, <3>1, <4>1
      <4>4. AtLeast(rk[A]) \in Nat
        BY MinKeysFits DEF AtLeast
      <4>5. Num(ix, A) + Num(ix, D) + 1 >= AtLeast(rk[A])
        BY <1>6, <4>3, <4>4
      <4>6. (IF p = P THEN 1 ELSE 0) = 0
        BY <1>2, <3>3
      <4> QED
        BY <1>6, <3>3, <4>1, <4>5, <4>6
    <3>4. CASE p = P
      <4>1. Num(ix, P) + 0 >= Need(rk, root, P) /\ Num(ix, P) \in Nat
        <5>1. (IF P = thin THEN 1 ELSE 0) = 0
          BY <1>2
        <5> QED
          BY <1>1, <1>2, <3>1, <5>1
      <4>2. Num(jx, P) + (IF P = P THEN 1 ELSE 0) = Num(ix, P) + 0
        BY <1>5, <4>1
      <4> QED
        BY <3>4, <4>1, <4>2
    <3>5. CASE p \notin {A, P}
      <4>1. (IF p = thin THEN 1 ELSE 0) = 0 /\ (IF p = P THEN 1 ELSE 0) = 0
        BY <3>2, <3>5
      <4>2. Num(jx, p) = Num(ix, p)
        BY <1>4, <3>2, <3>5
      <4> QED
        BY <3>1, <3>2, <4>1, <4>2
    <3> QED
      BY <3>3, <3>4, <3>5
  <2> QED
    BY <2>1 DEF Filled
<1>9. ASSUME Unique PROVE \E R : KeyedAs(jx, rk, V, root, R) /\ (whole => Chained(jx, rk, V, R))
  <2>1. PICK R : KeyedAs(ix, rk, T, root, R) /\ (whole => Chained(ix, rk, T, R))
    BY <1>9 DEF Good
  <2> DEFINE U == R[A] \union R[D]
             R1 == Merged(R, T, A, D)
  <2>2. SideBySide(ix, R, P, k, A, D)
    BY <1>1, <2>1, PairKeys
  <2>3. /\ \A p \in T : R[p] \subseteq Int /\ R[p] # {}
        /\ \A p \in T : NodeKeyed(ix, rk, R, p)
    BY <1>1, <2>1, NodesKeyed
  <2>4. U = R[A] \union R[D] /\ R1 = Merged(R, T, A, D)
    OBVIOUS
  <2> HIDE DEF U, R1
  <2>5. RowKeyed(ix, R, A, sep, D, U, last)
    <3>1. Kid(ix, D, 0) \in T
      <4>1. IsChild(ix, rk, T, root, NoPage, D, Kid(ix, D, 0))
        BY <1>1, <1>2, <1>6 DEF Family
      <4> QED
        BY <4>1 DEF IsChild
    <3>2. R[Kid(ix, D, 0)] # {} /\ R[Kid(ix, D, 0)] \subseteq Int
      BY <2>3, <3>1
    <3>3. NodeKeyed(ix, rk, R, A) /\ NodeKeyed(ix, rk, R, D) /\ rk[D] # 0
      BY <1>2, <2>3
    <3>4. Num(ix, A) \in Nat /\ Num(ix, D) \in Nat
      BY <1>6
    <3> QED
      BY <1>0, <2>2, <2>4, <3>2, <3>3, <3>4, RowIsKeyed
  <2>6. NodeKeyed(jx, rk, R1, A)
    <3>1. \A i \in 0 .. last : RowKid(ix, A, D, i) \in T \ {A, D}
      BY <1>0, <1>1, <1>2, RowKids
    <3>2. A \in T /\ D \in T /\ A # D /\ rk[A] # 0 /\ rk[D] # 0 /\ RowTaken(jx, ix, A, sep, D)
          /\ Num(ix, A) \in Nat /\ Num(ix, D) \in Nat
      BY <1>2, <1>3, <1>6
    <3> QED
      BY <1>0, <2>4, <2>5, <3>1, <3>2, RowMerge
  <2>7. KeyedAs(jx, rk, V, root, R1)
    <3>1. \A p \in T : p \notin {A, D, P} => SameKeys(jx, ix, p) /\ SameKids(jx, ix, p)
      BY <1>4
    <3> QED
      BY <1>1, <1>3, <2>1, <2>4, <2>6, <3>1, KeyedMerge
  <2>8. whole => Chained(jx, rk, V, R1)
    <3>1. ASSUME whole PROVE Chained(jx, rk, V, R1)
      <4>1. Chained(ix, rk, T, R)
        BY <2>1, <3>1
      <4>2. \A p \in T : rk[p] = 0 => SameChain(jx, ix, p) /\ R1[p] = R[p]
        <5>1. ASSUME NEW p \in T, rk[p] = 0 PROVE R1[p] = R[p]
          <6>1. p # A /\ p # D
            BY <1>2, <5>1
          <6> QED
            BY <2>4, <6>1 DEF Merged
        <5> QED
          BY <1>1, <1>3, <5>1
      <4>3. \A p : (p \in V /\ rk[p] = 0) <=> (p \in T /\ rk[p] = 0)
        BY <1>2
      <4> QED
        BY <4>1, <4>2, <4>3, ChainedSame
    <3> QED
      BY <3>1
  <2> QED
    BY <2>7, <2>8
<1>10. Items(jx, rk, V) = s
  <2>1. \A p \in T : rk[p] = 0 => jx.node[p].entries = ix.node[p].entries
    BY <1>1, <1>2, <1>3
  <2>2. \A p : (p \in V /\ rk[p] = 0) <=> (p \in T /\ rk[p] = 0)
    BY <1>2
  <2>3. Items(jx, rk, V) = Items(ix, rk, T)
    BY <2>1, <2>2, ItemsSame
  <2> QED
    BY <1>1, <2>3
<1> QED
  BY <1>7, <1>8, <1>9, <1>10 DEF Good

-----------------------------------------------------------------------------
\* A page loses entry k.
LEMMA CutLoses ==
  ASSUME NEW n, NEW rk, NEW hx, Tree(hx, n, rk), NEW P \in 1 .. n, NEW k, NEW ix,
         hx.node[P].entries = ix.node[P].entries, hx.node[P].leftMost = ix.node[P].leftMost,
         k \in 1 .. Num(ix, P), KidsAre(ix, P), NEW jx, jx = CutAt(hx, P, k)
  PROVE  Tree(jx, n, rk) /\ Removed(jx, hx, n, P, k) /\ LosesKey(jx, ix, P, k)
<1>1. /\ Num(hx, P) = Num(ix, P) /\ \A i : Item(hx, P, i) = Item(ix, P, i)
  BY DEF Num, Item
<1>2. Tree(jx, n, rk) /\ Removed(jx, hx, n, P, k)
  BY <1>1, CutEffect
<1>3. /\ Num(jx, P) = Num(ix, P) - 1 /\ Num(ix, P) \in Nat
      /\ \A i \in 1 .. Num(ix, P) - 1 : Item(jx, P, i) = Item(ix, P, IF i < k THEN i ELSE i + 1)
      /\ jx.node[P].leftMost = ix.node[P].leftMost
  BY <1>1, <1>2 DEF Removed, KidsAre
<1>4. \A i \in 1 .. Num(ix, P) - 1 : Key(jx, P, i) = Key(ix, P, IF i < k THEN i ELSE i + 1)
  BY <1>3, KeyOfItem
<1>5. ASSUME NEW i \in 0 .. Num(ix, P) - 1
      PROVE  Kid(jx, P, i) = IF i < k THEN Kid(ix, P, i) ELSE Kid(ix, P, i + 1)
  <2>1. /\ Kid(ix, P, 0) = ix.node[P].leftMost
        /\ \A j \in 1 .. Num(ix, P) : Kid(ix, P, j) = Item(ix, P, j).child
    BY DEF KidsAre
  <2>2. /\ Kid(jx, P, 0) = jx.node[P].leftMost
        /\ \A j \in 1 .. Num(jx, P) : Kid(jx, P, j) = Item(jx, P, j).child
    <3>1. KidsAre(jx, P)
      BY <1>2, KidItems
    <3> QED
      BY <3>1 DEF KidsAre
  <2>3. CASE i = 0
    <3>1. i < k
      BY <1>3, <2>3
    <3> QED
      BY <1>3, <2>1, <2>2, <2>3, <3>1
  <2>4. CASE i # 0
    <3>1. i \in 1 .. Num(ix, P) - 1 /\ (IF i < k THEN i ELSE i + 1) \in 1 .. Num(ix, P)
          /\ i \in 1 .. Num(ix, P) /\ i + 1 \in 1 .. Num(ix, P)
      BY <1>3, <2>4
    <3>2. Kid(jx, P, i) = Item(ix, P, IF i < k THEN i ELSE i + 1).child
      BY <1>3, <2>2, <3>1
    <3> QED
      BY <2>1, <3>1, <3>2
  <2> QED
    BY <2>3, <2>4
<1>6. LosesKey(jx, ix, P, k)
  BY <1>3, <1>4, <1>5 DEF LosesKey, LosesKid
<1> QED
  BY <1>2, <1>6

\* Two rows with x between them.
Joins(s, u, x, v) ==
    /\ Len(s) = Len(u) + Len(v) + 1 /\ Len(u) \in Nat /\ Len(v) \in Nat
    /\ \A i \in 1 .. Len(u) : s[i] = u[i]
    /\ s[Len(u) + 1] = x
    /\ \A i \in 1 .. Len(v) : s[Len(u) + 1 + i] = v[i]
Follow(m, x, v) == Len(m) = Len(v) + 1 /\ m[1] = x /\ \A i \in 1 .. Len(v) : m[i + 1] = v[i]

MadeOf(s, u, x, v, m) == m = <<x>> \o v /\ s = u \o m
LEMMA JoinItems ==
  ASSUME NEW S, NEW u \in Seq(S), NEW v \in Seq(S), NEW x \in S, NEW m, NEW s, MadeOf(s, u, x, v, m)
  PROVE  m \in Seq(S) /\ Follow(m, x, v) /\ Joins(s, u, x, v)
<1>0. m = <<x>> \o v /\ s = u \o m
  BY DEF MadeOf
<1> DEFINE o == <<x>>
<1>1. o \in Seq(S) /\ Len(o) = 1 /\ o[1] = x /\ m = o \o v /\ m \in Seq(S)
      /\ Len(u) \in Nat /\ Len(v) \in Nat
  BY <1>0
<1> HIDE DEF o
<1>2. /\ Len(m) = Len(o) + Len(v)
      /\ \A j \in 1 .. Len(o) : m[j] = o[j]
      /\ \A j \in Len(o) + 1 .. Len(o) + Len(v) : m[j] = v[j - Len(o)]
  BY <1>1, ConcatItems
<1>3. Follow(m, x, v)
  <2>1. Len(m) = Len(v) + 1 /\ m[1] = x
    BY <1>1, <1>2
  <2>2. ASSUME NEW i \in 1 .. Len(v) PROVE m[i + 1] = v[i]
    <3>1. i + 1 \in Len(o) + 1 .. Len(o) + Len(v) /\ (i + 1) - Len(o) = i
      BY <1>1
    <3> QED
      BY <1>2, <3>1
  <2> QED
    BY <2>1, <2>2 DEF Follow
<1>4. /\ Len(s) = Len(u) + Len(m)
      /\ \A j \in 1 .. Len(u) : s[j] = u[j]
      /\ \A j \in Len(u) + 1 .. Len(u) + Len(m) : s[j] = m[j - Len(u)]
  BY <1>0, <1>1, ConcatItems
<1>5. /\ Len(m) = Len(v) + 1 /\ m[1] = x /\ \A i \in 1 .. Len(v) : m[i + 1] = v[i]
  BY <1>3 DEF Follow
<1>6. s[Len(u) + 1] = x
  <2>1. Len(u) + 1 \in Len(u) + 1 .. Len(u) + Len(m) /\ (Len(u) + 1) - Len(u) = 1
    BY <1>1, <1>5
  <2> QED
    BY <1>4, <1>5, <2>1
<1>7. ASSUME NEW i \in 1 .. Len(v) PROVE s[Len(u) + 1 + i] = v[i]
  <2>1. Len(u) + 1 + i \in Len(u) + 1 .. Len(u) + Len(m) /\ (Len(u) + 1 + i) - Len(u) = i + 1
    BY <1>1, <1>5
  <2>2. s[Len(u) + 1 + i] = m[i + 1]
    BY <1>4, <2>1
  <2> QED
    BY <1>5, <2>2
<1>8. Joins(s, u, x, v)
  BY <1>1, <1>4, <1>5, <1>6, <1>7 DEF Joins
<1> QED
  BY <1>1, <1>3, <1>8

TakesAll(jx, ix, A, D, sep, u, v, x, s) ==
    /\ Holds(ix, A, ix.node[A].leftMost, u) /\ Holds(ix, D, ix.node[D].leftMost, v)
    /\ Joins(s, u, x, v) /\ x.child = ix.node[D].leftMost /\ x.key = sep
    /\ Holds(jx, A, ix.node[A].leftMost, s)
LEMMA RowIsTaken ==
  ASSUME NEW jx, NEW ix, NEW A, NEW D, NEW sep, NEW u, NEW v, NEW x, NEW s,
         TakesAll(jx, ix, A, D, sep, u, v, x, s)
  PROVE  RowTaken(jx, ix, A, sep, D)
<1> DEFINE a == Num(ix, A)
           d == Num(ix, D)
<1>1. /\ a = Num(ix, A) /\ d = Num(ix, D) /\ a = Len(u) /\ d = Len(v) /\ a \in Nat /\ d \in Nat
      /\ Kid(ix, A, 0) = ix.node[A].leftMost /\ Kid(ix, D, 0) = ix.node[D].leftMost
      /\ x.child = ix.node[D].leftMost /\ x.key = sep
      /\ \A i \in 1 .. Len(u) : Kid(ix, A, i) = u[i].child /\ Key(ix, A, i) = u[i].key
      /\ \A i \in 1 .. Len(v) : Kid(ix, D, i) = v[i].child /\ Key(ix, D, i) = v[i].key
  BY DEF TakesAll, Holds, Joins
<1> HIDE DEF a, d
<1>2. /\ Len(s) = a + d + 1
      /\ \A i \in 1 .. a : s[i] = u[i]
      /\ s[a + 1] = x
      /\ \A i \in 1 .. d : s[a + 1 + i] = v[i]
  BY <1>1 DEF TakesAll, Joins
<1>3. /\ Num(jx, A) = Len(s) /\ Kid(jx, A, 0) = ix.node[A].leftMost
      /\ \A i \in 1 .. Len(s) : Kid(jx, A, i) = s[i].child /\ Key(jx, A, i) = s[i].key
  BY DEF TakesAll, Holds
<1>4. ASSUME NEW i \in 0 .. a + d + 1 PROVE Kid(jx, A, i) = RowKid(ix, A, D, i)
  <2>1. CASE i = 0
    BY <1>1, <1>3, <2>1 DEF RowKid
  <2>2. CASE i \in 1 .. a
    <3>1. i <= a /\ i \in 1 .. Len(s)
      BY <1>1, <1>2, <2>2
    <3> QED
      BY <1>1, <1>2, <1>3, <2>2, <3>1 DEF RowKid
  <2>3. CASE i = a + 1
    <3>1. ~(i <= a) /\ i - a - 1 = 0 /\ i \in 1 .. Len(s)
      BY <1>1, <1>2, <2>3
    <3> QED
      BY <1>1, <1>2, <1>3, <2>3, <3>1 DEF RowKid
  <2>4. CASE i > a + 1
    <3>1. ~(i <= a) /\ i \in 1 .. Len(s) /\ i - a - 1 \in 1 .. d /\ a + 1 + (i - a - 1) = i
      BY <1>1, <1>2, <2>4
    <3>2. s[i] = v[i - a - 1]
      BY <1>2, <3>1
    <3> QED
      BY <1>1, <1>3, <3>1, <3>2 DEF RowKid
  <2>5. i = 0 \/ i \in 1 .. a \/ i = a + 1 \/ i > a + 1
    BY <1>1
  <2> QED
    BY <2>1, <2>2, <2>3, <2>4, <2>5
<1>5. ASSUME NEW i \in 1 .. a + d + 1 PROVE Key(jx, A, i) = RowKey(ix, A, sep, D, i)
  <2>2. CASE i \in 1 .. a
    <3>1. i <= a /\ i \in 1 .. Len(s)
      BY <1>1, <1>2, <2>2
    <3> QED
      BY <1>1, <1>2, <1>3, <2>2, <3>1 DEF RowKey
  <2>3. CASE i = a + 1
    <3>1. ~(i <= a) /\ i \in 1 .. Len(s)
      BY <1>1, <1>2, <2>3
    <3> QED
      BY <1>1, <1>2, <1>3, <2>3, <3>1 DEF RowKey
  <2>4. CASE i > a + 1
    <3>1. /\ ~(i <= a) /\ i \in 1 .. Len(s) /\ i - a - 1 \in 1 .. d /\ a + 1 + (i - a - 1) = i
          /\ i # a + 1
      BY <1>1, <1>2, <2>4
    <3>2. s[i] = v[i - a - 1]
      BY <1>2, <3>1
    <3> QED
      BY <1>1, <1>3, <3>1, <3>2 DEF RowKey
  <2>5. i \in 1 .. a \/ i = a + 1 \/ i > a + 1
    BY <1>1
  <2> QED
    BY <2>2, <2>3, <2>4, <2>5
<1>6. RowLast(ix, A, D) = a + d + 1
  BY <1>1 DEF RowLast
<1> QED
  BY <1>2, <1>3, <1>4, <1>5, <1>6 DEF RowTaken

-----------------------------------------------------------------------------
\* The children of an absorbed node.
KidsIn(ix, D, c) ==
    Len(c) = Num(ix, D) + 1 /\ \A i \in 0 .. Num(ix, D) : Kid(ix, D, i) = c[i + 1]
LEMMA MovedKids ==
  ASSUME NEW n \in Nat, NEW rk, NEW r, r # 0, NEW m \in Seq(Ents(n, rk, r)), NEW x, NEW v,
         Follow(m, x, v), NEW ix, NEW D, NEW b, b = x.child, Holds(ix, D, b, v), Num(ix, D) \in Nat,
         NEW c, c = ChildrenOf(m)
  PROVE  c \in Seq(Below(n, rk, r)) /\ KidsIn(ix, D, c)
<1>1. c \in Seq(Below(n, rk, r))
  BY ChildrenOfEntries
<1>2. DOMAIN m = 1 .. Len(m) /\ Len(m) \in Nat
  OBVIOUS
<1>3. DOMAIN c = 1 .. Len(m) /\ \A i \in 1 .. Len(m) : c[i] = m[i].child
  BY <1>2 DEF ChildrenOf
<1>4. Len(c) = Len(m)
  BY <1>1, <1>2, <1>3
<1>5. /\ Len(m) = Num(ix, D) + 1 /\ m[1] = x
      /\ \A i \in 1 .. Num(ix, D) : m[i + 1] = v[i] /\ Kid(ix, D, i) = v[i].child
      /\ Kid(ix, D, 0) = x.child
  BY DEF Follow, Holds
<1>6. ASSUME NEW i \in 0 .. Num(ix, D) PROVE Kid(ix, D, i) = c[i + 1]
  <2>1. i + 1 \in 1 .. Len(m)
    BY <1>5
  <2>2. i = 0 \/ i \in 1 .. Num(ix, D)
    OBVIOUS
  <2> QED
    BY <1>3, <1>5, <2>1, <2>2
<1> QED
  BY <1>1, <1>4, <1>5, <1>6 DEF KidsIn

NodeAbsorbed(ax, ix, n, sep, A, D) ==
    /\ RowTaken(ax, ix, A, sep, D)
    /\ \A q \in 1 .. n : q # A => ax.node[q].entries = ix.node[q].entries
    /\ \A q \in 1 .. n : ax.node[q].leftMost = ix.node[q].leftMost /\ SameChain(ax, ix, q)
    /\ \A i \in 0 .. Num(ix, D) : Par(ax, Kid(ix, D, i)) = A
    /\ \A q \in 1 .. n : (\A i \in 0 .. Num(ix, D) : Kid(ix, D, i) # q) => Par(ax, q) = Par(ix, q)
    /\ ax.pins = ix.pins /\ ax.info = ix.info

LEMMA AbsorbInternalIs ==
  ASSUME NEW n, NEW rk, NEW ix, Tree(ix, n, rk), NEW A \in 1 .. n, NEW D \in 1 .. n, A # D,
         rk[A] # 0, rk[D] = rk[A], Num(ix, A) + Num(ix, D) < 2 * MinKeys,
         NEW P \in 1 .. n, NEW k \in 1 .. Num(ix, P),
         NEW sep, sep = Key(ix, P, k), NEW ax, ax = AbsorbInternal(ix, A, D, P, k)
  PROVE  Tree(ax, n, rk) /\ NodeAbsorbed(ax, ix, n, sep, A, D)
<1> DEFINE u == ix.node[A].entries
           v == ix.node[D].entries
           x == DownEntry(ix, P, k, D)
           m == <<x>> \o v
           s == u \o m
           c == ChildrenOf(m)
           bx == WithEntries(ix, A, s)
           r == rk[A]
<1>0. n \in Nat
  BY DEF Tree
<1>1. u \in Seq(Ents(n, rk, r)) /\ v \in Seq(Ents(n, rk, r)) /\ Num(ix, A) \in Nat /\ Num(ix, D) \in Nat
      /\ Len(u) = Num(ix, A) /\ Len(v) = Num(ix, D)
  BY PageFields DEF Num
<1>2. ax = SetChildrenParent(bx, c, A)
  BY DEF AbsorbInternal, WithEntries, DownEntry
<1>3. /\ u = ix.node[A].entries /\ v = ix.node[D].entries /\ x = DownEntry(ix, P, k, D)
      /\ m = <<x>> \o v /\ s = u \o m /\ c = ChildrenOf(m) /\ bx = WithEntries(ix, A, s) /\ r = rk[A]
  OBVIOUS
<1> HIDE DEF u, v, x, m, s, c, bx, r
<1>4. x \in Ents(n, rk, r) /\ x.child = ix.node[D].leftMost /\ x.key = sep
  <2>1. x \in Ents(n, rk, rk[D]) /\ x.child = ix.node[D].leftMost /\ x.key = Key(ix, P, k)
    BY <1>3, DownFits
  <2> QED
    BY <1>3, <2>1
<1>5. m \in Seq(Ents(n, rk, r)) /\ Follow(m, x, v) /\ Joins(s, u, x, v)
  <2>1. MadeOf(s, u, x, v, m)
    BY <1>3 DEF MadeOf
  <2> DEFINE S == Ents(n, rk, r)
  <2>2. u \in Seq(S) /\ v \in Seq(S) /\ x \in S
    BY <1>1, <1>4
  <2> HIDE DEF S
  <2>3. m \in Seq(S) /\ Follow(m, x, v) /\ Joins(s, u, x, v)
    BY SMTT(40), <2>1, <2>2, JoinItems
  <2> QED
    BY <2>3 DEF S
<1>6. s \in Lists(Ents(n, rk, rk[A]))
  <2>1. Len(u) + Len(m) <= 2 * MinKeys
    <3>1. \A x1, x2, y \in Nat : x1 + x2 < 2 * y => x1 + (x2 + 1) <= 2 * y
      OBVIOUS
    <3>2. MinKeys \in Nat
      BY MinKeysFits
    <3>3. Len(m) = Len(v) + 1
      BY <1>5 DEF Follow
    <3> QED
      BY <1>1, <3>1, <3>2, <3>3
  <2> QED
    BY <1>1, <1>3, <1>5, <2>1, Together
<1>7. Tree(bx, n, rk) /\ EntriesSet(bx, ix, n, A, s)
  BY <1>3, <1>6, EntriesField
<1>8. Holds(ix, A, ix.node[A].leftMost, u) /\ Holds(ix, D, ix.node[D].leftMost, v)
  BY <1>3, NodeHeld
<1>9. /\ c \in Seq(Below(n, rk, r)) /\ Len(c) = Num(ix, D) + 1
      /\ \A i \in 0 .. Num(ix, D) : Kid(ix, D, i) = c[i + 1]
  <2> DEFINE b == x.child
  <2>1. Holds(ix, D, b, v) /\ r # 0 /\ b = x.child
    BY SMTT(40), <1>3, <1>4, <1>8
  <2> HIDE DEF b
  <2>2. /\ m \in Seq(Ents(n, rk, r)) /\ Follow(m, x, v) /\ Num(ix, D) \in Nat /\ c = ChildrenOf(m)
    BY <1>1, <1>3, <1>5
  <2>3. c \in Seq(Below(n, rk, r)) /\ KidsIn(ix, D, c)
    BY <1>0, <2>1, <2>2, MovedKids
  <2> QED
    BY <2>3 DEF KidsIn
<1>10. Tree(ax, n, rk) /\ Told(ax, bx, n, c, A)
  <2>1. c \in Seq(Below(n, rk, rk[A]))
    BY <1>3, <1>9
  <2> QED
    BY <1>2, <1>7, <2>1, ToldParents
<1>11. \A q \in 1 .. n : SameBody(ax, bx, q)
  BY <1>10 DEF Told
<1>12. /\ ax.node[A].entries = s
       /\ \A q \in 1 .. n : q # A => ax.node[q].entries = ix.node[q].entries
       /\ \A q \in 1 .. n : ax.node[q].leftMost = ix.node[q].leftMost /\ SameChain(ax, ix, q)
  BY <1>7, <1>11 DEF EntriesSet, Only, SameBody, SameChain
<1>13. ax.pins = ix.pins /\ ax.info = ix.info
  BY <1>7, <1>10 DEF EntriesSet, Only, Told
<1>14. \A i \in 0 .. Num(ix, D) : Par(ax, Kid(ix, D, i)) = A
  <2>1. \A i \in 1 .. Len(c) : Par(ax, c[i]) = A
    BY <1>10 DEF Told
  <2>2. \A i \in 0 .. Num(ix, D) : i + 1 \in 1 .. Len(c)
    BY <1>1, <1>9
  <2> QED
    BY <1>9, <2>1, <2>2
<1>15. ASSUME NEW q \in 1 .. n, \A i \in 0 .. Num(ix, D) : Kid(ix, D, i) # q
       PROVE  Par(ax, q) = Par(ix, q)
  <2>1. ASSUME NEW j \in 1 .. Len(c) PROVE c[j] # q
    <3>1. j - 1 \in 0 .. Num(ix, D) /\ (j - 1) + 1 = j
      BY <1>1, <1>9
    <3> QED
      BY <1>9, <1>15, <3>1
  <2>2. Par(ax, q) = Par(bx, q)
    BY <1>10, <2>1 DEF Told
  <2> QED
    BY <1>7, <2>2 DEF EntriesSet, Only, Par
<1>16. RowTaken(ax, ix, A, sep, D)
  <2> DEFINE l == ix.node[A].leftMost
  <2>1. ax.node[A].leftMost = l /\ ax.node[A].entries = s
    BY <1>12
  <2> HIDE DEF l
  <2>2. Holds(ax, A, l, s)
    BY <1>10, <2>1, NodeHolds
  <2>3. TakesAll(ax, ix, A, D, sep, u, v, x, s)
    BY <1>4, <1>5, <1>8, <2>2 DEF TakesAll, l
  <2> QED
    BY <2>3, RowIsTaken
<1> QED
  BY <1>10, <1>12, <1>13, <1>14, <1>15, <1>16 DEF NodeAbsorbed

LEMMA SameNodesRow ==
  ASSUME NEW ax, NEW hx, NEW ix, hx.node = ix.node, NEW A, NEW sep, NEW D, RowTaken(ax, hx, A, sep, D)
  PROVE  RowTaken(ax, ix, A, sep, D)
<1>1. /\ \A p : Num(hx, p) = Num(ix, p)
      /\ \A p, i : Kid(hx, p, i) = Kid(ix, p, i) /\ Key(hx, p, i) = Key(ix, p, i)
  BY DEF Num, Kid, Key
<1>2. RowLast(hx, A, D) = RowLast(ix, A, D)
  BY <1>1 DEF RowLast
<1>3. \A i : RowKid(hx, A, D, i) = RowKid(ix, A, D, i) /\ RowKey(hx, A, sep, D, i) = RowKey(ix, A, sep, D, i)
  BY <1>1 DEF RowKid, RowKey
<1> QED
  BY <1>2, <1>3 DEF RowTaken

\* Then the parent of the two, pinned, loses D.
LEMMA AbsorbInternalCutIs ==
  ASSUME NEW n, NEW rk, NEW ix, Tree(ix, n, rk), NEW A \in 1 .. n, NEW D \in 1 .. n, A # D,
         rk[A] # 0, rk[D] = rk[A], Num(ix, A) + Num(ix, D) < 2 * MinKeys,
         NEW P \in 1 .. n, P # A, P # D, NEW k \in 1 .. Num(ix, P),
         \A i \in 0 .. Num(ix, D) : Kid(ix, D, i) # P,
         NEW ax, ax = AbsorbInternal(Pin(ix, P), A, D, P, k), NEW jx, jx = CutAt(ax, P, k)
  PROVE  /\ Tree(ax, n, rk) /\ k \in 1 .. Num(ax, P) /\ Par(ax, P) = Par(ix, P)
         /\ Tree(jx, n, rk) /\ NodesMerged(jx, ix, n, P, k, A, D)
         /\ ax.pins = Pin(ix, P).pins /\ ax.info = ix.info
<1> DEFINE hx == Pin(ix, P)
           sep == Key(ix, P, k)
<1>1. Tree(hx, n, rk) /\ SameNodes(hx, ix)
  BY PinSame
<1>2. ax = AbsorbInternal(hx, A, D, P, k) /\ sep = Key(ix, P, k) /\ hx = Pin(ix, P)
  OBVIOUS
<1> HIDE DEF hx, sep
<1>3. hx.node = ix.node /\ hx.info = ix.info
  BY <1>1 DEF SameNodes
<1>4. /\ \A p : Num(hx, p) = Num(ix, p) /\ Par(hx, p) = Par(ix, p)
      /\ \A p, i : Kid(hx, p, i) = Kid(ix, p, i) /\ Key(hx, p, i) = Key(ix, p, i)
  BY <1>3 DEF Num, Kid, Key, Par
<1>5. Tree(ax, n, rk) /\ NodeAbsorbed(ax, hx, n, sep, A, D)
  <2>1. sep = Key(hx, P, k) /\ k \in 1 .. Num(hx, P) /\ Num(hx, A) + Num(hx, D) < 2 * MinKeys
    BY <1>2, <1>4
  <2> QED
    BY <1>1, <1>2, <2>1, AbsorbInternalIs
<1>6. /\ RowTaken(ax, hx, A, sep, D)
      /\ \A q \in 1 .. n : q # A => ax.node[q].entries = hx.node[q].entries
      /\ \A q \in 1 .. n : ax.node[q].leftMost = hx.node[q].leftMost /\ SameChain(ax, hx, q)
      /\ \A i \in 0 .. Num(hx, D) : Par(ax, Kid(hx, D, i)) = A
      /\ \A q \in 1 .. n : (\A i \in 0 .. Num(hx, D) : Kid(hx, D, i) # q) => Par(ax, q) = Par(hx, q)
      /\ ax.pins = hx.pins /\ ax.info = hx.info
  BY <1>5 DEF NodeAbsorbed
<1>7. RowTaken(ax, ix, A, sep, D)
  BY <1>3, <1>6, SameNodesRow
<1>8. /\ \A q \in 1 .. n : q # A => ax.node[q].entries = ix.node[q].entries
      /\ \A q \in 1 .. n : ax.node[q].leftMost = ix.node[q].leftMost /\ SameChain(ax, ix, q)
      /\ \A i \in 0 .. Num(ix, D) : Par(ax, Kid(ix, D, i)) = A
      /\ \A q \in 1 .. n : (\A i \in 0 .. Num(ix, D) : Kid(ix, D, i) # q) => Par(ax, q) = Par(ix, q)
      /\ ax.pins = hx.pins /\ ax.info = ix.info
  BY <1>3, <1>4, <1>6 DEF SameChain
<1>9. Tree(jx, n, rk) /\ Removed(jx, ax, n, P, k) /\ LosesKey(jx, ix, P, k)
  <2>1. ax.node[P].entries = ix.node[P].entries /\ ax.node[P].leftMost = ix.node[P].leftMost
    BY <1>8
  <2>2. KidsAre(ix, P)
    BY KidItems
  <2> QED
    BY <1>5, <2>1, <2>2, CutLoses
<1>10. k \in 1 .. Num(ax, P) /\ Par(ax, P) = Par(ix, P)
  BY <1>8 DEF Num
<1>11. \A q \in 1 .. n : q # P => jx.node[q] = ax.node[q]
  BY <1>9 DEF Removed, Only
<1>12. \A q \in 1 .. n : Par(jx, q) = Par(ax, q) /\ SameChain(jx, ax, q)
  <2>1. Par(jx, P) = Par(ax, P) /\ SameChain(jx, ax, P)
    BY <1>9 DEF Removed
  <2> QED
    BY <1>11, <2>1 DEF Par, SameChain
<1>13. RowTaken(jx, ix, A, sep, D)
  <2>1. jx.node[A] = ax.node[A]
    BY <1>11
  <2>2. Num(jx, A) = Num(ax, A) /\ \A i : Kid(jx, A, i) = Kid(ax, A, i) /\ Key(jx, A, i) = Key(ax, A, i)
    BY <2>1 DEF Num, Kid, Key
  <2> QED
    BY <1>7, <2>2 DEF RowTaken
<1>14. \A q \in 1 .. n : SameChain(jx, ix, q)
  BY <1>8, <1>12 DEF SameChain
<1>15. \A i \in 0 .. Num(ix, D) : Par(jx, Kid(ix, D, i)) = A
  <2>1. ASSUME NEW i \in 0 .. Num(ix, D) PROVE Par(jx, Kid(ix, D, i)) = A
    <3>1. Kid(ix, D, i) \in 1 .. n
      <4>1. rk[D] # 0
        OBVIOUS
      <4> QED
        BY <4>1, KidsOfPage
    <3> QED
      BY <1>8, <1>12, <3>1
  <2> QED
    BY <2>1
<1>16. \A q \in 1 .. n : (\A i \in 0 .. Num(ix, D) : Kid(ix, D, i) # q) => Par(jx, q) = Par(ix, q)
  BY <1>8, <1>12
<1>17. \A q \in 1 .. n : q \notin {A, P} =>
          jx.node[q].entries = ix.node[q].entries /\ jx.node[q].leftMost = ix.node[q].leftMost
  BY <1>8, <1>11
<1>18. NodesMerged(jx, ix, n, P, k, A, D)
  BY <1>2, <1>9, <1>13, <1>14, <1>15, <1>16, <1>17 DEF NodesMerged
<1> QED
  BY <1>2, <1>5, <1>8, <1>9, <1>10, <1>18

-----------------------------------------------------------------------------
\* The places of a thin page and of its neighbours in their parent.
LEMMA AtLeastIs ==
  ASSUME NEW r
  PROVE  AtLeast(r) \in Nat /\ AtLeast(r) <= MinKeys /\ (r # 0 => AtLeast(r) >= 1) /\ MinKeys \in Nat \ {0}
<1>1. MinKeys \in Nat \ {0}
  BY MinKeysFits
<1> QED
  BY <1>1 DEF AtLeast

Enough(jx, page, lender, r) == MaxKeys >= 2 => Num(jx, page) >= AtLeast(r) /\ Num(jx, lender) >= AtLeast(r)
Lent(jx, ix, page, lender) ==
    Num(jx, page) = Num(ix, page) + 1 /\ Num(jx, lender) = Num(ix, lender) - 1

LEMMA LentEnough ==
  ASSUME NEW ix, NEW rk, NEW T, NEW root, NEW page \in T, page # root, NEW lender,
         MaxKeys >= 2 => Filled(ix, rk, T, root, page),
         Num(ix, page) \in Nat, Num(ix, lender) \in Nat, Num(ix, lender) > MinKeys,
         NEW jx, Lent(jx, ix, page, lender)
  PROVE  Enough(jx, page, lender, rk[page])
<1> DEFINE r == rk[page]
           least == AtLeast(r)
<1>1. least \in Nat /\ least <= MinKeys /\ MinKeys \in Nat \ {0}
  BY AtLeastIs
<1>2. Num(jx, lender) >= least
  <2> HIDE DEF least
  <2> QED
    BY <1>1 DEF Lent
<1>3. ASSUME MaxKeys >= 2 PROVE Num(jx, page) >= least
  <2>1. Num(ix, page) + (IF page = page THEN 1 ELSE 0) >= Need(rk, root, page)
    BY <1>3 DEF Filled
  <2>2. Need(rk, root, page) = least
    BY DEF Need
  <2> HIDE DEF least
  <2> QED
    BY <1>1, <2>1, <2>2 DEF Lent
<1> QED
  BY <1>2, <1>3 DEF Enough

LEMMA ThinPlace ==
  ASSUME NEW ix, NEW n, NEW rk, NEW T, NEW root, NEW thin, NEW whole, NEW s,
         Good(ix, n, rk, T, root, thin, whole, s), NEW page \in T, thin = page,
         NEW P, P = Par(ix, page), P # NoPage,
         NEW i, i = FindChildIndex(ix.node[P], page)
  PROVE  /\ P \in T /\ rk[P] # 0 /\ rk[P] = rk[page] + 1 /\ page # root /\ P # page
         /\ Num(ix, P) \in Nat /\ i \in 0 .. Num(ix, P) /\ Kid(ix, P, i) = page
         /\ MaxKeys >= 2 => Num(ix, P) # 0
<1>1. /\ Tree(ix, n, rk) /\ T \subseteq 1 .. n /\ Family(ix, rk, T, root, NoPage)
      /\ Par(ix, root) = NoPage /\ NoPage \notin T
      /\ \A p \in T : rk[p] \in Nat /\ Num(ix, p) \in Nat
      /\ MaxKeys >= 2 => Filled(ix, rk, T, root, page)
  BY DEF Good, Shape, Family
<1>2. page # root /\ page # NoPage
  BY <1>1
<1>3. HasParent(ix, rk, T, page)
  BY <1>1, <1>2 DEF Family
<1>4. PICK j \in 0 .. Num(ix, P) : P \in T /\ rk[P] # 0 /\ Kid(ix, P, j) = page
  BY <1>3 DEF HasParent
<1>5. rk[page] + 1 = rk[P]
  <2>1. IsChild(ix, rk, T, root, NoPage, P, Kid(ix, P, j))
    BY <1>1, <1>4 DEF Family
  <2> QED
    BY <1>4, <2>1 DEF IsChild
<1>6. rk[page] \in Nat /\ Num(ix, P) \in Nat
  BY <1>1, <1>4
<1>7. P # page
  <2>1. rk[P] # rk[page]
    BY <1>5, <1>6
  <2> QED
    BY <2>1
<1>8. i \in 0 .. Num(ix, P) /\ Kid(ix, P, i) = page
  <2>1. P \in 1 .. n
    BY <1>1, <1>4
  <2>2. ix.node[P].entries \in Seq(Ents(n, rk, rk[P]))
    BY <1>1, <2>1, PageFields
  <2>3. /\ i \in -1 .. Len(ix.node[P].entries)
        /\ i >= 0 => ChildAt(ix.node[P], i) = page
        /\ i < 0 => \A q \in 0 .. Len(ix.node[P].entries) : ChildAt(ix.node[P], q) # page
    BY <2>2, ChildMeans
  <2>4. ~(i < 0)
    BY <1>4, <2>3 DEF Num, Kid
  <2>5. Len(ix.node[P].entries) \in Nat
    BY <1>6 DEF Num
  <2>6. i >= 0 /\ i \in 0 .. Len(ix.node[P].entries)
    BY <2>3, <2>4, <2>5
  <2> QED
    BY <2>3, <2>6 DEF Num, Kid
<1>9. MaxKeys >= 2 => Num(ix, P) # 0
  <2>1. ASSUME MaxKeys >= 2 PROVE Num(ix, P) # 0
    <3>1. Num(ix, P) + (IF P = page THEN 1 ELSE 0) >= Need(rk, root, P)
      BY <1>1, <1>4, <2>1 DEF Filled
    <3>2. (IF P = page THEN 1 ELSE 0) = 0
      BY <1>7
    <3>3. Need(rk, root, P) \in Nat /\ Need(rk, root, P) >= 1
      BY <1>4, AtLeastIs DEF Need
    <3> QED
      BY <1>6, <3>1, <3>2, <3>3
  <2> QED
    BY <2>1
<1> QED
  BY <1>2, <1>4, <1>5, <1>6, <1>7, <1>8, <1>9

\* The neighbour to the left, and to the right.
Beside(ix, n, rk, T, P, k, A, D, page, other) ==
    /\ Pair(ix, rk, T, P, k, A, D) /\ page # other /\ other # NoPage
    /\ {A, D} = {page, other}
    /\ P \in 1 .. n /\ page \in 1 .. n /\ other \in 1 .. n /\ P # page /\ P # other
    /\ rk[page] = rk[other] /\ rk[P] # 0 /\ k \in 1 .. Num(ix, P) /\ other \in T /\ P \in T

LEMMA LeftBeside ==
  ASSUME NEW ix, NEW n, NEW rk, NEW T, NEW root, Family(ix, rk, T, root, NoPage), T \subseteq 1 .. n,
         NEW P \in T, rk[P] # 0, Num(ix, P) \in Nat, NEW page,
         NEW i \in 0 .. Num(ix, P), Kid(ix, P, i) = page, i > 0
  PROVE  Beside(ix, n, rk, T, P, i, ChildAt(ix.node[P], i - 1), page, page, ChildAt(ix.node[P], i - 1))
<1> DEFINE left == ChildAt(ix.node[P], i - 1)
<1>1. i \in 1 .. Num(ix, P)
  OBVIOUS
<1>2. left = Kid(ix, P, i - 1) /\ page = Kid(ix, P, i)
  BY DEF Kid
<1> HIDE DEF left
<1>3. Pair(ix, rk, T, P, i, left, page)
  BY <1>1, <1>2 DEF Pair
<1>4. left \in T /\ page \in T /\ left # page /\ left # P /\ page # P /\ rk[left] = rk[page]
  BY <1>3, PairPages
<1>5. NoPage \notin T
  BY DEF Family
<1>6. Beside(ix, n, rk, T, P, i, left, page, page, left)
  BY <1>1, <1>3, <1>4, <1>5 DEF Beside
<1> QED
  BY <1>6 DEF left

LEMMA RightBeside ==
  ASSUME NEW ix, NEW n, NEW rk, NEW T, NEW root, Family(ix, rk, T, root, NoPage), T \subseteq 1 .. n,
         NEW P \in T, rk[P] # 0, Num(ix, P) \in Nat, NEW page,
         NEW i \in 0 .. Num(ix, P), Kid(ix, P, i) = page, i + 1 <= Num(ix, P)
  PROVE  Beside(ix, n, rk, T, P, i + 1, page, ChildAt(ix.node[P], i + 1), page, ChildAt(ix.node[P], i + 1))
<1> DEFINE right == ChildAt(ix.node[P], i + 1)
           k == i + 1
<1>1. k \in 1 .. Num(ix, P) /\ k - 1 = i
  OBVIOUS
<1>2. right = Kid(ix, P, k) /\ page = Kid(ix, P, k - 1)
  BY <1>1 DEF Kid
<1> HIDE DEF right, k
<1>3. Pair(ix, rk, T, P, k, page, right)
  BY <1>1, <1>2 DEF Pair
<1>4. right \in T /\ page \in T /\ right # page /\ right # P /\ page # P /\ rk[right] = rk[page]
  BY <1>3, PairPages
<1>5. NoPage \notin T
  BY DEF Family
<1>6. Beside(ix, n, rk, T, P, k, page, right, page, right)
  BY <1>1, <1>3, <1>4, <1>5 DEF Beside
<1> QED
  BY <1>6 DEF right, k

-----------------------------------------------------------------------------
\* What removeParentEntryAt and rebalanceInternalAfterDelete make of node `page', which may lack
\* an entry: a tree again, of which either the children of `page' are still its own or an
\* internal node is gone ...
KeepsKids(jx, ix, n, page) == \A q \in 1 .. n : Par(ix, q) = page => Par(jx, q) = page
LosesNode(rk, T, V) == \E p \in T \ V : rk[p] # 0
NoHigher(rk, root, top) == rk[top] <= rk[root]
Settled(jx, ix, n, rk, T, root, page, whole, s) ==
    /\ jx.pins = ix.pins
    /\ \E V \in SUBSET T : \E top \in V :
          /\ Good(jx, n, rk, V, top, NoPage, whole, s)
          /\ NoHigher(rk, root, top) /\ RootOf(jx, rk, top)
          /\ KeepsKids(jx, ix, n, page) \/ LosesNode(rk, T, V)

\* ... or an entry of its parent is to go.
Pending(m, n, rk, T, root, whole, s) ==
    /\ Tree(m.index, n, rk) /\ m.page \in T /\ rk[m.page] # 0 /\ m.page # NoPage
    /\ m.k \in 1 .. Num(m.index, m.page)
    /\ RootOf(m.index, rk, root)
    /\ Good(CutAt(m.index, m.page, m.k), n, rk, T, root, m.page, whole, s)

LEMMA RootStays ==
  ASSUME NEW ix, NEW n, NEW rk, NEW T, NEW root, NEW page, NEW whole, NEW s,
         NEW jx, Good(jx, n, rk, T, root, NoPage, whole, s), RootOf(ix, rk, root),
         jx.info = ix.info, jx.pins = ix.pins, KeepsKids(jx, ix, n, page)
  PROVE  Settled(jx, ix, n, rk, T, root, page, whole, s)
<1>1. root \in T /\ rk[root] <= rk[root] /\ T \in SUBSET T
  BY DEF Good, Shape, Family
<1>2. RootOf(jx, rk, root)
  BY DEF RootOf
<1> QED
  BY <1>1, <1>2 DEF Settled, NoHigher

LEMMA RegroupKeeps ==
  ASSUME NEW ix, NEW jx, NEW n, NEW P, NEW k, NEW A, NEW D, NEW keep, NEW moved, NEW to,
         Regrouped(jx, ix, n, P, k, A, D, keep, moved, to)
  PROVE  KeepsKids(jx, ix, n, to)
<1>1. \A q \in 1 .. n : Par(jx, q) = IF q = moved THEN to ELSE Par(ix, q)
  BY DEF Regrouped
<1> QED
  BY <1>1 DEF KeepsKids

LEMMA NodeBorrowsLeft ==
  ASSUME NEW ix, NEW n, NEW rk, NEW T, NEW root, NEW page \in T, NEW whole, NEW s,
         Good(ix, n, rk, T, root, page, whole, s), RootOf(ix, rk, root), page # root,
         NEW P, NEW k, NEW left, Beside(ix, n, rk, T, P, k, left, page, page, left), rk[page] # 0,
         Num(ix, page) < MinKeys, Num(ix, left) > MinKeys,
         NEW jx, jx = BorrowInternalLeft(ix, page, left, P, k)
  PROVE  Settled(jx, ix, n, rk, T, root, page, whole, s)
<1> DEFINE keep == Num(ix, left) - 1
           moved == Kid(ix, left, Num(ix, left))
<1>1. Tree(ix, n, rk) /\ (MaxKeys >= 2 => Filled(ix, rk, T, root, page))
      /\ Num(ix, page) \in Nat /\ Num(ix, left) \in Nat
  BY DEF Good, Shape, Family, Beside
<1>2. Borrows(ix, n, rk, page, left, P, k) /\ rk[left] # 0 /\ rk[left] = rk[page]
  BY DEF Borrows, Beside
<1>3. keep = Num(ix, left) - 1 /\ moved = Kid(ix, left, Num(ix, left))
  OBVIOUS
<1> HIDE DEF keep, moved
<1>4. /\ Tree(jx, n, rk) /\ Regrouped(jx, ix, n, P, k, left, page, keep, moved, page)
      /\ Crosses(ix, left, page, keep, moved, page)
      /\ jx.pins = ix.pins /\ jx.info = ix.info
  BY <1>1, <1>2, <1>3, BorrowInternalLeftIs
<1>5. Lent(jx, ix, page, left)
  <2>1. Num(jx, left) = keep /\ Num(jx, page) = Num(ix, left) + Num(ix, page) - keep
    BY <1>4 DEF Regrouped, RowDivided
  <2> QED
    BY <1>1, <1>3, <2>1 DEF Lent
<1>6. MaxKeys >= 2 => Num(jx, left) >= AtLeast(rk[left]) /\ Num(jx, page) >= AtLeast(rk[left])
  <2>1. Enough(jx, page, left, rk[page])
    BY <1>1, <1>5, LentEnough
  <2> QED
    BY <1>2, <2>1 DEF Enough
<1>7. Pair(ix, rk, T, P, k, left, page) /\ page \in {left, page}
  BY DEF Beside
<1>8. Good(jx, n, rk, T, root, NoPage, whole, s)
  BY <1>2, <1>4, <1>6, <1>7, RegroupGood
<1>9. KeepsKids(jx, ix, n, page)
  BY <1>4, RegroupKeeps
<1> QED
  BY <1>4, <1>8, <1>9, RootStays

LEMMA NodeBorrowsRight ==
  ASSUME NEW ix, NEW n, NEW rk, NEW T, NEW root, NEW page \in T, NEW whole, NEW s,
         Good(ix, n, rk, T, root, page, whole, s), RootOf(ix, rk, root), page # root,
         NEW P, NEW k, NEW right, Beside(ix, n, rk, T, P, k, page, right, page, right), rk[page] # 0,
         Num(ix, page) < MinKeys, Num(ix, right) > MinKeys,
         NEW jx, jx = BorrowInternalRight(ix, page, right, P, k)
  PROVE  Settled(jx, ix, n, rk, T, root, page, whole, s)
<1> DEFINE keep == Num(ix, page) + 1
           moved == Kid(ix, right, 0)
<1>1. Tree(ix, n, rk) /\ (MaxKeys >= 2 => Filled(ix, rk, T, root, page))
      /\ Num(ix, page) \in Nat /\ Num(ix, right) \in Nat
  BY DEF Good, Shape, Family, Beside
<1>2. Borrows(ix, n, rk, page, right, P, k)
  BY DEF Borrows, Beside
<1>3. keep = Num(ix, page) + 1 /\ moved = Kid(ix, right, 0)
  OBVIOUS
<1> HIDE DEF keep, moved
<1>4. /\ Tree(jx, n, rk) /\ Regrouped(jx, ix, n, P, k, page, right, keep, moved, page)
      /\ Crosses(ix, page, right, keep, moved, page)
      /\ jx.pins = ix.pins /\ jx.info = ix.info
  BY <1>1, <1>2, <1>3, BorrowInternalRightIs
<1>5. Lent(jx, ix, page, right)
  <2>1. Num(jx, page) = keep /\ Num(jx, right) = Num(ix, page) + Num(ix, right) - keep
    BY <1>4 DEF Regrouped, RowDivided
  <2> QED
    BY <1>1, <1>3, <2>1 DEF Lent
<1>6. MaxKeys >= 2 => Num(jx, page) >= AtLeast(rk[page]) /\ Num(jx, right) >= AtLeast(rk[page])
  <2>1. Enough(jx, page, right, rk[page])
    BY <1>1, <1>5, LentEnough
  <2> QED
    BY <2>1 DEF Enough
<1>7. Pair(ix, rk, T, P, k, page, right) /\ page \in {page, right}
  BY DEF Beside
<1>8. Good(jx, n, rk, T, root, NoPage, whole, s)
  BY <1>4, <1>6, <1>7, RegroupGood
<1>9. KeepsKids(jx, ix, n, page)
  BY <1>4, RegroupKeeps
<1> QED
  BY <1>4, <1>8, <1>9, RootStays

\* Node A absorbs D, and D's entry in their parent is to go.
LEMMA NodeAbsorbs ==
  ASSUME NEW ix, NEW n, NEW rk, NEW T, NEW root, NEW page \in T, NEW whole, NEW s,
         Good(ix, n, rk, T, root, page, whole, s), RootOf(ix, rk, root),
         NEW P, NEW k, NEW A, NEW D, NEW other, Beside(ix, n, rk, T, P, k, A, D, page, other), rk[page] # 0,
         Num(ix, page) < MinKeys, ~(Num(ix, other) > MinKeys),
         NEW m, m.index = AbsorbInternal(Pin(ix, P), A, D, P, k), m.page = P, m.k = k
  PROVE  \E V \in SUBSET T : Pending(m, n, rk, V, root, whole, s) /\ LosesNode(rk, T, V)
<1> DEFINE V == T \ {D}
           ax == AbsorbInternal(Pin(ix, P), A, D, P, k)
           jx == CutAt(ax, P, k)
<1>1. Tree(ix, n, rk) /\ Family(ix, rk, T, root, NoPage) /\ T \subseteq 1 .. n
      /\ Num(ix, page) \in Nat /\ Num(ix, other) \in Nat
  BY DEF Good, Shape, Family, Beside
<1>2. /\ Pair(ix, rk, T, P, k, A, D) /\ page # other /\ {A, D} = {page, other}
      /\ P \in 1 .. n /\ P # page /\ P # other
      /\ rk[page] = rk[other] /\ rk[P] # 0 /\ k \in 1 .. Num(ix, P) /\ other \in T /\ P \in T
      /\ page \in 1 .. n /\ other \in 1 .. n
  BY DEF Beside
<1>3. /\ (A = page /\ D = other) \/ (A = other /\ D = page)
      /\ A \in 1 .. n /\ D \in 1 .. n /\ A # D /\ rk[A] # 0 /\ rk[D] = rk[A] /\ rk[D] # 0
      /\ P # A /\ P # D /\ D \in T /\ page \in {A, D}
  <2>1. (A = page /\ D = other) \/ (A = other /\ D = page)
    BY <1>2
  <2> QED
    BY <1>2, <2>1
<1>4. Num(ix, A) + Num(ix, D) < 2 * MinKeys
  <2>1. \A a, b, h \in Nat : a < h /\ ~(b > h) => a + b < 2 * h /\ b + a < 2 * h
    OBVIOUS
  <2>2. MinKeys \in Nat
    BY MinKeysFits
  <2>3. Num(ix, page) + Num(ix, other) < 2 * MinKeys /\ Num(ix, other) + Num(ix, page) < 2 * MinKeys
    BY <1>1, <2>1, <2>2
  <2> QED
    BY <1>3, <2>3
<1>5. \A i \in 0 .. Num(ix, D) : Kid(ix, D, i) # P
  <2>1. rk[A] + 1 = rk[P] /\ rk[A] = rk[D]
    BY <1>1, <1>2, PairPages
  <2>2. ASSUME NEW i \in 0 .. Num(ix, D) PROVE Kid(ix, D, i) # P
    <3>1. IsChild(ix, rk, T, root, NoPage, D, Kid(ix, D, i))
      BY <1>1, <1>3 DEF Family
    <3>2. rk[Kid(ix, D, i)] + 1 = rk[D]
      BY <3>1 DEF IsChild
    <3>3. rk[P] \in Nat /\ rk[D] \in Nat
      BY <1>1, <1>2, <1>3 DEF Family
    <3>4. P = Kid(ix, D, i) => rk[P] + 1 = rk[D]
      BY <3>2
    <3> QED
      BY <2>1, <3>3, <3>4
  <2> QED
    BY <2>2
<1>6. ax = AbsorbInternal(Pin(ix, P), A, D, P, k) /\ jx = CutAt(ax, P, k) /\ V = T \ {D}
  OBVIOUS
<1>7. m.index = ax /\ m.page = P /\ m.k = k
  OBVIOUS
<1> HIDE DEF ax, jx, V
<1>8. /\ Tree(ax, n, rk) /\ k \in 1 .. Num(ax, P) /\ Par(ax, P) = Par(ix, P)
      /\ Tree(jx, n, rk) /\ NodesMerged(jx, ix, n, P, k, A, D)
      /\ ax.info = ix.info
  BY <1>1, <1>2, <1>3, <1>4, <1>5, <1>6, AbsorbInternalCutIs
<1>9. Good(jx, n, rk, V, root, P, whole, s)
  BY <1>2, <1>3, <1>6, <1>8, NodeMergeGood
<1>10. RootOf(ax, rk, root)
  BY <1>8 DEF RootOf
<1>11. V \in SUBSET T /\ P \in V /\ D \in T \ V /\ P # NoPage
  <2>1. NoPage \notin T
    BY <1>1 DEF Family
  <2> QED
    BY <1>2, <1>3, <1>6, <2>1
<1>12. Pending(m, n, rk, V, root, whole, s)
  BY <1>2, <1>6, <1>7, <1>8, <1>9, <1>10, <1>11 DEF Pending
<1>13. LosesNode(rk, T, V)
  BY <1>3, <1>11 DEF LosesNode
<1> QED
  BY <1>11, <1>12, <1>13

-----------------------------------------------------------------------------
\* A root without entries gives way to its only child.
ShrunkTo(jx, ix, n, c, h) ==
    /\ \A q \in 1 .. n : q # c => jx.node[q] = ix.node[q]
    /\ jx.node[c].leftMost = ix.node[c].leftMost /\ jx.node[c].entries = ix.node[c].entries
    /\ SameChain(jx, ix, c) /\ Par(jx, c) = NoPage
    /\ jx.pins = ix.pins /\ jx.info = [root |-> c, height |-> h]

LEMMA ShrinkIs ==
  ASSUME NEW n, NEW rk, NEW ix, Tree(ix, n, rk), NEW p \in 1 .. n, rk[p] # 0,
         NEW call, call.info.height \in Nat, NEW jx, jx = ShrinkRootIfNeeded(ix, call, p),
         NEW c, c = Kid(ix, p, 0)
  PROVE  /\ Num(ix, p) # 0 => jx = ix
         /\ Num(ix, p) = 0 => Tree(jx, n, rk) /\ ShrunkTo(jx, ix, n, c, AtLeastOne(call.info.height - 1))
<1> DEFINE nd == ix.node[p]
           hx == WithParent(ix, c, NoPage)
           h == AtLeastOne(call.info.height - 1)
<1>1. /\ nd.kind = "internal" /\ nd.leftMost \in Below(n, rk, rk[p])
      /\ nd.entries \in Seq(Ents(n, rk, rk[p]))
  BY PageFields
<1>2. c = nd.leftMost /\ c \in 1 .. n /\ c # NoPage /\ n \in Nat
  BY <1>1 DEF Kid, ChildAt, Below, NoPage, Tree
<1>3. nd.entries = <<>> <=> Num(ix, p) = 0
  BY <1>1, EmptySeq DEF Num
<1>4. Num(ix, p) # 0 => jx = ix
  BY <1>3 DEF ShrinkRootIfNeeded
<1>5. NoPage \in Above(n, rk, rk[c])
  BY DEF Above
<1>6. Tree(hx, n, rk) /\ ParentSet(hx, ix, n, c, NoPage)
  BY <1>2, <1>5, ParentField
<1>7. ASSUME Num(ix, p) = 0 PROVE jx = UpdateIndexInfo(hx, c, h)
  BY <1>1, <1>2, <1>3, <1>7 DEF ShrinkRootIfNeeded, WithParent
<1>8. h \in Nat /\ c \in 0 .. n
  BY <1>2 DEF AtLeastOne
<1> HIDE DEF hx, h
<1>9. Tree(UpdateIndexInfo(hx, c, h), n, rk)
  BY <1>6, <1>8, InfoTree
<1>10. ASSUME Num(ix, p) = 0 PROVE Tree(jx, n, rk) /\ ShrunkTo(jx, ix, n, c, h)
  <2>1. jx = UpdateIndexInfo(hx, c, h)
    BY <1>7, <1>10
  <2>2. jx.node = hx.node /\ jx.pins = hx.pins /\ jx.info = [root |-> c, height |-> h]
    BY <1>6, <2>1, InfoSet
  <2>3. ShrunkTo(jx, ix, n, c, h)
    BY <1>6, <2>2 DEF ShrunkTo, ParentSet, Only, SameChain, Par
  <2> QED
    BY <1>9, <2>1, <2>3
<1> QED
  BY <1>4, <1>10 DEF h

LEMMA RootIs ==
  ASSUME NEW ix, NEW rk, NEW T, NEW root, Family(ix, rk, T, root, NoPage), rk[root] # 0,
         Num(ix, root) = 0, \A p \in T : rk[p] <= rk[root], NEW c, c = Kid(ix, root, 0)
  PROVE  /\ c \in T /\ c # root /\ rk[c] + 1 = rk[root] /\ rk[c] \in Nat
         /\ \A p \in T \ {root} : rk[p] <= rk[c]
<1>1. /\ root \in T /\ \A p \in T : rk[p] \in Nat
      /\ \A p \in T : p # root => HasParent(ix, rk, T, p)
  BY DEF Family
<1>2. IsChild(ix, rk, T, root, NoPage, root, c)
  BY <1>1 DEF Family
<1>3. c \in T /\ c # root /\ rk[c] + 1 = rk[root]
  BY <1>2 DEF IsChild
<1>4. ASSUME NEW p \in T \ {root} PROVE rk[p] <= rk[c]
  <2>1. PICK i \in 0 .. Num(ix, Par(ix, p)) :
          Par(ix, p) \in T /\ rk[Par(ix, p)] # 0 /\ Kid(ix, Par(ix, p), i) = p
    BY <1>1, <1>4 DEF HasParent
  <2>2. IsChild(ix, rk, T, root, NoPage, Par(ix, p), p)
    BY <2>1 DEF Family
  <2>3. rk[p] + 1 = rk[Par(ix, p)] /\ rk[Par(ix, p)] <= rk[root]
    BY <2>1, <2>2 DEF IsChild
  <2> QED
    BY <1>1, <1>3, <1>4, <2>3
<1> QED
  BY <1>1, <1>3, <1>4

LEMMA ShrinkKeys ==
  ASSUME NEW ix, NEW jx, NEW rk, NEW T, NEW root, NEW R, Family(ix, rk, T, root, NoPage),
         KeyedAs(ix, rk, T, root, R), rk[root] # 0, Num(ix, root) = 0,
         NEW c, c = Kid(ix, root, 0), c \in T,
         \A p \in T : SameKeys(jx, ix, p) /\ SameKids(jx, ix, p), NEW V, V = T \ {root}
  PROVE  KeyedAs(jx, rk, V, c, R)
<1>1. /\ \A p \in T : R[p] \subseteq Int /\ R[p] # {} /\ Convex(R[p])
      /\ R[root] = Int /\ root \in T
      /\ \A p \in T : rk[p] # 0 =>
            \A i \in 0 .. Num(ix, p) : \A x \in Int :
               x \in R[Kid(ix, p, i)] <=> Between(ix, R, p, i, x)
      /\ \A p \in T : \A i \in 1 .. Num(ix, p) : Key(ix, p, i) \in R[p]
      /\ \A p \in T : Sorted(ix, p)
  <2>1. root \in T
    BY DEF Family
  <2> QED
    BY <2>1, KeyedPlain
<1>2. R[c] = Int
  <2>1. \A x \in Int : x \in R[c] <=> Between(ix, R, root, 0, x)
    BY <1>1
  <2>2. \A x \in Int : Between(ix, R, root, 0, x)
    BY <1>1 DEF Between
  <2>3. R[c] \subseteq Int
    BY <1>1
  <2> QED
    BY <2>1, <2>2, <2>3
<1>3. ASSUME NEW p \in V, rk[p] # 0, NEW i \in 0 .. Num(jx, p), NEW x \in Int
      PROVE  x \in R[Kid(jx, p, i)] <=> Between(jx, R, p, i, x)
  <2>1. /\ Num(jx, p) = Num(ix, p) /\ \A j \in 1 .. Num(ix, p) : Key(jx, p, j) = Key(ix, p, j)
        /\ Kid(jx, p, i) = Kid(ix, p, i) /\ Num(ix, p) \in Nat
    BY <1>3 DEF SameKeys, SameKids, Family
  <2>2. x \in R[Kid(ix, p, i)] <=> Between(ix, R, p, i, x)
    BY <1>1, <1>3, <2>1
  <2>3. i # 0 => i \in 1 .. Num(ix, p)
    BY <1>3, <2>1
  <2>4. i # Num(ix, p) => i + 1 \in 1 .. Num(ix, p)
    BY <1>3, <2>1
  <2> QED
    BY <2>1, <2>2, <2>3, <2>4 DEF Between
<1>4. \A p \in V : \A i \in 1 .. Num(jx, p) : Key(jx, p, i) \in R[p]
  BY <1>1 DEF SameKeys
<1>5. \A p \in V : Sorted(jx, p)
  BY <1>1 DEF SameKeys, Sorted
<1>6. \A p \in V : R[p] \subseteq Int /\ R[p] # {} /\ Convex(R[p])
  BY <1>1
<1> QED
  BY <1>2, <1>3, <1>4, <1>5, <1>6, PlainKeyed

LEMMA ShrinkSettles ==
  ASSUME NEW ix, NEW n, NEW rk, NEW T, NEW root, NEW whole, NEW s,
         Good(ix, n, rk, T, root, root, whole, s), RootOf(ix, rk, root), rk[root] # 0,
         NEW call, call.info.height = rk[root] + 1,
         NEW jx, jx = ShrinkRootIfNeeded(ix, call, root)
  PROVE  Settled(jx, ix, n, rk, T, root, root, whole, s)
<1> DEFINE c == Kid(ix, root, 0)
           h == AtLeastOne(call.info.height - 1)
           V == T \ {root}
<1>1. /\ Tree(ix, n, rk) /\ T \subseteq 1 .. n /\ Family(ix, rk, T, root, NoPage)
      /\ Par(ix, root) = NoPage /\ root \in T /\ NoPage \notin T
      /\ \A p \in T : rk[p] \in Nat /\ Num(ix, p) \in Nat /\ rk[p] <= rk[root] /\ p \in 1 .. n
      /\ MaxKeys >= 2 => Filled(ix, rk, T, root, root)
      /\ Items(ix, rk, T) = s
  BY DEF Good, Shape, Family
<1>2. call.info.height \in Nat
  BY <1>1
<1>0. c = Kid(ix, root, 0) /\ h = AtLeastOne(call.info.height - 1) /\ V = T \ {root}
  OBVIOUS
<1> HIDE DEF c, h, V
<1>3. /\ Num(ix, root) # 0 => jx = ix
      /\ Num(ix, root) = 0 => Tree(jx, n, rk) /\ ShrunkTo(jx, ix, n, c, h)
  <2>1. root \in 1 .. n
    BY <1>1
  <2> QED
    BY <1>0, <1>1, <1>2, <2>1, ShrinkIs
<1>4. CASE Num(ix, root) # 0
  <2>1. jx = ix
    BY <1>3, <1>4
  <2>2. MaxKeys >= 2 => Filled(ix, rk, T, root, NoPage)
    <3>1. ASSUME MaxKeys >= 2, NEW p \in T
          PROVE  Num(ix, p) + (IF p = NoPage THEN 1 ELSE 0) >= Need(rk, root, p)
      <4>1. Num(ix, p) + (IF p = root THEN 1 ELSE 0) >= Need(rk, root, p)
        BY <1>1, <3>1 DEF Filled
      <4>2. p # NoPage
        BY <1>1, <3>1
      <4>3. CASE p = root
        <5>1. Need(rk, root, p) = 1
          BY <4>3 DEF Need
        <5>2. Num(ix, p) >= 1 /\ Num(ix, p) \in Nat
          BY <1>1, <1>4, <4>3
        <5> QED
          BY <4>2, <5>1, <5>2
      <4>4. CASE p # root
        BY <4>1, <4>2, <4>4
      <4> QED
        BY <4>3, <4>4
    <3> QED
      BY <3>1 DEF Filled
  <2>3. Good(ix, n, rk, T, root, NoPage, whole, s)
    BY <2>2 DEF Good
  <2>4. KeepsKids(ix, ix, n, root)
    BY DEF KeepsKids
  <2> QED
    BY <2>1, <2>3, <2>4, RootStays
<1>5. CASE Num(ix, root) = 0
  <2>1. Tree(jx, n, rk) /\ ShrunkTo(jx, ix, n, c, h)
    BY <1>3, <1>5
  <2>2. /\ c \in T /\ c # root /\ rk[c] + 1 = rk[root] /\ rk[c] \in Nat
        /\ \A p \in V : rk[p] <= rk[c]
    <3>1. \A p \in T : rk[p] <= rk[root]
      BY <1>1
    <3>2. /\ c \in T /\ c # root /\ rk[c] + 1 = rk[root] /\ rk[c] \in Nat
          /\ \A p \in T \ {root} : rk[p] <= rk[c]
      <4>1. Family(ix, rk, T, root, NoPage) /\ c = Kid(ix, root, 0)
        BY <1>0, <1>1
      <4> QED
        BY ONLY <1>5, <3>1, <4>1, rk[root] # 0, RootIs
    <3> QED
      BY <1>0, <3>2
  <2>3. /\ \A q \in 1 .. n : q # c => jx.node[q] = ix.node[q]
        /\ jx.node[c].leftMost = ix.node[c].leftMost /\ jx.node[c].entries = ix.node[c].entries
        /\ SameChain(jx, ix, c) /\ Par(jx, c) = NoPage
        /\ jx.pins = ix.pins /\ jx.info = [root |-> c, height |-> h]
    BY <2>1 DEF ShrunkTo
  <2>4. ASSUME NEW p \in T
        PROVE  /\ SameKeys(jx, ix, p) /\ SameKids(jx, ix, p) /\ SameChain(jx, ix, p)
               /\ Num(jx, p) = Num(ix, p)
               /\ jx.node[p].entries = ix.node[p].entries
               /\ p # c => Par(jx, p) = Par(ix, p)
    <3>1. /\ jx.node[p].entries = ix.node[p].entries /\ jx.node[p].leftMost = ix.node[p].leftMost
          /\ SameChain(jx, ix, p) /\ (p # c => jx.node[p] = ix.node[p])
      <4>1. CASE p = c
        BY <2>3, <4>1
      <4>2. CASE p # c
        BY <1>1, <2>3, <4>2 DEF SameChain
      <4> QED
        BY <4>1, <4>2
    <3> QED
      BY <3>1 DEF SameKeys, SameKids, Num, Kid, Key, ChildAt, Par
  <2>5. Shape(jx, n, rk, V, c, NoPage)
    <3>1. /\ \A p \in T : Num(jx, p) = Num(ix, p)
          /\ \A p \in T : rk[p] # 0 => SameKids(jx, ix, p)
          /\ \A p \in T : p # c => Par(jx, p) = Par(ix, p)
      BY <2>4
    <3>2. Family(jx, rk, V, c, NoPage)
      BY <1>0, <1>1, <1>5, <3>1, ShrinkFamily
    <3>3. V \subseteq 1 .. n
      BY <1>0, <1>1
    <3> QED
      BY <2>1, <2>2, <2>3, <3>2, <3>3 DEF Shape
  <2>6. MaxKeys >= 2 => Filled(jx, rk, V, c, NoPage)
    <3>1. ASSUME MaxKeys >= 2, NEW p \in V
          PROVE  Num(jx, p) + (IF p = NoPage THEN 1 ELSE 0) >= Need(rk, c, p)
      <4>0. p \in T /\ p # root /\ p # NoPage
        BY <1>0, <1>1, <3>1
      <4>1. Num(ix, p) + (IF p = root THEN 1 ELSE 0) >= Need(rk, root, p)
        BY <1>1, <3>1, <4>0 DEF Filled
      <4>2. Num(ix, p) >= AtLeast(rk[p]) /\ Num(ix, p) \in Nat
        <5>1. Need(rk, root, p) = AtLeast(rk[p]) /\ (IF p = root THEN 1 ELSE 0) = 0
          BY <4>0 DEF Need
        <5>2. Num(ix, p) \in Nat /\ AtLeast(rk[p]) \in Nat
          BY <1>1, <4>0, AtLeastIs
        <5>3. Num(ix, p) + 0 >= AtLeast(rk[p])
          BY <4>1, <5>1
        <5> QED
          BY <5>2, <5>3
      <4>3. Need(rk, c, p) \in Nat /\ Need(rk, c, p) <= AtLeast(rk[p]) /\ AtLeast(rk[p]) \in Nat
        BY AtLeastIs DEF Need
      <4>4. Num(jx, p) = Num(ix, p) /\ (IF p = NoPage THEN 1 ELSE 0) = 0
        BY <2>4, <4>0
      <4> QED
        BY <4>2, <4>3, <4>4
    <3> QED
      BY <3>1 DEF Filled
  <2>7. ASSUME Unique PROVE \E R : KeyedAs(jx, rk, V, c, R) /\ (whole => Chained(jx, rk, V, R))
    <3>1. PICK R : KeyedAs(ix, rk, T, root, R) /\ (whole => Chained(ix, rk, T, R))
      BY <2>7 DEF Good
    <3>2. \A p \in T : SameKeys(jx, ix, p) /\ SameKids(jx, ix, p)
      BY <2>4
    <3>3. KeyedAs(jx, rk, V, c, R)
      BY <1>0, <1>1, <1>5, <2>2, <3>1, <3>2, ShrinkKeys
    <3>4. ASSUME whole PROVE Chained(jx, rk, V, R)
      <4>1. Chained(ix, rk, T, R)
        BY <3>1, <3>4
      <4>2. \A p \in T : rk[p] = 0 => SameChain(jx, ix, p) /\ R[p] = R[p]
        BY <2>4
      <4>3. \A p : (p \in V /\ rk[p] = 0) <=> (p \in T /\ rk[p] = 0)
        BY <1>0
      <4> QED
        BY <4>1, <4>2, <4>3, ChainedSame
    <3> QED
      BY <3>3, <3>4
  <2>8. Items(jx, rk, V) = s
    <3>1. \A p \in T : rk[p] = 0 => jx.node[p].entries = ix.node[p].entries
      BY <2>4
    <3>2. \A p : (p \in V /\ rk[p] = 0) <=> (p \in T /\ rk[p] = 0)
      BY <1>0
    <3>3. Items(jx, rk, V) = Items(ix, rk, T)
      BY <3>1, <3>2, ItemsSame
    <3> QED
      BY <1>1, <3>3
  <2>9. Good(jx, n, rk, V, c, NoPage, whole, s)
    BY <2>5, <2>6, <2>7, <2>8 DEF Good
  <2>10. RootOf(jx, rk, c)
    <3>1. h = rk[c] + 1
      BY <1>0, <1>1, <2>2 DEF AtLeastOne
    <3> QED
      BY <2>3, <3>1 DEF RootOf
  <2>11. V \in SUBSET T /\ c \in V /\ LosesNode(rk, T, V)
    BY <1>0, <1>1, <2>2 DEF LosesNode
  <2>12. NoHigher(rk, root, c)
    BY <1>1, <2>2 DEF NoHigher
  <2> QED
    BY <2>3, <2>9, <2>10, <2>11, <2>12 DEF Settled
<1> QED
  BY <1>4, <1>5

-----------------------------------------------------------------------------
\* One turn of removeParentEntryAt: it is done, or an internal node is gone and an entry one level
\* up is to go.
Turns(q, ix, n, rk, T, root, page, whole, s) ==
    \/ q.page = NoPage /\ q.by = <<>> /\ Settled(q.index, ix, n, rk, T, root, page, whole, s)
    \/ /\ q.page # NoPage /\ rk[q.page] = rk[page] + 1
       /\ \E V \in SUBSET T : Pending(q, n, rk, V, root, whole, s) /\ LosesNode(rk, T, V)

LEMMA EndsTurns ==
  ASSUME NEW jx, NEW ix, NEW n, NEW rk, NEW T, NEW root, NEW page, NEW whole, NEW s,
         Settled(jx, ix, n, rk, T, root, page, whole, s), NEW q, q = Ends(jx)
  PROVE  Turns(q, ix, n, rk, T, root, page, whole, s)
BY DEF Turns, Ends, Removes

LEMMA RemovesTurns ==
  ASSUME NEW ax, NEW ix, NEW n, NEW rk, NEW T, NEW root, NEW page, NEW whole, NEW s, NEW P, NEW k, NEW by,
         P # NoPage, rk[P] = rk[page] + 1, NEW q, q = Removes(ax, P, k, by),
         \E V \in SUBSET T : Pending(q, n, rk, V, root, whole, s) /\ LosesNode(rk, T, V)
  PROVE  Turns(q, ix, n, rk, T, root, page, whole, s)
<1>1. q.page = P
  BY DEF Removes
<1> QED
  BY <1>1 DEF Turns

\* A node that is full enough.
LEMMA EnoughSettles ==
  ASSUME NEW ix, NEW n, NEW rk, NEW T, NEW root, NEW page \in T, NEW whole, NEW s,
         Good(ix, n, rk, T, root, page, whole, s), RootOf(ix, rk, root), page # root,
         ~(MaxKeys >= 2) \/ ~(Num(ix, page) < MinKeys)
  PROVE  Good(ix, n, rk, T, root, NoPage, whole, s)
<1>1. /\ NoPage \notin T /\ \A p \in T : Num(ix, p) \in Nat
      /\ MaxKeys >= 2 => Filled(ix, rk, T, root, page)
  BY DEF Good, Shape, Family
<1>2. ASSUME MaxKeys >= 2, NEW p \in T
      PROVE  Num(ix, p) + (IF p = NoPage THEN 1 ELSE 0) >= Need(rk, root, p)
  <2>1. Num(ix, p) + (IF p = page THEN 1 ELSE 0) >= Need(rk, root, p) /\ p # NoPage
    BY <1>1, <1>2 DEF Filled
  <2>2. CASE p = page
    <3>1. Need(rk, root, p) = AtLeast(rk[p])
      BY <2>2 DEF Need
    <3>2. AtLeast(rk[p]) \in Nat /\ AtLeast(rk[p]) <= MinKeys /\ MinKeys \in Nat /\ Num(ix, p) \in Nat
      BY <1>1, AtLeastIs
    <3>3. ~(Num(ix, p) < MinKeys)
      BY <1>2, <2>2
    <3> QED
      BY <2>1, <3>1, <3>2, <3>3
  <2>3. CASE p # page
    BY <2>1, <2>3
  <2> QED
    BY <2>2, <2>3
<1>3. MaxKeys >= 2 => Filled(ix, rk, T, root, NoPage)
  BY <1>2 DEF Filled
<1> QED
  BY <1>3 DEF Good

LEMMA RebalanceTurns ==
  ASSUME NEW ix, NEW n, NEW rk, NEW T, NEW root, NEW page \in T, NEW whole, NEW s,
         Good(ix, n, rk, T, root, page, whole, s), RootOf(ix, rk, root), rk[page] # 0,
         Par(ix, page) # NoPage, Num(ix, page) < MinKeys, NEW call,
         NEW q, q = RebalanceInternal(ix, call, page)
  PROVE  Turns(q, ix, n, rk, T, root, page, whole, s)
<1> DEFINE nd     == ix.node[page]
           parent == nd.parent
           ph     == ix.node[parent]
           i      == FindChildIndex(ph, page)
           left   == IF i > 0 THEN ChildAt(ph, i - 1) ELSE NoPage
           right  == IF i + 1 <= Len(ph.entries) THEN ChildAt(ph, i + 1) ELSE NoPage
           held   == Pin(ix, parent)
<1>1. /\ Tree(ix, n, rk) /\ T \subseteq 1 .. n /\ Family(ix, rk, T, root, NoPage)
      /\ \A p \in T : p \in 1 .. n
  BY DEF Good, Shape
<1>2. parent = Par(ix, page) /\ parent # NoPage /\ i = FindChildIndex(ix.node[parent], page)
  BY DEF Par
<1>3. Underfull(nd)
  BY DEF Underfull, Num
<1>4. left = IF i > 0 THEN ChildAt(ix.node[parent], i - 1) ELSE NoPage
  OBVIOUS
<1>5. right = IF i + 1 <= Num(ix, parent) THEN ChildAt(ix.node[parent], i + 1) ELSE NoPage
  BY DEF Num
<1>6. ~(i < 0) => RebalanceInternal(ix, call, page) =
        IF left # NoPage /\ Lends(ix.node[left], "internal")
        THEN Ends(BorrowInternalLeft(ix, page, left, parent, i))
        ELSE IF right # NoPage /\ Lends(ix.node[right], "internal")
        THEN Ends(BorrowInternalRight(ix, page, right, parent, i + 1))
        ELSE IF left # NoPage /\ ix.node[left].kind = "internal"
        THEN Removes(AbsorbInternal(held, left, page, parent, i), parent, i, <<left>>)
        ELSE IF right # NoPage /\ ix.node[right].kind = "internal"
        THEN Removes(AbsorbInternal(held, page, right, parent, i + 1), parent, i + 1, <<parent>>)
        ELSE Ends(ix)
  BY <1>2, <1>3 DEF RebalanceInternal
<1>7. held = Pin(ix, parent)
  OBVIOUS
<1> HIDE DEF parent, i, left, right, held
<1>8. /\ parent \in T /\ rk[parent] # 0 /\ rk[parent] = rk[page] + 1 /\ page # root /\ parent # page
      /\ Num(ix, parent) \in Nat /\ i \in 0 .. Num(ix, parent) /\ Kid(ix, parent, i) = page
      /\ MaxKeys >= 2 => Num(ix, parent) # 0
  BY <1>2, ThinPlace
<1>9. ~(i < 0) /\ i \in Int
  BY <1>8
<1>10. ASSUME left # NoPage
       PROVE  /\ Beside(ix, n, rk, T, parent, i, left, page, page, left)
              /\ ix.node[left].kind = "internal"
  <2>1. i > 0 /\ left = ChildAt(ix.node[parent], i - 1)
    BY <1>4, <1>10
  <2>2. Beside(ix, n, rk, T, parent, i, left, page, page, left)
    BY <1>1, <1>8, <2>1, LeftBeside
  <2>3. left \in 1 .. n /\ rk[left] # 0
    BY <2>2 DEF Beside
  <2> QED
    BY <1>1, <2>2, <2>3, PageFields
<1>11. ASSUME right # NoPage
       PROVE  /\ Beside(ix, n, rk, T, parent, i + 1, page, right, page, right)
              /\ ix.node[right].kind = "internal"
  <2>1. i + 1 <= Num(ix, parent) /\ right = ChildAt(ix.node[parent], i + 1)
    BY <1>5, <1>11
  <2>2. Beside(ix, n, rk, T, parent, i + 1, page, right, page, right)
    BY <1>1, <1>8, <2>1, RightBeside
  <2>3. right \in 1 .. n /\ rk[right] # 0
    BY <2>2 DEF Beside
  <2> QED
    BY <1>1, <2>2, <2>3, PageFields
<1>12. CASE left # NoPage /\ Lends(ix.node[left], "internal")
  <2> DEFINE jx == BorrowInternalLeft(ix, page, left, parent, i)
  <2>1. q = Ends(jx) /\ jx = BorrowInternalLeft(ix, page, left, parent, i)
    BY <1>6, <1>9, <1>12
  <2> HIDE DEF jx
  <2>2. Num(ix, left) > MinKeys
    BY <1>12 DEF Lends, Num
  <2>3. Beside(ix, n, rk, T, parent, i, left, page, page, left)
    BY <1>10, <1>12
  <2>4. Settled(jx, ix, n, rk, T, root, page, whole, s)
    BY <1>8, <2>1, <2>2, <2>3, NodeBorrowsLeft
  <2> QED
    BY <2>1, <2>4, EndsTurns
<1>13. CASE ~(left # NoPage /\ Lends(ix.node[left], "internal"))
            /\ right # NoPage /\ Lends(ix.node[right], "internal")
  <2> DEFINE k == i + 1
             jx == BorrowInternalRight(ix, page, right, parent, k)
  <2>1. q = Ends(jx)
    BY <1>6, <1>9, <1>13
  <2>2. jx = BorrowInternalRight(ix, page, right, parent, k) /\ k = i + 1
    OBVIOUS
  <2> HIDE DEF jx, k
  <2>3. Num(ix, right) > MinKeys
    BY <1>13 DEF Lends, Num
  <2>4. Beside(ix, n, rk, T, parent, k, page, right, page, right)
    BY <1>11, <1>13, <2>2
  <2>5. Settled(jx, ix, n, rk, T, root, page, whole, s)
    BY <1>8, <2>2, <2>3, <2>4, NodeBorrowsRight
  <2> QED
    BY <2>1, <2>5, EndsTurns
<1>14. CASE left # NoPage /\ ~Lends(ix.node[left], "internal")
            /\ ~(right # NoPage /\ Lends(ix.node[right], "internal"))
  <2> DEFINE ax == AbsorbInternal(held, left, page, parent, i)
  <2>1. q = Removes(ax, parent, i, <<left>>)
    BY <1>6, <1>9, <1>10, <1>14
  <2>2. ax = AbsorbInternal(Pin(ix, parent), left, page, parent, i)
    BY <1>7
  <2> HIDE DEF ax
  <2>3. ~(Num(ix, left) > MinKeys)
    BY <1>10, <1>14 DEF Lends, Num
  <2>4. Beside(ix, n, rk, T, parent, i, left, page, page, left)
    BY <1>10, <1>14
  <2>5. q.index = AbsorbInternal(Pin(ix, parent), left, page, parent, i) /\ q.page = parent /\ q.k = i
    BY <2>1, <2>2 DEF Removes
  <2>6. \E V \in SUBSET T : Pending(q, n, rk, V, root, whole, s) /\ LosesNode(rk, T, V)
    BY <2>3, <2>4, <2>5, NodeAbsorbs
  <2> QED
    BY <1>2, <1>8, <2>1, <2>6, RemovesTurns
<1>15. CASE left = NoPage /\ right # NoPage /\ ~Lends(ix.node[right], "internal")
  <2> DEFINE k == i + 1
             ax == AbsorbInternal(held, page, right, parent, k)
  <2>1. q = Removes(ax, parent, k, <<parent>>)
    BY <1>6, <1>9, <1>11, <1>15
  <2>2. ax = AbsorbInternal(Pin(ix, parent), page, right, parent, k) /\ k = i + 1
    BY <1>7
  <2> HIDE DEF ax, k
  <2>3. ~(Num(ix, right) > MinKeys)
    BY <1>11, <1>15 DEF Lends, Num
  <2>4. Beside(ix, n, rk, T, parent, k, page, right, page, right)
    BY <1>11, <1>15, <2>2
  <2>5. q.index = AbsorbInternal(Pin(ix, parent), page, right, parent, k) /\ q.page = parent /\ q.k = k
    BY <2>1, <2>2 DEF Removes
  <2>6. \E V \in SUBSET T : Pending(q, n, rk, V, root, whole, s) /\ LosesNode(rk, T, V)
    BY <2>3, <2>4, <2>5, NodeAbsorbs
  <2> QED
    BY <1>2, <1>8, <2>1, <2>6, RemovesTurns
<1>16. CASE left = NoPage /\ right = NoPage
  <2>1. q = Ends(ix)
    BY <1>6, <1>9, <1>16
  <2>2. ~(MaxKeys >= 2)
    <3>1. ASSUME MaxKeys >= 2 PROVE FALSE
      <4>1. CASE i > 0
        <5>1. Beside(ix, n, rk, T, parent, i, ChildAt(ix.node[parent], i - 1), page, page,
                     ChildAt(ix.node[parent], i - 1))
          BY <1>1, <1>8, <4>1, LeftBeside
        <5>2. ChildAt(ix.node[parent], i - 1) # NoPage
          BY <5>1 DEF Beside
        <5> QED
          BY <1>4, <1>16, <4>1, <5>2
      <4>2. CASE i + 1 <= Num(ix, parent)
        <5>1. Beside(ix, n, rk, T, parent, i + 1, page, ChildAt(ix.node[parent], i + 1), page,
                     ChildAt(ix.node[parent], i + 1))
          BY <1>1, <1>8, <4>2, RightBeside
        <5>2. ChildAt(ix.node[parent], i + 1) # NoPage
          BY <5>1 DEF Beside
        <5> QED
          BY <1>5, <1>16, <4>2, <5>2
      <4>3. Num(ix, parent) # 0
        BY <1>8, <3>1
      <4> QED
        BY <1>8, <4>1, <4>2, <4>3
    <3> QED
      BY <3>1
  <2>3. Good(ix, n, rk, T, root, NoPage, whole, s)
    BY <1>8, <2>2, EnoughSettles
  <2>4. KeepsKids(ix, ix, n, page)
    BY DEF KeepsKids
  <2>5. Settled(ix, ix, n, rk, T, root, page, whole, s)
    BY <2>3, <2>4, RootStays
  <2> QED
    BY <2>1, <2>5, EndsTurns
<1> QED
  BY <1>12, <1>13, <1>14, <1>15, <1>16

-----------------------------------------------------------------------------
LEMMA RemoveEntryTurns ==
  ASSUME NEW l, NEW n, NEW rk, NEW T, NEW root, NEW whole, NEW s, Pending(l, n, rk, T, root, whole, s),
         NEW call, call.info.height = rk[root] + 1,
         NEW q, q = RemoveEntry(l.index, call, l.page, l.k)
  PROVE  Turns(q, l.index, n, rk, T, root, l.page, whole, s)
<1> DEFINE ix == l.index
           page == l.page
           gx == CutAt(ix, page, l.k)
<1>1. /\ Tree(ix, n, rk) /\ page \in T /\ rk[page] # 0 /\ page # NoPage
      /\ l.k \in 1 .. Num(ix, page)
      /\ RootOf(ix, rk, root)
      /\ Good(gx, n, rk, T, root, page, whole, s)
  BY DEF Pending
<1>2. q = IF Par(ix, page) = NoPage THEN Ends(ShrinkRootIfNeeded(gx, call, page))
          ELSE IF Underfull(gx.node[page]) THEN RebalanceInternal(gx, call, page)
          ELSE Ends(gx)
  BY DEF RemoveEntry, CutAt, WithEntries, Par
<1>0. gx = CutAt(ix, page, l.k)
  OBVIOUS
<1> HIDE DEF gx
<1>3. /\ T \subseteq 1 .. n /\ Family(gx, rk, T, root, NoPage) /\ Par(gx, root) = NoPage /\ NoPage \notin T
  BY <1>1 DEF Good, Shape, Family
<1>4. Removed(gx, ix, n, page, l.k)
  <2>1. page \in 1 .. n
    BY <1>1, <1>3
  <2> QED
    BY <1>0, <1>1, <2>1, CutEffect
<1>5. /\ \A r \in 1 .. n : Par(gx, r) = Par(ix, r)
      /\ gx.pins = ix.pins /\ gx.info = ix.info
  BY <1>4 DEF Removed, Only, Par
<1>6. RootOf(gx, rk, root) /\ Par(gx, page) = Par(ix, page)
  <2>1. page \in 1 .. n
    BY <1>1, <1>3
  <2> QED
    BY <1>1, <1>5, <2>1 DEF RootOf
<1>7. page = root \/ Par(gx, page) # NoPage
  <2>1. page # root => HasParent(gx, rk, T, page)
    BY <1>1, <1>3 DEF Family
  <2> QED
    BY <1>3, <2>1 DEF HasParent
<1>8. Turns(q, gx, n, rk, T, root, page, whole, s)
  <2>1. CASE Par(ix, page) = NoPage
    <3> DEFINE jx == ShrinkRootIfNeeded(gx, call, root)
    <3>1. page = root /\ q = Ends(jx)
      BY <1>2, <1>6, <1>7, <2>1
    <3>2. jx = ShrinkRootIfNeeded(gx, call, root)
      OBVIOUS
    <3> HIDE DEF jx
    <3>3. Settled(jx, gx, n, rk, T, root, root, whole, s)
      BY <1>1, <1>6, <3>1, <3>2, ShrinkSettles
    <3> QED
      BY <3>1, <3>3, EndsTurns
  <2>2. CASE Par(ix, page) # NoPage /\ Num(gx, page) < MinKeys
    <3>1. q = RebalanceInternal(gx, call, page)
      BY <1>2, <2>2 DEF Underfull, Num
    <3> QED
      BY <1>1, <1>6, <2>2, <3>1, RebalanceTurns
  <2>3. CASE Par(ix, page) # NoPage /\ ~(Num(gx, page) < MinKeys)
    <3>1. q = Ends(gx)
      BY <1>2, <2>3 DEF Underfull, Num
    <3>2. page # root
      BY <1>3, <1>6, <2>3
    <3>3. Good(gx, n, rk, T, root, NoPage, whole, s)
      BY <1>1, <1>6, <2>3, <3>2, EnoughSettles
    <3>4. KeepsKids(gx, gx, n, page)
      BY DEF KeepsKids
    <3>5. Settled(gx, gx, n, rk, T, root, page, whole, s)
      BY <1>6, <3>3, <3>4, RootStays
    <3> QED
      BY <3>1, <3>5, EndsTurns
  <2> QED
    BY <2>1, <2>2, <2>3
<1>9. Settled(q.index, gx, n, rk, T, root, page, whole, s) =>
         Settled(q.index, ix, n, rk, T, root, page, whole, s)
  BY <1>5 DEF Settled, KeepsKids
<1> QED
  BY <1>8, <1>9 DEF Turns

-----------------------------------------------------------------------------
\* What removeParentEntryAt returns is what the last of its turns has, but for pins.
RemoveLevels(f, last, first, call) ==
    f[0] = first /\ \A m \in 1 .. last : f[m] = RemoveTurn(f[m - 1], call)
RemoveRan(ix, call, page, k, n) ==
    \E f : /\ RemoveLevels(f, Size(ix), Removes(ix, page, k, <<>>), call)
           /\ \A m \in 0 .. Size(ix) : f[m].by \in Seq(1 .. n)
           /\ RemoveParentEntryAt(ix, call, page, k) = ReleasedBy(f[Size(ix)].index, f[Size(ix)].by)

LEMMA RemoveRuns ==
  ASSUME NEW n, NEW rk, NEW ix, Tree(ix, n, rk), NEW page \in 1 .. n, rk[page] # 0,
         NEW k \in 1 .. Len(ix.node[page].entries), NEW call, call.info.height \in Nat
  PROVE  RemoveRan(ix, call, page, k, n)
<1> DEFINE last == Size(ix)
           first == Removes(ix, page, k, <<>>)
           S == Goings(n, rk)
           G == [m \in 1 .. last |-> [l \in S |-> RemoveTurn(l, call)]]
           f == CHOOSE f :
                  f = [m \in 0 .. last |-> IF m = 0 THEN first ELSE RemoveTurn(f[m - 1], call)]
<1>1. last \in Nat
  BY SizeOf
<1>2. first \in S
  <2>1. <<>> \in Seq(1 .. n)
    OBVIOUS
  <2> QED
    BY <2>1, RemovesGoes
<1>3. \A l \in S : RemoveTurn(l, call) \in S
  BY RemoveTurnGoes
<1> HIDE DEF S, last, first
<1>4. G \in [1 .. last -> [S -> S]]
  BY <1>3
<1>5. \A l \in S : \A m \in 1 .. last : G[m][l] = RemoveTurn(l, call)
  OBVIOUS
<1> HIDE DEF G
<1>6. PICK g \in [0 .. last -> S] :
        g[0] = first /\ \A m \in 1 .. last : g[m] = G[m][g[m - 1]]
  <2>1. Loops(S, first, last, G)
    BY <1>1, <1>2, <1>4, LoopExists
  <2> QED
    BY <2>1 DEF Loops
<1>7. g = [m \in 0 .. last |-> IF m = 0 THEN first ELSE RemoveTurn(g[m - 1], call)]
  <2>1. ASSUME NEW m \in 0 .. last
        PROVE g[m] = IF m = 0 THEN first ELSE RemoveTurn(g[m - 1], call)
    <3>1. m # 0 => m \in 1 .. last /\ g[m - 1] \in S
      BY <1>1
    <3> QED
      BY <1>5, <1>6, <3>1
  <2>2. g = [m \in 0 .. last |-> g[m]]
    OBVIOUS
  <2> QED
    BY <2>1, <2>2
<1>8. f = [m \in 0 .. last |-> IF m = 0 THEN first ELSE RemoveTurn(f[m - 1], call)]
  BY <1>7
<1>9. RemoveParentEntryAt(ix, call, page, k) = ReleasedBy(f[last].index, f[last].by)
  BY DEF RemoveParentEntryAt, RemoveTurn, last, first
<1> HIDE DEF f
<1>10. RemoveLevels(f, last, first, call)
  <2>1. f[0] = first
    BY <1>1, <1>8
  <2>2. \A m \in 1 .. last : m \in 0 .. last /\ m # 0
    BY <1>1
  <2>3. \A m \in 1 .. last : f[m] = RemoveTurn(f[m - 1], call)
    BY <1>8, <2>2
  <2> QED
    BY <2>1, <2>3 DEF RemoveLevels
<1>11. \A m \in 0 .. last : f[m] \in S
  <2>1. f[0] \in S
    BY <1>1, <1>2, <1>8
  <2>2. \A m \in 1 .. last : f[m - 1] \in S => f[m] \in S
    BY <1>1, <1>3, <1>8
  <2> QED
    BY <1>1, <2>1, <2>2, LoopKeeps
<1>12. \A m \in 0 .. last : f[m].by \in Seq(1 .. n)
  BY <1>11 DEF S, Goings
<1> QED
  BY <1>9, <1>10, <1>12 DEF RemoveRan, last, first

-----------------------------------------------------------------------------
\* Pins do not matter to a tree.
LEMMA SameGood ==
  ASSUME NEW ix, NEW jx, NEW n, NEW rk, NEW T, NEW root, NEW thin, NEW whole, NEW s,
         Good(ix, n, rk, T, root, thin, whole, s), Tree(jx, n, rk), jx.node = ix.node
  PROVE  Good(jx, n, rk, T, root, thin, whole, s)
<1>1. /\ \A p : Num(jx, p) = Num(ix, p) /\ Par(jx, p) = Par(ix, p)
      /\ \A p, i : Kid(jx, p, i) = Kid(ix, p, i) /\ Key(jx, p, i) = Key(ix, p, i) /\ Item(jx, p, i) = Item(ix, p, i)
      /\ \A p : SameChain(jx, ix, p)
  BY DEF Num, Par, Kid, Key, Item, SameChain
<1>2. Shape(jx, n, rk, T, root, NoPage)
  <2>1. Family(ix, rk, T, root, NoPage) /\ T \subseteq 1 .. n /\ Par(ix, root) = NoPage
        /\ \A p \in T : rk[p] <= rk[root]
    BY DEF Good, Shape
  <2>2. \A p \in T : Num(jx, p) \in Nat /\ Par(jx, p) = Par(ix, p)
    BY <1>1, <2>1 DEF Family
  <2>3. \A p \in T : rk[p] # 0 => SameKids(jx, ix, p)
    BY <1>1 DEF SameKids
  <2>4. Family(jx, rk, T, root, NoPage)
    BY <2>1, <2>2, <2>3, SameFamily
  <2> QED
    BY <1>1, <2>1, <2>4 DEF Shape
<1>3. MaxKeys >= 2 => Filled(jx, rk, T, root, thin)
  BY <1>1 DEF Good, Filled
<1>4. ASSUME Unique PROVE \E R : KeyedAs(jx, rk, T, root, R) /\ (whole => Chained(jx, rk, T, R))
  <2>1. PICK R : KeyedAs(ix, rk, T, root, R) /\ (whole => Chained(ix, rk, T, R))
    BY <1>4 DEF Good
  <2>2. KeyedAs(jx, rk, T, root, R)
    <3>0. Family(ix, rk, T, root, NoPage) /\ root \in T
      BY DEF Good, Shape, Family
    <3>1. /\ \A p \in T : R[p] \subseteq Int /\ R[p] # {} /\ Convex(R[p])
          /\ R[root] = Int
          /\ \A p \in T : rk[p] # 0 =>
                \A i \in 0 .. Num(ix, p) : \A x \in Int :
                   x \in R[Kid(ix, p, i)] <=> Between(ix, R, p, i, x)
          /\ \A p \in T : \A i \in 1 .. Num(ix, p) : Key(ix, p, i) \in R[p]
          /\ \A p \in T : Sorted(ix, p)
      BY <2>1, <3>0, KeyedPlain
    <3>2. \A p \in T : rk[p] # 0 =>
                \A i \in 0 .. Num(jx, p) : \A x \in Int :
                   x \in R[Kid(jx, p, i)] <=> Between(jx, R, p, i, x)
      BY <1>1, <3>1 DEF Between
    <3>3. \A p \in T : \A i \in 1 .. Num(jx, p) : Key(jx, p, i) \in R[p]
      BY <1>1, <3>1
    <3>4. \A p \in T : Sorted(jx, p)
      BY <1>1, <3>1 DEF Sorted
    <3> QED
      BY <3>1, <3>2, <3>3, <3>4, PlainKeyed
  <2>3. whole => Chained(jx, rk, T, R)
    <3>1. \A p \in T : rk[p] = 0 => SameChain(jx, ix, p) /\ R[p] = R[p]
      BY <1>1
    <3>2. \A p : (p \in T /\ rk[p] = 0) <=> (p \in T /\ rk[p] = 0)
      OBVIOUS
    <3> QED
      BY <2>1, <3>1, <3>2, ChainedSame
  <2> QED
    BY <2>2, <2>3
<1>5. Items(jx, rk, T) = s
  BY <1>1 DEF Good, Items
<1> QED
  BY <1>2, <1>3, <1>4, <1>5 DEF Good

LEMMA ReleasedSame ==
  ASSUME NEW n, NEW rk, NEW ix, Tree(ix, n, rk), NEW by \in Seq(1 .. n)
  PROVE  /\ Tree(ReleasedBy(ix, by), n, rk) /\ SameNodes(ReleasedBy(ix, by), ix)
         /\ by = <<>> => ReleasedBy(ix, by) = ix
<1> DEFINE last == Len(by)
           Turn(jx, m) == Release(jx, jx.node[by[m]].parent)
           S == {jx \in Files(n, rk) : Tree(jx, n, rk) /\ SameNodes(jx, ix)}
           G == [m \in 1 .. last |-> [jx \in S |-> Turn(jx, m)]]
           f == CHOOSE f : f = [m \in 0 .. last |-> IF m = 0 THEN ix ELSE Turn(f[m - 1], m)]
<1>1. last \in Nat
  OBVIOUS
<1>2. ix \in S
  BY TreeIsFile DEF SameNodes
<1>3. ASSUME NEW jx \in S, NEW m \in 1 .. last PROVE Turn(jx, m) \in S
  <2>1. by[m] \in 1 .. n /\ Tree(jx, n, rk)
    BY ElementOfSeq
  <2>2. jx.node[by[m]].parent \in 0 .. n
    <3>1. jx.node[by[m]].parent \in Above(n, rk, rk[by[m]]) /\ n \in Nat
      BY <2>1, PageFields
    <3> QED
      BY <3>1 DEF Above, NoPage
  <2>3. Tree(Turn(jx, m), n, rk) /\ SameNodes(Turn(jx, m), jx)
    BY <2>1, <2>2, ReleaseSame
  <2>4. SameNodes(Turn(jx, m), ix)
    BY <2>3 DEF SameNodes
  <2> HIDE DEF Turn
  <2> QED
    BY <2>3, <2>4, TreeIsFile
<1> HIDE DEF Turn, S, last
<1>4. G \in [1 .. last -> [S -> S]]
  BY <1>3
<1>5. \A jx \in S : \A m \in 1 .. last : G[m][jx] = Turn(jx, m)
  OBVIOUS
<1> HIDE DEF G
<1>6. PICK g \in [0 .. last -> S] :
        g[0] = ix /\ \A m \in 1 .. last : g[m] = G[m][g[m - 1]]
  <2>1. Loops(S, ix, last, G)
    BY <1>1, <1>2, <1>4, LoopExists
  <2> QED
    BY <2>1 DEF Loops
<1>7. g = [m \in 0 .. last |-> IF m = 0 THEN ix ELSE Turn(g[m - 1], m)]
  <2>1. ASSUME NEW m \in 0 .. last PROVE g[m] = IF m = 0 THEN ix ELSE Turn(g[m - 1], m)
    <3>1. m # 0 => m \in 1 .. last /\ g[m - 1] \in S
      BY <1>1
    <3> QED
      BY <1>5, <1>6, <3>1
  <2>2. g = [m \in 0 .. last |-> g[m]]
    OBVIOUS
  <2> QED
    BY <2>1, <2>2
<1>8. f = [m \in 0 .. last |-> IF m = 0 THEN ix ELSE Turn(f[m - 1], m)]
  BY <1>7
<1>9. ReleasedBy(ix, by) = f[last]
  BY DEF ReleasedBy, Turn, last
<1> HIDE DEF f
<1>10. f[0] = ix
  BY <1>1, <1>8
<1>11. \A m \in 0 .. last : f[m] \in S
  <2>1. f[0] \in S
    BY <1>2, <1>10
  <2>2. \A m \in 1 .. last : f[m - 1] \in S => f[m] \in S
    BY <1>1, <1>3, <1>8
  <2> QED
    BY <1>1, <2>1, <2>2, LoopKeeps
<1>12. f[last] \in S
  BY <1>1, <1>11
<1>13. by = <<>> => last = 0
  BY DEF last
<1> QED
  BY <1>9, <1>10, <1>12, <1>13 DEF S

-----------------------------------------------------------------------------
\* removeParentEntryAt leaves a tree: no internal node is gone, or the pins do not matter.
Gone(jx, n, rk, T, root, whole, s) ==
    \E V \in SUBSET T : \E top \in V :
       /\ Good(jx, n, rk, V, top, NoPage, whole, s)
       /\ NoHigher(rk, root, top) /\ RootOf(jx, rk, top) /\ LosesNode(rk, T, V)

\* The turns: the first, the last, and those between.
Turning(l, m, ix, n, rk, T, root, page, k, whole, s) ==
    \/ m = 0 /\ l = Removes(ix, page, k, <<>>)
    \/ l.page = NoPage /\ l.by = <<>> /\ Settled(l.index, ix, n, rk, T, root, page, whole, s)
    \/ l.page = NoPage /\ Gone(l.index, n, rk, T, root, whole, s)
    \/ /\ l.page # NoPage /\ rk[l.page] = rk[page] + m
       /\ \E V \in SUBSET T : Pending(l, n, rk, V, root, whole, s) /\ LosesNode(rk, T, V)

LEMMA SettledGone ==
  ASSUME NEW jx, NEW ix, NEW n, NEW rk, NEW T, NEW V, V \subseteq T, NEW root, NEW page, NEW whole, NEW s,
         Settled(jx, ix, n, rk, V, root, page, whole, s), LosesNode(rk, T, V)
  PROVE  Gone(jx, n, rk, T, root, whole, s)
<1>1. PICK W \in SUBSET V : \E top \in W :
         /\ Good(jx, n, rk, W, top, NoPage, whole, s) /\ NoHigher(rk, root, top) /\ RootOf(jx, rk, top)
  BY DEF Settled
<1>2. LosesNode(rk, T, W) /\ W \in SUBSET T
  BY <1>1 DEF LosesNode
<1> QED
  BY <1>1, <1>2 DEF Gone

-----------------------------------------------------------------------------
CanTurn(l, n, rk) ==
    /\ Tree(l.index, n, rk) /\ l.page \in 1 .. n /\ rk[l.page] # 0 /\ l.page # NoPage
    /\ l.k \in 1 .. Len(l.index.node[l.page].entries) /\ l.by \in Seq(1 .. n)
TurnOf(q, e, l) == q.index = e.index /\ q.page = e.page /\ q.k = e.k /\ q.by = e.by \o l.by

LEMMA PendingCanTurn ==
  ASSUME NEW l, NEW n, NEW rk, NEW T, NEW root, NEW whole, NEW s, Pending(l, n, rk, T, root, whole, s),
         l.by \in Seq(1 .. n)
  PROVE  CanTurn(l, n, rk)
<1>1. T \subseteq 1 .. n
  BY DEF Pending, Good, Shape
<1> QED
  BY <1>1 DEF Pending, Num, CanTurn

LEMMA TurnFields ==
  ASSUME NEW l, NEW n, NEW rk, CanTurn(l, n, rk),
         NEW call, call.info.height \in Nat, NEW e, e = RemoveEntry(l.index, call, l.page, l.k),
         NEW q, q = RemoveTurn(l, call)
  PROVE  TurnOf(q, e, l)
<1>2. e \in Goings(n, rk)
  BY RemoveEntryGoes DEF CanTurn
<1>3. q = [e EXCEPT !.by = @ \o l.by]
  BY DEF RemoveTurn, CanTurn
<1> QED
  BY <1>2, <1>3 DEF Goings, TurnOf

LEMMA PendingSame ==
  ASSUME NEW e, NEW q, q.index = e.index, q.page = e.page, q.k = e.k,
         NEW n, NEW rk, NEW T, NEW root, NEW whole, NEW s, Pending(e, n, rk, T, root, whole, s)
  PROVE  Pending(q, n, rk, T, root, whole, s)
BY DEF Pending

LEMMA FirstTurns ==
  ASSUME NEW ix, NEW n, NEW rk, NEW T, NEW root, NEW page, NEW k, NEW whole, NEW s, rk[page] \in Nat,
         rk[root] \in Nat, NEW call, call.info.height = rk[root] + 1,
         NEW l, l = Removes(ix, page, k, <<>>), Pending(l, n, rk, T, root, whole, s),
         NEW q, q = RemoveTurn(l, call)
  PROVE  Turning(q, 1, ix, n, rk, T, root, page, k, whole, s)
<1> DEFINE e == RemoveEntry(l.index, call, l.page, l.k)
<1>1. l.index = ix /\ l.page = page /\ l.k = k /\ l.by = <<>>
  BY DEF Removes
<1>2. e = RemoveEntry(l.index, call, l.page, l.k)
  OBVIOUS
<1> HIDE DEF e
<1>3. Turns(e, ix, n, rk, T, root, page, whole, s)
  <2>1. Turns(e, l.index, n, rk, T, root, l.page, whole, s)
    BY <1>2, RemoveEntryTurns
  <2> QED
    BY <1>1, <2>1
<1>4. q.index = e.index /\ q.page = e.page /\ q.k = e.k /\ q.by = e.by \o l.by
  <2>1. l.by \in Seq(1 .. n)
    <3>1. <<>> \in Seq(1 .. n)
      OBVIOUS
    <3> QED
      BY <1>1, <3>1
  <2>2. CanTurn(l, n, rk) /\ call.info.height \in Nat
    BY <2>1, PendingCanTurn
  <2>3. TurnOf(q, e, l)
    BY <1>2, <2>2, TurnFields
  <2> QED
    BY <2>3 DEF TurnOf
<1>5. CASE e.page = NoPage /\ e.by = <<>> /\ Settled(e.index, ix, n, rk, T, root, page, whole, s)
  <2>1. q.by = <<>>
    BY <1>1, <1>4, <1>5
  <2> QED
    BY <1>4, <1>5, <2>1 DEF Turning
<1>6. CASE e.page # NoPage /\ rk[e.page] = rk[page] + 1
           /\ \E V \in SUBSET T : Pending(e, n, rk, V, root, whole, s) /\ LosesNode(rk, T, V)
  <2>1. PICK V \in SUBSET T : Pending(e, n, rk, V, root, whole, s) /\ LosesNode(rk, T, V)
    BY <1>6
  <2>2. Pending(q, n, rk, V, root, whole, s)
    BY <1>4, <2>1, PendingSame
  <2> QED
    BY <1>4, <1>6, <2>1, <2>2 DEF Turning
<1> QED
  BY <1>3, <1>5, <1>6 DEF Turns

LEMMA LaterTurns ==
  ASSUME NEW ix, NEW n, NEW rk, NEW T, NEW root, NEW page, NEW k, NEW whole, NEW s, rk[page] \in Nat,
         rk[root] \in Nat, NEW call, call.info.height = rk[root] + 1,
         NEW m \in Nat, NEW l, Turning(l, m, ix, n, rk, T, root, page, k, whole, s), m # 0,
         l.by \in Seq(1 .. n), NEW q, q = RemoveTurn(l, call), NEW m1, m1 = m + 1
  PROVE  Turning(q, m1, ix, n, rk, T, root, page, k, whole, s)
<1>1. CASE l.page = NoPage
  <2>1. q = l
    BY <1>1 DEF RemoveTurn
  <2> QED
    BY <1>1, <2>1 DEF Turning
<1>2. CASE l.page # NoPage
  <2> DEFINE e == RemoveEntry(l.index, call, l.page, l.k)
  <2>1. /\ rk[l.page] = rk[page] + m
        /\ \E V \in SUBSET T : Pending(l, n, rk, V, root, whole, s) /\ LosesNode(rk, T, V)
    BY <1>2 DEF Turning
  <2>2. PICK V \in SUBSET T : Pending(l, n, rk, V, root, whole, s) /\ LosesNode(rk, T, V)
    BY <2>1
  <2>3. e = RemoveEntry(l.index, call, l.page, l.k)
    OBVIOUS
  <2> HIDE DEF e
  <2>4. Turns(e, l.index, n, rk, V, root, l.page, whole, s)
    BY <2>2, <2>3, RemoveEntryTurns
  <2>5. q.index = e.index /\ q.page = e.page /\ q.k = e.k
    <3>1. CanTurn(l, n, rk)
      BY <2>2, PendingCanTurn
    <3>2. call.info.height \in Nat
      OBVIOUS
    <3>3. TurnOf(q, e, l)
      BY <2>3, <3>1, <3>2, TurnFields
    <3> QED
      BY <3>3 DEF TurnOf
  <2>6. CASE e.page = NoPage /\ Settled(e.index, l.index, n, rk, V, root, l.page, whole, s)
    <3>1. Gone(e.index, n, rk, T, root, whole, s)
      BY <2>2, <2>6, SettledGone
    <3> QED
      BY <2>5, <2>6, <3>1 DEF Turning
  <2>7. CASE e.page # NoPage /\ rk[e.page] = rk[l.page] + 1
             /\ \E W \in SUBSET V : Pending(e, n, rk, W, root, whole, s) /\ LosesNode(rk, V, W)
    <3>1. PICK W \in SUBSET V : Pending(e, n, rk, W, root, whole, s) /\ LosesNode(rk, V, W)
      BY <2>7
    <3>2. Pending(q, n, rk, W, root, whole, s)
      BY <2>5, <3>1, PendingSame
    <3>3. W \in SUBSET T /\ LosesNode(rk, T, W)
      BY <3>1 DEF LosesNode
    <3>4. rk[q.page] = rk[page] + m1 /\ q.page # NoPage
      BY SMTT(40), <2>1, <2>5, <2>7
    <3> QED
      BY <3>2, <3>3, <3>4 DEF Turning
  <2> QED
    BY <2>4, <2>6, <2>7 DEF Turns
<1> QED
  BY <1>1, <1>2

\* removeParentEntryAt, in a tree that is not higher than the file has pages.
LEMMA RemoveParentGood ==
  ASSUME NEW ix, NEW n, NEW rk, NEW T, NEW root, NEW page, NEW k, NEW whole, NEW s,
         Pending(Removes(ix, page, k, <<>>), n, rk, T, root, whole, s), rk[root] <= n,
         NEW call, call.info.height = rk[root] + 1,
         NEW jx, jx = RemoveParentEntryAt(ix, call, page, k)
  PROVE  Settled(jx, ix, n, rk, T, root, page, whole, s) \/ Gone(jx, n, rk, T, root, whole, s)
<1> DEFINE first == Removes(ix, page, k, <<>>)
           last == Size(ix)
<1>1. first.index = ix /\ first.page = page /\ first.k = k /\ first.by = <<>>
  BY DEF Removes
<1>2. /\ Tree(ix, n, rk) /\ page \in T /\ rk[page] # 0 /\ page # NoPage /\ k \in 1 .. Num(ix, page)
      /\ Good(CutAt(ix, page, k), n, rk, T, root, page, whole, s)
  BY <1>1 DEF Pending
<1>3. T \subseteq 1 .. n /\ root \in T /\ rk[root] \in Nat /\ rk[page] \in Nat /\ page \in 1 .. n
  BY <1>2 DEF Good, Shape, Family
<1>4. last = n /\ n \in Nat /\ n # 0 /\ call.info.height \in Nat
  BY <1>2, <1>3, SizeOf
<1>5. PICK f : /\ RemoveLevels(f, last, first, call)
               /\ \A m \in 0 .. last : f[m].by \in Seq(1 .. n)
               /\ jx = ReleasedBy(f[last].index, f[last].by)
  <2>1. RemoveRan(ix, call, page, k, n)
    <3>1. k \in 1 .. Len(ix.node[page].entries)
      BY <1>2 DEF Num
    <3> QED
      BY <1>2, <1>3, <1>4, <3>1, RemoveRuns
  <2> QED
    BY <2>1 DEF RemoveRan
<1>6. first = Removes(ix, page, k, <<>>)
  OBVIOUS
<1> HIDE DEF first, last
<1> DEFINE Q == {m \in 0 .. last : m # 0 => Turning(f[m], m, ix, n, rk, T, root, page, k, whole, s)}
<1>7. 0 \in Q
  BY <1>4
<1>8. ASSUME NEW m \in 1 .. last, m - 1 \in Q PROVE m \in Q
  <2>1. f[m] = RemoveTurn(f[m - 1], call)
    BY <1>5 DEF RemoveLevels
  <2>2. m - 1 \in 0 .. last /\ m \in 0 .. last /\ m - 1 \in Nat
    BY <1>4
  <2>3. f[m - 1].by \in Seq(1 .. n)
    BY <1>5, <2>2
  <2>4. CASE m - 1 = 0
    <3>1. f[m - 1] = first
      BY <1>5, <2>4 DEF RemoveLevels
    <3>2. m = 1
      BY <2>4
    <3>3. Pending(first, n, rk, T, root, whole, s)
      BY <1>6
    <3>4. Turning(f[m], 1, ix, n, rk, T, root, page, k, whole, s)
      BY <1>3, <1>6, <2>1, <3>1, <3>3, FirstTurns
    <3> QED
      BY <2>2, <3>2, <3>4
  <2>5. CASE m - 1 # 0
    <3> DEFINE h == m - 1
    <3>1. h \in Nat /\ m = h + 1 /\ h # 0
      BY <2>2, <2>5
    <3>2. Turning(f[h], h, ix, n, rk, T, root, page, k, whole, s)
      BY <1>8, <2>5
    <3>3. f[m] = RemoveTurn(f[h], call) /\ f[h].by \in Seq(1 .. n)
      BY <2>1, <2>3
    <3> HIDE DEF h
    <3>4. Turning(f[m], m, ix, n, rk, T, root, page, k, whole, s)
      BY <1>3, <3>1, <3>2, <3>3, LaterTurns
    <3> QED
      BY <2>2, <3>4
  <2> QED
    BY <2>4, <2>5
<1>9. Turning(f[last], last, ix, n, rk, T, root, page, k, whole, s)
  <2>1. \A m \in 0 .. last : m \in Q
    <3>1. last \in Nat
      BY <1>4
    <3> HIDE DEF Q
    <3> QED
      BY <1>7, <1>8, <3>1, Counts
  <2>2. last \in 0 .. last /\ last # 0
    BY <1>4
  <2> QED
    BY <2>1, <2>2
<1> DEFINE l == f[last]
<1>10. l.by \in Seq(1 .. n) /\ jx = ReleasedBy(l.index, l.by)
  <2>1. last \in 0 .. last
    BY <1>4
  <2> QED
    BY <1>5, <2>1
<1>11. Turning(l, last, ix, n, rk, T, root, page, k, whole, s)
  BY <1>9
<1> HIDE DEF l, Q
<1>12. CASE l.by = <<>> /\ Settled(l.index, ix, n, rk, T, root, page, whole, s)
  <2>1. Tree(l.index, n, rk)
    BY <1>12 DEF Settled, Good, Shape
  <2>2. jx = l.index
    BY <1>10, <1>12, <2>1, ReleasedSame
  <2> QED
    BY <1>12, <2>2
<1>13. CASE Gone(l.index, n, rk, T, root, whole, s)
  <2>1. PICK V \in SUBSET T, top \in T :
          /\ top \in V /\ Good(l.index, n, rk, V, top, NoPage, whole, s)
          /\ NoHigher(rk, root, top) /\ RootOf(l.index, rk, top) /\ LosesNode(rk, T, V)
    BY <1>13 DEF Gone
  <2>2. Tree(l.index, n, rk)
    BY <2>1 DEF Good, Shape
  <2>3. Tree(jx, n, rk) /\ SameNodes(jx, l.index)
    BY <1>10, <2>2, ReleasedSame
  <2>4. Good(jx, n, rk, V, top, NoPage, whole, s)
    BY <2>1, <2>3, SameGood DEF SameNodes
  <2>5. RootOf(jx, rk, top)
    BY <2>1, <2>3 DEF SameNodes, RootOf
  <2> QED
    BY <2>1, <2>4, <2>5 DEF Gone
<1>14. CASE l.page # NoPage /\ rk[l.page] = rk[page] + last
            /\ \E V \in SUBSET T : Pending(l, n, rk, V, root, whole, s)
  <2>1. PICK V \in SUBSET T : Pending(l, n, rk, V, root, whole, s)
    BY <1>14
  <2>2. l.page \in V /\ Good(CutAt(l.index, l.page, l.k), n, rk, V, root, l.page, whole, s)
    BY <2>1 DEF Pending
  <2>3. rk[l.page] <= rk[root]
    BY <2>2 DEF Good, Shape
  <2> QED
    BY <1>2, <1>3, <1>4, <1>14, <2>3
<1> QED
  BY <1>4, <1>11, <1>12, <1>13, <1>14 DEF Turning

-----------------------------------------------------------------------------
\* What a deletion leaves: a tree with the entries s, in which an internal node is gone or the pins
\* are what they were.
Deleted(jx, ix, n, rk, T, root, whole, s) ==
    \E V \in SUBSET T : \E top \in V :
       /\ Good(jx, n, rk, V, top, NoPage, whole, s)
       /\ NoHigher(rk, root, top) /\ RootOf(jx, rk, top)
       /\ jx.pins = ix.pins \/ LosesNode(rk, T, V)

LEMMA StaysDeleted ==
  ASSUME NEW ix, NEW n, NEW rk, NEW T, NEW root, NEW whole, NEW s,
         NEW jx, Good(jx, n, rk, T, root, NoPage, whole, s), RootOf(ix, rk, root),
         jx.info = ix.info, jx.pins = ix.pins
  PROVE  Deleted(jx, ix, n, rk, T, root, whole, s)
<1>1. root \in T /\ rk[root] <= rk[root] /\ T \in SUBSET T
  BY DEF Good, Shape, Family
<1>2. RootOf(jx, rk, root)
  BY DEF RootOf
<1> QED
  BY <1>1, <1>2 DEF Deleted, NoHigher

LEMMA LeafBorrowsLeft ==
  ASSUME NEW ix, NEW n, NEW rk, NEW T, NEW root, NEW page \in T, NEW whole, NEW s,
         Good(ix, n, rk, T, root, page, whole, s), RootOf(ix, rk, root), page # root,
         NEW P, NEW k, NEW left, Beside(ix, n, rk, T, P, k, left, page, page, left), rk[page] = 0,
         Num(ix, page) < MinKeys, Num(ix, left) > MinKeys,
         NEW jx, jx = BorrowLeft(ix, page, left, P, k)
  PROVE  Deleted(jx, ix, n, rk, T, root, whole, s)
<1> DEFINE keep == Num(ix, left) - 1
<1>1. Tree(ix, n, rk) /\ (MaxKeys >= 2 => Filled(ix, rk, T, root, page))
      /\ Num(ix, page) \in Nat /\ Num(ix, left) \in Nat
  BY DEF Good, Shape, Family, Beside
<1>2. Borrows(ix, n, rk, page, left, P, k) /\ rk[left] = 0 /\ rk[left] = rk[page]
  BY DEF Borrows, Beside
<1>3. keep = Num(ix, left) - 1
  OBVIOUS
<1> HIDE DEF keep
<1>4. /\ Tree(jx, n, rk) /\ Rebordered(jx, ix, n, P, k, left, page, keep)
      /\ jx.pins = ix.pins /\ jx.info = ix.info
  BY <1>1, <1>2, <1>3, BorrowLeftIs
<1>5. Lent(jx, ix, page, left)
  <2>1. Num(jx, left) = keep /\ Num(jx, page) = Num(ix, left) + Num(ix, page) - keep
    BY <1>4 DEF Rebordered
  <2> QED
    BY <1>1, <1>3, <2>1 DEF Lent
<1>6. MaxKeys >= 2 => Num(jx, left) >= AtLeast(0) /\ Num(jx, page) >= AtLeast(0)
  <2>1. Enough(jx, page, left, rk[page])
    BY <1>1, <1>5, LentEnough
  <2> QED
    BY <2>1 DEF Enough
<1>7. Pair(ix, rk, T, P, k, left, page) /\ page \in {left, page}
  BY DEF Beside
<1>8. Good(jx, n, rk, T, root, NoPage, whole, s)
  BY <1>2, <1>4, <1>6, <1>7, ReborderGood
<1> QED
  BY <1>4, <1>8, StaysDeleted

LEMMA LeafBorrowsRight ==
  ASSUME NEW ix, NEW n, NEW rk, NEW T, NEW root, NEW page \in T, NEW whole, NEW s,
         Good(ix, n, rk, T, root, page, whole, s), RootOf(ix, rk, root), page # root,
         NEW P, NEW k, NEW right, Beside(ix, n, rk, T, P, k, page, right, page, right), rk[page] = 0,
         Num(ix, page) < MinKeys, Num(ix, right) > MinKeys,
         NEW jx, jx = BorrowRight(ix, page, right, P, k)
  PROVE  Deleted(jx, ix, n, rk, T, root, whole, s)
<1> DEFINE keep == Num(ix, page) + 1
<1>1. Tree(ix, n, rk) /\ (MaxKeys >= 2 => Filled(ix, rk, T, root, page))
      /\ Num(ix, page) \in Nat /\ Num(ix, right) \in Nat
  BY DEF Good, Shape, Family, Beside
<1>2. Borrows(ix, n, rk, page, right, P, k)
  BY DEF Borrows, Beside
<1>3. keep = Num(ix, page) + 1
  OBVIOUS
<1> HIDE DEF keep
<1>4. /\ Tree(jx, n, rk) /\ Rebordered(jx, ix, n, P, k, page, right, keep)
      /\ jx.pins = ix.pins /\ jx.info = ix.info
  BY <1>1, <1>2, <1>3, BorrowRightIs
<1>5. Lent(jx, ix, page, right)
  <2>1. Num(jx, page) = keep /\ Num(jx, right) = Num(ix, page) + Num(ix, right) - keep
    BY <1>4 DEF Rebordered
  <2> QED
    BY <1>1, <1>3, <2>1 DEF Lent
<1>6. MaxKeys >= 2 => Num(jx, page) >= AtLeast(0) /\ Num(jx, right) >= AtLeast(0)
  <2>1. Enough(jx, page, right, rk[page])
    BY <1>1, <1>5, LentEnough
  <2> QED
    BY <2>1 DEF Enough
<1>7. Pair(ix, rk, T, P, k, page, right) /\ page \in {page, right}
  BY DEF Beside
<1>8. Good(jx, n, rk, T, root, NoPage, whole, s)
  BY <1>4, <1>6, <1>7, ReborderGood
<1> QED
  BY <1>4, <1>8, StaysDeleted

\* What was pinned once and is released once.
LEMMA PinRelease ==
  ASSUME NEW n, NEW rk, NEW ix, Tree(ix, n, rk), NEW jx, Tree(jx, n, rk), NEW P \in 1 .. n, P # NoPage,
         jx.pins = Pin(ix, P).pins
  PROVE  Release(jx, P).pins = ix.pins
<1>1. ix.pins \in [1 .. n -> Nat] /\ jx.pins \in [1 .. n -> Nat]
  BY DEF Tree
<1>2. jx.pins = [ix.pins EXCEPT ![P] = @ + 1]
  <2>1. ix \in Files(n, rk)
    BY TreeIsFile
  <2> QED
    BY <2>1 DEF Pin, Files
<1>3. jx.pins[P] = ix.pins[P] + 1 /\ ix.pins[P] \in Nat
  BY <1>1, <1>2
<1>4. Release(jx, P).pins = [jx.pins EXCEPT ![P] = @ - 1]
  <2>1. jx \in Files(n, rk)
    BY TreeIsFile
  <2>2. jx.pins[P] > 0
    BY <1>3
  <2> QED
    BY <2>1, <2>2 DEF Release, Files
<1>5. [jx.pins EXCEPT ![P] = @ - 1] = ix.pins
  <2>1. \A a, b \in [1 .. n -> Nat] : b = [a EXCEPT ![P] = @ + 1] => [b EXCEPT ![P] = @ - 1] = a
    <3>1. ASSUME NEW a \in [1 .. n -> Nat], NEW b, b = [a EXCEPT ![P] = @ + 1]
          PROVE  [b EXCEPT ![P] = @ - 1] = a
      <4>1. b = [q \in 1 .. n |-> IF q = P THEN a[P] + 1 ELSE a[q]]
        BY <3>1
      <4>2. [b EXCEPT ![P] = @ - 1] = [q \in 1 .. n |-> IF q = P THEN b[P] - 1 ELSE b[q]]
        BY <4>1
      <4>3. a[P] \in Nat /\ b[P] - 1 = a[P]
        BY <3>1, <4>1
      <4>4. \A q \in 1 .. n : (IF q = P THEN b[P] - 1 ELSE b[q]) = a[q]
        BY <4>1, <4>3
      <4>5. a = [q \in 1 .. n |-> a[q]]
        BY <3>1
      <4> QED
        BY <4>2, <4>4, <4>5
    <3> QED
      BY <3>1
  <2> QED
    BY <1>1, <1>2, <2>1
<1> QED
  BY <1>4, <1>5

-----------------------------------------------------------------------------
\* Leaf A absorbs D, and D's entry in their parent goes, and perhaps entries above it.
LEMMA LeafMerges ==
  ASSUME NEW ix, NEW n, NEW rk, NEW T, NEW root, NEW page \in T, NEW whole, NEW s,
         Good(ix, n, rk, T, root, page, whole, s), RootOf(ix, rk, root), rk[root] <= 2,
         NEW P, NEW k, NEW A, NEW D, NEW other, Beside(ix, n, rk, T, P, k, A, D, page, other), rk[page] = 0,
         Num(ix, page) < MinKeys, ~(Num(ix, other) > MinKeys),
         NEW call, call.info.height = rk[root] + 1,
         NEW jx, jx = Merge(ix, call, A, D, P, k)
  PROVE  Deleted(jx, ix, n, rk, T, root, whole, s)
<1> DEFINE V == T \ {D}
           hx == Pin(Absorb(ix, A, D), P)
           cx == CutAt(hx, P, k)
           new == RemoveParentEntryAt(hx, call, P, k)
           l == Removes(hx, P, k, <<>>)
<1>1. Tree(ix, n, rk) /\ Family(ix, rk, T, root, NoPage) /\ T \subseteq 1 .. n /\ NoPage \notin T
      /\ Num(ix, page) \in Nat /\ Num(ix, other) \in Nat /\ rk[root] \in Nat /\ n \in Nat
  BY DEF Good, Shape, Family, Beside, Tree
<1>2. /\ Pair(ix, rk, T, P, k, A, D) /\ page # other /\ {A, D} = {page, other}
      /\ P \in 1 .. n /\ P # page /\ P # other
      /\ rk[page] = rk[other] /\ rk[P] # 0 /\ k \in 1 .. Num(ix, P) /\ other \in T /\ P \in T
      /\ page \in 1 .. n /\ other \in 1 .. n
  BY DEF Beside
<1>3. /\ (A = page /\ D = other) \/ (A = other /\ D = page)
      /\ A \in 1 .. n /\ D \in 1 .. n /\ A # D /\ rk[A] = 0 /\ rk[D] = 0
      /\ P # A /\ P # D /\ D \in T /\ A \in T /\ page \in {A, D}
  <2>1. (A = page /\ D = other) \/ (A = other /\ D = page)
    BY <1>2
  <2> QED
    BY <1>2, <2>1
<1>4. Num(ix, A) + Num(ix, D) <= 2 * MinKeys
  <2>1. \A a, b, h \in Nat : a < h /\ ~(b > h) => a + b <= 2 * h /\ b + a <= 2 * h
    OBVIOUS
  <2>2. MinKeys \in Nat
    BY MinKeysFits
  <2>3. Num(ix, page) + Num(ix, other) <= 2 * MinKeys /\ Num(ix, other) + Num(ix, page) <= 2 * MinKeys
    BY <1>1, <2>1, <2>2
  <2> QED
    BY <1>3, <2>3
<1>5. rk[root] <= n
  BY <1>1, <1>3
<1>6. /\ hx = Pin(Absorb(ix, A, D), P) /\ cx = CutAt(hx, P, k) /\ V = T \ {D}
      /\ new = RemoveParentEntryAt(hx, call, P, k) /\ l = Removes(hx, P, k, <<>>)
      /\ jx = Release(new, Par(new, A))
  BY DEF Merge, Par
<1>7. l.index = hx /\ l.page = P /\ l.k = k
  BY DEF Removes
<1> HIDE DEF hx, cx, V, new, l
<1>8. /\ Tree(hx, n, rk) /\ k \in 1 .. Num(hx, P)
      /\ Tree(cx, n, rk) /\ LeavesMerged(cx, ix, n, P, k, A, D)
      /\ hx.pins = Pin(ix, P).pins /\ hx.info = ix.info
  BY <1>1, <1>2, <1>3, <1>4, <1>6, AbsorbCutIs
<1>9. Good(cx, n, rk, V, root, P, whole, s)
  BY <1>2, <1>3, <1>6, <1>8, LeafMergeGood
<1>10. V \in SUBSET T /\ P \in V /\ P # NoPage /\ A \in V
  BY <1>1, <1>2, <1>3, <1>6
<1>11. Pending(l, n, rk, V, root, whole, s)
  <2>1. RootOf(hx, rk, root)
    BY <1>8 DEF RootOf
  <2> QED
    BY <1>2, <1>6, <1>7, <1>8, <1>9, <1>10, <2>1 DEF Pending
<1>12. Par(hx, A) = P
  <2>1. Par(ix, A) = P
    BY <1>1, <1>2, PairPages
  <2>2. Par(cx, A) = Par(ix, A)
    BY <1>3, <1>8 DEF LeavesMerged
  <2>3. Removed(cx, hx, n, P, k)
    BY <1>2, <1>6, <1>8, CutEffect
  <2>4. cx.node[A] = hx.node[A]
    BY <1>3, <2>3 DEF Removed, Only
  <2> QED
    BY <2>1, <2>2, <2>4 DEF Par
<1>13. Settled(new, hx, n, rk, V, root, P, whole, s) \/ Gone(new, n, rk, V, root, whole, s)
  <2>1. Pending(Removes(hx, P, k, <<>>), n, rk, V, root, whole, s)
    BY <1>6, <1>11
  <2> QED
    BY <1>5, <1>6, <2>1, RemoveParentGood
<1>14. PICK W \in SUBSET V, top \in V :
         /\ top \in W /\ Good(new, n, rk, W, top, NoPage, whole, s)
         /\ NoHigher(rk, root, top) /\ RootOf(new, rk, top)
         /\ (new.pins = hx.pins /\ KeepsKids(new, hx, n, P)) \/ LosesNode(rk, V, W)
  BY <1>13 DEF Settled, Gone
<1>15. Tree(new, n, rk)
  BY <1>14 DEF Good, Shape
<1>16. Par(new, A) \in 0 .. n
  <2>1. new.node[A].parent \in Above(n, rk, rk[A])
    BY <1>3, <1>15, PageFields
  <2> QED
    BY <1>1, <2>1 DEF Above, NoPage, Par
<1>17. Tree(jx, n, rk) /\ SameNodes(jx, new)
  BY <1>6, <1>15, <1>16, ReleaseSame
<1>18. Good(jx, n, rk, W, top, NoPage, whole, s)
  BY <1>14, <1>17, SameGood DEF SameNodes
<1>19. RootOf(jx, rk, top)
  BY <1>14, <1>17 DEF SameNodes, RootOf
<1>20. W \in SUBSET T /\ top \in W /\ NoHigher(rk, root, top)
  BY <1>10, <1>14
<1>21. jx.pins = ix.pins \/ LosesNode(rk, T, W)
  <2>1. CASE new.pins = hx.pins /\ KeepsKids(new, hx, n, P)
    <3>1. Par(new, A) = P
      BY <1>3, <1>12, <2>1 DEF KeepsKids
    <3>2. new.pins = Pin(ix, P).pins
      BY <1>8, <2>1
    <3>3. Release(new, P).pins = ix.pins
      BY <1>1, <1>2, <1>10, <1>15, <3>2, PinRelease
    <3> QED
      BY <1>6, <3>1, <3>3
  <2>2. CASE LosesNode(rk, V, W)
    BY <1>10, <2>2 DEF LosesNode
  <2> QED
    BY <1>14, <2>1, <2>2
<1> QED
  BY <1>18, <1>19, <1>20, <1>21 DEF Deleted

\* rebalanceAfterDelete
LEMMA RebalanceDeletes ==
  ASSUME NEW ix, NEW n, NEW rk, NEW T, NEW root, NEW page \in T, NEW whole, NEW s,
         Good(ix, n, rk, T, root, page, whole, s), RootOf(ix, rk, root), rk[root] <= 2, rk[page] = 0,
         NEW call, call.info.height = rk[root] + 1,
         NEW q, q = RebalanceAfterDelete(ix, call, page)
  PROVE  Deleted(q, ix, n, rk, T, root, whole, s)
<1> DEFINE nd     == ix.node[page]
           parent == nd.parent
           ph     == ix.node[parent]
           i      == FindChildIndex(ph, page)
           left   == IF i > 0 THEN ChildAt(ph, i - 1) ELSE NoPage
           right  == IF i + 1 <= Len(ph.entries) THEN ChildAt(ph, i + 1) ELSE NoPage
<1>1. /\ Tree(ix, n, rk) /\ T \subseteq 1 .. n /\ Family(ix, rk, T, root, NoPage) /\ NoPage \notin T
      /\ Par(ix, root) = NoPage
      /\ \A p \in T : p \in 1 .. n
  BY DEF Good, Shape, Family
<1>2. parent = Par(ix, page) /\ i = FindChildIndex(ix.node[parent], page)
  BY DEF Par
<1>3. left = IF i > 0 THEN ChildAt(ix.node[parent], i - 1) ELSE NoPage
  OBVIOUS
<1>4. right = IF i + 1 <= Num(ix, parent) THEN ChildAt(ix.node[parent], i + 1) ELSE NoPage
  BY SMTT(40) DEF Num
<1>5. parent # NoPage /\ Underfull(nd) /\ ~(i < 0) => q =
        IF left # NoPage /\ Lends(ix.node[left], "leaf")
        THEN BorrowLeft(ix, page, left, parent, i)
        ELSE IF right # NoPage /\ Lends(ix.node[right], "leaf")
        THEN BorrowRight(ix, page, right, parent, i + 1)
        ELSE IF left # NoPage /\ ix.node[left].kind = "leaf"
        THEN Merge(ix, call, left, page, parent, i)
        ELSE IF right # NoPage /\ ix.node[right].kind = "leaf"
        THEN Merge(ix, call, page, right, parent, i + 1)
        ELSE ix
  BY SMTT(40) DEF RebalanceAfterDelete
<1>6. parent = NoPage \/ ~Underfull(nd) => q = ix
  BY DEF RebalanceAfterDelete
<1>7. Underfull(nd) <=> Num(ix, page) < MinKeys
  BY DEF Underfull, Num
<1> HIDE DEF nd, parent, i, left, right
<1>8. CASE parent = NoPage
  <2>1. page = root
    <3>1. page # root => HasParent(ix, rk, T, page)
      BY <1>1 DEF Family
    <3> QED
      BY <1>1, <1>2, <1>8, <3>1 DEF HasParent
  <2>2. MaxKeys >= 2 => Filled(ix, rk, T, root, NoPage)
    <3>1. ASSUME MaxKeys >= 2, NEW p \in T
          PROVE  Num(ix, p) + (IF p = NoPage THEN 1 ELSE 0) >= Need(rk, root, p)
      <4>1. Num(ix, p) + (IF p = page THEN 1 ELSE 0) >= Need(rk, root, p) /\ p # NoPage
        BY <1>1, <3>1 DEF Good, Filled
      <4>2. CASE p = page
        <5>1. Need(rk, root, p) = 0
          BY <2>1, <4>2 DEF Need
        <5>2. Num(ix, p) \in Nat
          BY <1>1 DEF Family
        <5> QED
          BY <4>1, <5>1, <5>2
      <4>3. CASE p # page
        BY <4>1, <4>3
      <4> QED
        BY <4>2, <4>3
    <3> QED
      BY <3>1 DEF Filled
  <2>3. Good(ix, n, rk, T, root, NoPage, whole, s)
    BY <2>2 DEF Good
  <2> QED
    BY <1>6, <1>8, <2>3, StaysDeleted
<1>9. CASE parent # NoPage
  <2>1. /\ parent \in T /\ rk[parent] # 0 /\ page # root /\ parent # page
        /\ Num(ix, parent) \in Nat /\ i \in 0 .. Num(ix, parent) /\ Kid(ix, parent, i) = page
        /\ MaxKeys >= 2 => Num(ix, parent) # 0
    BY <1>2, <1>9, ThinPlace
  <2>2. ~(i < 0) /\ i \in Int
    BY <2>1
  <2>3. CASE ~Underfull(nd)
    <3>1. Good(ix, n, rk, T, root, NoPage, whole, s)
      BY <1>7, <2>1, <2>3, EnoughSettles
    <3> QED
      BY <1>6, <2>3, <3>1, StaysDeleted
  <2>4. ASSUME left # NoPage
        PROVE  /\ Beside(ix, n, rk, T, parent, i, left, page, page, left)
               /\ ix.node[left].kind = "leaf"
    <3>1. i > 0 /\ left = ChildAt(ix.node[parent], i - 1)
      BY <1>3, <2>4
    <3>2. Beside(ix, n, rk, T, parent, i, left, page, page, left)
      BY <1>1, <2>1, <3>1, LeftBeside
    <3>3. left \in 1 .. n /\ rk[left] = 0
      BY <3>2 DEF Beside
    <3> QED
      BY <1>1, <3>2, <3>3, PageFields
  <2>5. ASSUME right # NoPage
        PROVE  /\ Beside(ix, n, rk, T, parent, i + 1, page, right, page, right)
               /\ ix.node[right].kind = "leaf"
    <3>1. i + 1 <= Num(ix, parent) /\ right = ChildAt(ix.node[parent], i + 1)
      BY <1>4, <2>5
    <3>2. Beside(ix, n, rk, T, parent, i + 1, page, right, page, right)
      BY <1>1, <2>1, <3>1, RightBeside
    <3>3. right \in 1 .. n /\ rk[right] = 0
      BY <3>2 DEF Beside
    <3> QED
      BY <1>1, <3>2, <3>3, PageFields
  <2>6. CASE Underfull(nd) /\ left # NoPage /\ Lends(ix.node[left], "leaf")
    <3>1. q = BorrowLeft(ix, page, left, parent, i)
      BY <1>5, <1>9, <2>2, <2>6
    <3>2. Num(ix, left) > MinKeys /\ Num(ix, page) < MinKeys
      BY <1>7, <2>6 DEF Lends, Num
    <3>3. Beside(ix, n, rk, T, parent, i, left, page, page, left)
      BY <2>4, <2>6
    <3> QED
      BY <2>1, <3>1, <3>2, <3>3, LeafBorrowsLeft
  <2>7. CASE Underfull(nd) /\ ~(left # NoPage /\ Lends(ix.node[left], "leaf"))
             /\ right # NoPage /\ Lends(ix.node[right], "leaf")
    <3> DEFINE k == i + 1
    <3>1. q = BorrowRight(ix, page, right, parent, k)
      BY <1>5, <1>9, <2>2, <2>7
    <3>2. Num(ix, right) > MinKeys /\ Num(ix, page) < MinKeys
      BY <1>7, <2>7 DEF Lends, Num
    <3>3. Beside(ix, n, rk, T, parent, k, page, right, page, right)
      BY <2>5, <2>7
    <3> HIDE DEF k
    <3> QED
      BY <2>1, <3>1, <3>2, <3>3, LeafBorrowsRight
  <2>8. CASE Underfull(nd) /\ left # NoPage /\ ~Lends(ix.node[left], "leaf")
             /\ ~(right # NoPage /\ Lends(ix.node[right], "leaf"))
    <3>1. q = Merge(ix, call, left, page, parent, i)
      BY <1>5, <1>9, <2>2, <2>4, <2>8
    <3>2. ~(Num(ix, left) > MinKeys) /\ Num(ix, page) < MinKeys
      BY <1>7, <2>4, <2>8 DEF Lends, Num
    <3>3. Beside(ix, n, rk, T, parent, i, left, page, page, left)
      BY <2>4, <2>8
    <3> QED
      BY <3>1, <3>2, <3>3, LeafMerges
  <2>9. CASE Underfull(nd) /\ left = NoPage /\ right # NoPage /\ ~Lends(ix.node[right], "leaf")
    <3> DEFINE k == i + 1
    <3>1. q = Merge(ix, call, page, right, parent, k)
      BY <1>5, <1>9, <2>2, <2>5, <2>9
    <3>2. ~(Num(ix, right) > MinKeys) /\ Num(ix, page) < MinKeys
      BY <1>7, <2>5, <2>9 DEF Lends, Num
    <3>3. Beside(ix, n, rk, T, parent, k, page, right, page, right)
      BY <2>5, <2>9
    <3> HIDE DEF k
    <3> QED
      BY <3>1, <3>2, <3>3, LeafMerges
  <2>10. CASE Underfull(nd) /\ left = NoPage /\ right = NoPage
    <3>1. q = ix
      BY <1>5, <1>9, <2>2, <2>10
    <3>2. ~(MaxKeys >= 2)
      <4>1. ASSUME MaxKeys >= 2 PROVE FALSE
        <5>1. CASE i > 0
          <6>1. Beside(ix, n, rk, T, parent, i, ChildAt(ix.node[parent], i - 1), page, page,
                       ChildAt(ix.node[parent], i - 1))
            BY <1>1, <2>1, <5>1, LeftBeside
          <6>2. ChildAt(ix.node[parent], i - 1) # NoPage
            BY <6>1 DEF Beside
          <6> QED
            BY <1>3, <2>10, <5>1, <6>2
        <5>2. CASE i + 1 <= Num(ix, parent)
          <6>1. Beside(ix, n, rk, T, parent, i + 1, page, ChildAt(ix.node[parent], i + 1), page,
                       ChildAt(ix.node[parent], i + 1))
            BY <1>1, <2>1, <5>2, RightBeside
          <6>2. ChildAt(ix.node[parent], i + 1) # NoPage
            BY <6>1 DEF Beside
          <6> QED
            BY <1>4, <2>10, <5>2, <6>2
        <5>3. Num(ix, parent) # 0
          BY <2>1, <4>1
        <5> QED
          BY <2>1, <5>1, <5>2, <5>3
      <4> QED
        BY <4>1
    <3>3. Good(ix, n, rk, T, root, NoPage, whole, s)
      BY <2>1, <3>2, EnoughSettles
    <3> QED
      BY <3>1, <3>3, StaysDeleted
  <2> QED
    BY <2>3, <2>6, <2>7, <2>8, <2>9, <2>10
<1> QED
  BY <1>8, <1>9

-----------------------------------------------------------------------------
\* What deleteKey does at a leaf: nothing if r is not there, else its entry goes.
Drops(jx, ix, call, r, page) ==
    \/ jx = ix /\ \A i \in 1 .. Num(ix, page) : Item(ix, page, i) # r
    \/ \E k \in 1 .. Num(ix, page) :
          Item(ix, page, k) = r /\ jx = RebalanceAfterDelete(CutAt(ix, page, k), call, page)

LEMMA DeleteIs ==
  ASSUME NEW n, NEW rk, NEW ix, Tree(ix, n, rk), NEW call, NEW r,
         NEW page \in 1 .. n, page # NoPage, page = FindLeaf(ix, call, r.key),
         NEW jx, jx = DeleteKey(ix, call, r)
  PROVE  Drops(jx, ix, call, r, page)
<1> DEFINE s == ix.node[page].entries
           k == SelectInSeq(s, LAMBDA e : e = r)
           S == Ents(n, rk, rk[page])
<1>1. s \in Seq(S)
  BY PageFields
<1>2. jx = IF k = 0 THEN ix ELSE RebalanceAfterDelete(CutAt(ix, page, k), call, page)
  BY DEF DeleteKey, CutAt, WithEntries
<1>3. Len(s) = Num(ix, page) /\ \A i : s[i] = Item(ix, page, i)
  BY DEF Num, Item
<1> DEFINE I == {i \in 1 .. Len(s) : s[i] = r}
<1>4. k = IF I # {} THEN Min(I) ELSE 0
  BY DEF SelectInSeq
<1> HIDE DEF k, s, S
<1>5. Len(s) \in Nat /\ I \in SUBSET (1 .. Len(s)) /\ \A i \in 1 .. Len(s) : i \in I <=> s[i] = r
  BY <1>1
<1> HIDE DEF I
<1>8. I # {} => Min(I) \in I
  BY <1>5, LeastPlace
<1>6. CASE I = {}
  <2>1. jx = ix /\ \A i \in 1 .. Num(ix, page) : Item(ix, page, i) # r
    BY <1>2, <1>3, <1>4, <1>5, <1>6
  <2> QED
    BY <2>1 DEF Drops
<1>7. CASE I # {}
  <2>0. k \in I
    BY <1>4, <1>7, <1>8
  <2>2. k \in 1 .. Len(s) /\ s[k] = r
    BY <1>5, <2>0
  <2>1. k \in 1 .. Num(ix, page) /\ Item(ix, page, k) = r /\ k # 0
    BY <1>3, <2>2
  <2> QED
    BY <1>2, <1>7, <2>1 DEF Drops
<1> QED
  BY <1>6, <1>7

\* deleteKey
LEMMA DeleteDeletes ==
  ASSUME NEW ix, NEW n, NEW rk, NEW T, NEW root, NEW whole, NEW s,
         Good(ix, n, rk, T, root, NoPage, whole, s), RootOf(ix, rk, root), rk[root] <= 2,
         NEW r \in Records, NEW call, call.info = ix.info, NEW jx, jx = DeleteKey(ix, call, r)
  PROVE  \E t : /\ Deleted(jx, ix, n, rk, T, root, whole, t)
                /\ t \subseteq s
                /\ Unique /\ MaxKeys >= 2 => t = s \ {r}
<1> DEFINE page == FindLeaf(ix, call, r.key)
<1>1. /\ Tree(ix, n, rk) /\ T \subseteq 1 .. n /\ root \in T /\ NoPage \notin T
      /\ ix.info.root = root /\ call.info.root = root /\ r.key \in Int /\ Items(ix, rk, T) = s
      /\ call.info.height = rk[root] + 1
      /\ \A p \in T : p \in 1 .. n /\ Num(ix, p) \in Nat
  BY RecordKeys DEF Good, Shape, Family, RootOf
<1>2. page = FindLeafFrom(ix, root, r.key)
  BY <1>1 DEF FindLeaf
<1>3. page = FindLeaf(ix, call, r.key)
  OBVIOUS
<1> HIDE DEF page
<1>4. /\ page = NoPage \/ (page \in T /\ rk[page] = 0)
      /\ MaxKeys >= 2 => page # NoPage
      /\ Unique /\ page # NoPage => Belongs(ix, rk, T, root, page, r.key)
  <2>1. NoPage \in T => rk[NoPage] = 0
    BY <1>1
  <2>2. r.key \in Int
    BY <1>1
  <2> QED
    BY <1>2, <2>1, <2>2, SearchFinds
<1>5. page = NoPage \/ page \in 1 .. n
  BY <1>1, <1>4
<1>6. ASSUME jx = ix PROVE Deleted(jx, ix, n, rk, T, root, whole, s)
  <2>1. Good(jx, n, rk, T, root, NoPage, whole, s) /\ jx.info = ix.info /\ jx.pins = ix.pins
    BY <1>6
  <2> QED
    BY <2>1, StaysDeleted
<1>7. CASE page = NoPage
  <2>1. jx = ix
    BY <1>3, <1>7 DEF DeleteKey
  <2>2. ~(MaxKeys >= 2)
    BY <1>4, <1>7
  <2> QED
    BY <1>6, <2>1, <2>2
<1>8. CASE page # NoPage /\ jx = ix /\ \A i \in 1 .. Num(ix, page) : Item(ix, page, i) # r
  <2>1. page \in T /\ rk[page] = 0
    BY <1>4, <1>8
  <2>2. ASSUME Unique PROVE r \notin s
    <3>1. ASSUME r \in s PROVE FALSE
      <4>0. PICK q \in T : rk[q] = 0 /\ \E i \in 1 .. Num(ix, q) : Item(ix, q, i) = r
        BY <1>1, <3>1 DEF Items
      <4>1. PICK i \in 1 .. Num(ix, q) : Item(ix, q, i) = r
        BY <4>0
      <4>2. Key(ix, q, i) = r.key
        BY <4>1, KeyOfItem
      <4>3. r.key \in Int /\ Belongs(ix, rk, T, root, page, r.key)
        BY <1>1, <1>4, <1>8, <2>2
      <4>4. q = page
        BY <2>1, <2>2, <4>0, <4>2, <4>3, FoundThere
      <4> QED
        BY <1>8, <4>1, <4>4
    <3> QED
      BY <3>1
  <2>3. Unique => s = s \ {r}
    BY <2>2
  <2> QED
    BY <1>6, <1>8, <2>3
<1>9. ASSUME NEW k \in 1 .. Num(ix, page), page # NoPage, Item(ix, page, k) = r,
             jx = RebalanceAfterDelete(CutAt(ix, page, k), call, page)
      PROVE  \E t : /\ Deleted(jx, ix, n, rk, T, root, whole, t)
                    /\ t \subseteq s /\ (Unique => t = s \ {r})
  <2> DEFINE cx == CutAt(ix, page, k)
  <2>1. page \in T /\ page \in 1 .. n /\ rk[page] = 0
    BY <1>1, <1>4, <1>9
  <2>2. cx = CutAt(ix, page, k) /\ jx = RebalanceAfterDelete(cx, call, page)
    BY <1>9
  <2>3. cx.pins = ix.pins /\ cx.info = ix.info
    BY <1>1, <1>9, <2>1, CutEffect DEF Removed, Only
  <2> HIDE DEF cx
  <2>4. PICK t : /\ Good(cx, n, rk, T, root, page, whole, t)
                 /\ s \ {r} \subseteq t /\ t \subseteq s /\ (Unique => t = s \ {r})
    BY <1>9, <2>1, <2>2, LeafLoses
  <2>5. RootOf(cx, rk, root)
    BY <2>3 DEF RootOf
  <2>6. Deleted(jx, cx, n, rk, T, root, whole, t)
    BY <1>1, <2>1, <2>2, <2>4, <2>5, RebalanceDeletes
  <2>7. Deleted(jx, ix, n, rk, T, root, whole, t)
    BY <2>3, <2>6 DEF Deleted
  <2> QED
    BY <2>4, <2>7
<1>10. CASE page # NoPage
  <2>1. Drops(jx, ix, call, r, page)
    BY <1>1, <1>3, <1>5, <1>10, DeleteIs
  <2> QED
    BY <1>8, <1>9, <1>10, <2>1 DEF Drops
<1> QED
  BY <1>7, <1>10

-----------------------------------------------------------------------------
\* The pages of index ix are a tree with the entries s.
Bears(ix, whole, s) ==
    \E n, rk, T : Good(ix, n, rk, T, ix.info.root, NoPage, whole, s) /\ RootOf(ix, rk, ix.info.root)

\* No page has more pins, or fewer, than before, and a new one has none.
KeepsPins(jx, ix) ==
    \A p \in DOMAIN jx.pins : jx.pins[p] = IF p \in DOMAIN ix.pins THEN ix.pins[p] ELSE 0

Low(ix) == ix.info.height <= 3

LEMMA GoodFields ==
  ASSUME NEW ix, NEW n, NEW rk, NEW T, NEW root, NEW thin, NEW whole, NEW s,
         Good(ix, n, rk, T, root, thin, whole, s)
  PROVE  /\ Shape(ix, n, rk, T, root, NoPage) /\ Tree(ix, n, rk) /\ Items(ix, rk, T) = s
         /\ n \in Nat /\ DOMAIN ix.pins = 1 .. n /\ ix.created = TRUE /\ root \in T /\ T \subseteq 1 .. n
         /\ root # NoPage /\ rk[root] \in Nat /\ Size(ix) = n /\ ix.info.height \in Nat
<1>1. Shape(ix, n, rk, T, root, NoPage) /\ Items(ix, rk, T) = s
  BY DEF Good
<1>2. Tree(ix, n, rk) /\ T \subseteq 1 .. n /\ root \in T /\ NoPage \notin T
  BY <1>1 DEF Shape, Family
<1>3. n \in Nat /\ DOMAIN ix.pins = 1 .. n /\ ix.created = TRUE /\ rk \in [1 .. n -> Nat]
      /\ ix.info \in Infos(n)
  BY <1>2 DEF Tree
<1>4. root \in 1 .. n /\ rk[root] \in Nat /\ root # NoPage /\ ix.info.height \in Nat
  BY <1>2, <1>3 DEF Infos
<1>5. Size(ix) = n
  BY <1>2, SizeOf
<1> QED
  BY <1>1, <1>2, <1>3, <1>4, <1>5

LEMMA BearsMeans ==
  ASSUME NEW ix, NEW whole, NEW s, Bears(ix, whole, s)
  PROVE  ix.info.root # NoPage /\ EntriesOf(ix) = s /\ ix.created = TRUE /\ ix # NoIndex
<1>1. PICK n, rk, T : Good(ix, n, rk, T, ix.info.root, NoPage, whole, s) /\ RootOf(ix, rk, ix.info.root)
  BY DEF Bears
<1> DEFINE root == ix.info.root
<1>2. root = ix.info.root
  OBVIOUS
<1> HIDE DEF root
<1>3. Good(ix, n, rk, T, root, NoPage, whole, s) /\ RootOf(ix, rk, root)
  BY <1>1, <1>2
<1>4. /\ Shape(ix, n, rk, T, root, NoPage) /\ Items(ix, rk, T) = s
      /\ ix.created = TRUE /\ root # NoPage
  BY <1>3, GoodFields
<1>5. EntriesOf(ix) = Items(ix, rk, T)
  BY <1>3, <1>4, EntriesMean
<1>6. NoIndex.created = FALSE
  BY DEF NoIndex
<1> QED
  BY <1>2, <1>4, <1>5, <1>6

LEMMA BearsWeaker ==
  ASSUME NEW ix, NEW whole, NEW s, Bears(ix, whole, s)
  PROVE  Bears(ix, FALSE, s)
<1>1. PICK n, rk, T : Good(ix, n, rk, T, ix.info.root, NoPage, whole, s) /\ RootOf(ix, rk, ix.info.root)
  BY DEF Bears
<1>2. Good(ix, n, rk, T, ix.info.root, NoPage, FALSE, s)
  BY <1>1, GoodWeaker
<1> QED
  BY <1>1, <1>2 DEF Bears

LEMMA BackfillBears ==
  ASSUME NEW last \in Nat, NEW scan \in [1 .. last -> Records], last <= MaxKeys,
         NEW jx, jx = Backfilled(scan)
  PROVE  \E s : Bears(jx, TRUE, s) /\ Loaded(s, scan, last) /\ \A p \in DOMAIN jx.pins : jx.pins[p] = 0
<1>1. PICK s : OneLeaf(jx, last, s) /\ Loaded(s, scan, last)
  BY BackfillGood
<1> DEFINE one == 1
           yes == TRUE
           D == {1}
<1>2. one = 1 /\ yes = TRUE
  OBVIOUS
<1>3. Good(jx, one, Flat, D, one, NoPage, yes, s) /\ RootOf(jx, Flat, one) /\ jx.pins[one] = 0
  BY <1>1 DEF OneLeaf
<1> HIDE DEF one, yes, D
<1>4. jx.info.root = one
  BY <1>3 DEF RootOf
<1>5. Bears(jx, yes, s)
  BY <1>3, <1>4 DEF Bears
<1>6. DOMAIN jx.pins = 1 .. one
  BY <1>3, GoodFields
<1>7. \A p \in DOMAIN jx.pins : p = one
  BY <1>2, <1>6
<1> QED
  BY <1>1, <1>2, <1>3, <1>5, <1>7

\* The tree after an insertion, if it is not too high.
Enlarged(jx, ix, whole, s) == Bears(jx, whole, s) /\ KeepsPins(jx, ix)

LEMMA StandsEnlarged ==
  ASSUME NEW jx, NEW m, NEW rk, NEW T, NEW ix, NEW n \in Nat, NEW whole, NEW s,
         DOMAIN ix.pins = 1 .. n, m >= n, PinsOf(jx, m, ix, n), RootOf(jx, rk, jx.info.root),
         Good(jx, m, rk, T, jx.info.root, NoPage, whole, s)
  PROVE  Enlarged(jx, ix, whole, s)
<1>1. Bears(jx, whole, s)
  BY DEF Bears
<1>2. m \in Nat /\ DOMAIN jx.pins = 1 .. m
  BY GoodFields
<1>3. KeepsPins(jx, ix)
  <2>1. ASSUME NEW p \in 1 .. m PROVE jx.pins[p] = IF p \in 1 .. n THEN ix.pins[p] ELSE 0
    <3>1. p \in 1 .. n <=> p <= n
      BY <1>2
    <3> QED
      BY <3>1 DEF PinsOf
  <2> QED
    BY <1>2, <2>1 DEF KeepsPins
<1> QED
  BY <1>1, <1>3 DEF Enlarged

-----------------------------------------------------------------------------
\* A tree of up to three levels takes a record in, and is still none of four: all of it, if there
\* were pages enough, and some of it if there was one less than it needed.
LEMMA GrowsBears ==
  ASSUME NEW jx, NEW ix, NEW n \in Nat, NEW call, NEW whole, NEW s, Grows(jx, ix, n, call, whole, s),
         DOMAIN ix.pins = 1 .. n, call.limit \in Int, Size(jx) \in Int, jx.info.height \in Int, Low(jx)
  PROVE  /\ Size(jx) < call.limit => Enlarged(jx, ix, whole, s)
         /\ call.limit <= n + 2 => \E t : t \subseteq s /\ Enlarged(jx, ix, FALSE, t)
<1> DEFINE all == Enlarged(jx, ix, whole, s)
           some == \E t : t \subseteq s /\ Enlarged(jx, ix, FALSE, t)
<1>1. ~(jx.info.height > 3)
  BY DEF Low
<1>2. ASSUME \E m, rk, T : Stands(jx, m, rk, T, ix, n, call, whole, s)
      PROVE  all \/ (Size(jx) >= call.limit /\ some)
  <2>1. PICK m, rk, T : Stands(jx, m, rk, T, ix, n, call, whole, s)
    BY <1>2
  <2>2. m >= n /\ PinsOf(jx, m, ix, n) /\ RootOf(jx, rk, jx.info.root)
    BY <2>1 DEF Stands
  <2>3. CASE Good(jx, m, rk, T, jx.info.root, NoPage, whole, s)
    BY <2>2, <2>3, StandsEnlarged
  <2>4. ASSUME NEW t, t \subseteq s, Size(jx) >= call.limit,
               Good(jx, m, rk, T, jx.info.root, NoPage, FALSE, t)
        PROVE  t \subseteq s /\ Enlarged(jx, ix, FALSE, t)
    <3> DEFINE no == FALSE
    <3>1. no = FALSE
      OBVIOUS
    <3> HIDE DEF no
    <3>2. Good(jx, m, rk, T, jx.info.root, NoPage, no, t)
      BY <2>4, <3>1
    <3>3. Enlarged(jx, ix, no, t)
      BY <2>2, <3>2, StandsEnlarged
    <3> QED
      BY <2>4, <3>1, <3>3
  <2> QED
    BY <2>1, <2>3, <2>4 DEF Stands
<1>3. ASSUME all PROVE some
  <2>1. Enlarged(jx, ix, FALSE, s)
    BY <1>3, BearsWeaker DEF Enlarged
  <2>2. s \subseteq s
    OBVIOUS
  <2> QED
    BY <2>1, <2>2
<1>4. \/ Size(jx) >= call.limit /\ call.limit > n + 2
      \/ \E m, rk, T : Stands(jx, m, rk, T, ix, n, call, whole, s)
  BY <1>1 DEF Grows
<1> HIDE DEF all, some
<1>5. CASE \E m, rk, T : Stands(jx, m, rk, T, ix, n, call, whole, s)
  <2>1. (Size(jx) < call.limit => all) /\ some
    BY <1>2, <1>3, <1>5
  <2> QED
    BY <2>1 DEF all, some
<1>6. CASE Size(jx) >= call.limit /\ call.limit > n + 2
  <2>1. ~(Size(jx) < call.limit) /\ ~(call.limit <= n + 2)
    BY <1>6
  <2> QED
    BY <2>1
<1> QED
  BY <1>4, <1>5, <1>6

Entered(jx, ix, call, whole, s, r, t) ==
    /\ t = s \/ t = s \union {r}
    /\ MaxKeys >= 2 => t = Kept(s, r)
    /\ Size(jx) < call.limit => Enlarged(jx, ix, whole, t)
    /\ call.limit <= Size(ix) + 2 => \E u : u \subseteq t /\ Enlarged(jx, ix, FALSE, u)
    /\ Size(jx) \in Int

LEMMA InsertBears ==
  ASSUME NEW ix, NEW whole, NEW s, Bears(ix, whole, s), Low(ix), NEW r \in Records,
         NEW call, call.info = ix.info, call.limit \in Int,
         NEW jx, jx = InsertKey(ix, call, r), Low(jx)
  PROVE  \E t : Entered(jx, ix, call, whole, s, r, t)
<1>1. PICK n, rk, T : Good(ix, n, rk, T, ix.info.root, NoPage, whole, s) /\ RootOf(ix, rk, ix.info.root)
  BY DEF Bears
<1> DEFINE root == ix.info.root
<1>2. root = ix.info.root
  OBVIOUS
<1> HIDE DEF root
<1>3. Good(ix, n, rk, T, root, NoPage, whole, s) /\ RootOf(ix, rk, root)
  BY <1>1, <1>2
<1>4. /\ Tree(ix, n, rk) /\ n \in Nat /\ DOMAIN ix.pins = 1 .. n /\ rk[root] \in Nat
      /\ Size(ix) = n /\ ix.info.height \in Nat /\ root \in 1 .. n
  BY <1>3, GoodFields
<1>5. rk[root] <= 2
  BY <1>3, <1>4 DEF RootOf, Low
<1>6. PICK t : /\ Grows(jx, ix, n, call, whole, t)
               /\ t = s \/ t = s \union {r}
               /\ MaxKeys >= 2 => t = Kept(s, r)
  BY <1>3, <1>5, InsertGrows
<1>7. Size(jx) \in Int /\ jx.info.height \in Int
  <2>1. n >= 0 /\ call.info.root \in 0 .. n /\ call.info.height \in Nat
    BY <1>2, <1>4
  <2>2. HasTree(jx, 0)
    <3> DEFINE z == 0
    <3>1. z = 0 /\ z \in Nat /\ n >= z
      BY <2>1
    <3> HIDE DEF z
    <3>2. HasTree(jx, z)
      BY <1>4, <2>1, <3>1, InsertTree
    <3> QED
      BY <3>1, <3>2
  <2>3. PICK m, x : Tree(jx, m, x)
    BY <2>2 DEF HasTree
  <2>4. Size(jx) = m /\ m \in Nat /\ jx.info.height \in Nat
    BY ZenonT(60), <2>3, SizeOf DEF Tree, Infos
  <2> QED
    BY <2>4
<1>8. /\ Size(jx) < call.limit => Enlarged(jx, ix, whole, t)
      /\ call.limit <= n + 2 => \E u : u \subseteq t /\ Enlarged(jx, ix, FALSE, u)
  BY <1>4, <1>6, <1>7, GrowsBears
<1>9. Size(jx) < call.limit => Enlarged(jx, ix, whole, t)
  BY <1>8
<1>10. call.limit <= Size(ix) + 2 => \E u : u \subseteq t /\ Enlarged(jx, ix, FALSE, u)
  BY <1>4, <1>8
<1>11. Entered(jx, ix, call, whole, s, r, t)
  BY <1>6, <1>7, <1>9, <1>10 DEF Entered
<1> QED
  BY <1>11

LEMMA DeleteBears ==
  ASSUME NEW ix, NEW whole, NEW s, Bears(ix, whole, s), Low(ix), NEW r \in Records,
         NEW call, call.info = ix.info, NEW jx, jx = DeleteKey(ix, call, r)
  PROVE  \E t : /\ t \subseteq s
                /\ Unique /\ MaxKeys >= 2 => t = s \ {r}
                /\ Bears(jx, whole, t)
                /\ KeepsPins(jx, ix) \/ ~(InnersOf(ix) \subseteq InnersOf(jx))
<1>1. PICK n, rk, T : Good(ix, n, rk, T, ix.info.root, NoPage, whole, s) /\ RootOf(ix, rk, ix.info.root)
  BY DEF Bears
<1> DEFINE root == ix.info.root
<1>2. root = ix.info.root
  OBVIOUS
<1> HIDE DEF root
<1>3. Good(ix, n, rk, T, root, NoPage, whole, s) /\ RootOf(ix, rk, root)
  BY <1>1, <1>2
<1>4. /\ Shape(ix, n, rk, T, root, NoPage) /\ Tree(ix, n, rk) /\ n \in Nat /\ DOMAIN ix.pins = 1 .. n
      /\ rk[root] \in Nat /\ ix.info.height \in Nat
  BY <1>3, GoodFields
<1>5. rk[root] <= 2
  BY <1>3, <1>4 DEF RootOf, Low
<1>6. PICK t : /\ Deleted(jx, ix, n, rk, T, root, whole, t)
               /\ t \subseteq s
               /\ Unique /\ MaxKeys >= 2 => t = s \ {r}
  BY <1>3, <1>5, DeleteDeletes
<1>7. PICK V \in SUBSET T : \E top \in V :
        /\ Good(jx, n, rk, V, top, NoPage, whole, t)
        /\ NoHigher(rk, root, top) /\ RootOf(jx, rk, top)
        /\ jx.pins = ix.pins \/ LosesNode(rk, T, V)
  BY <1>6 DEF Deleted
<1>8. PICK top \in V :
        /\ Good(jx, n, rk, V, top, NoPage, whole, t) /\ RootOf(jx, rk, top)
        /\ jx.pins = ix.pins \/ LosesNode(rk, T, V)
  BY <1>7
<1>9. jx.info.root = top
  BY <1>8 DEF RootOf
<1>10. Bears(jx, whole, t)
  BY <1>8, <1>9 DEF Bears
<1>11. Shape(jx, n, rk, V, top, NoPage) /\ DOMAIN jx.pins = 1 .. n
  BY <1>8, GoodFields
<1>12. InnersOf(ix) = {p \in T : rk[p] # 0}
  BY <1>3, <1>4, PagesMean
<1>13. InnersOf(jx) = {p \in V : rk[p] # 0}
  BY <1>8, <1>11, PagesMean
<1>14. KeepsPins(jx, ix) \/ ~(InnersOf(ix) \subseteq InnersOf(jx))
  <2>1. CASE jx.pins = ix.pins
    BY <2>1 DEF KeepsPins
  <2>2. CASE LosesNode(rk, T, V)
    BY <1>12, <1>13, <2>2 DEF LosesNode
  <2> QED
    BY <1>8, <2>1, <2>2
<1> QED
  BY <1>6, <1>10, <1>14

-----------------------------------------------------------------------------
\* The invariant of the index while its tree has up to three levels, and what a step does to
\* what is in it and to the pins.
Rootless(ix) == ix = NoIndex \/ ix = Bare
TreeInv ==
    /\ IsFiniteSet(records)
    /\ Rootless(index) \/ \E s : Bears(index, failures = 0, s)

PinsKept == KeepsPins(index', index) \/ ~(InnersOf(index) \subseteq InnersOf(index'))
ReadyKept == index'.info.root # NoPage <=> index.info.root # NoPage

LEMMA RootlessMeans ==
  ASSUME NEW ix, Rootless(ix)
  PROVE  ix.info.root = NoPage /\ EntriesOf(ix) = {} /\ DOMAIN ix.pins = {}
<1>1. ix.info.root = NoPage /\ DOMAIN ix.pins = {}
  BY DEF Rootless, NoIndex, Bare
<1> QED
  BY <1>1 DEF EntriesOf

LEMMA SameKeepsPins == \A ix : KeepsPins(ix, ix)
BY DEF KeepsPins

LEMMA InsertStep ==
  ASSUME IndexInv, TreeInv, Low(index), Low(index)', NEW r \in Records, OnRecordInserted(r)
  PROVE  /\ TreeInv' /\ PinsKept /\ ReadyKept
         /\ MaxKeys >= 2 => EntriesOf(index') = IF index.info.root # NoPage
                                                THEN Kept(EntriesOf(index), r) ELSE EntriesOf(index)
<1>1. /\ index' = InsertKey(index, Unlimited, r) /\ failures' = failures
      /\ Size(index') <= MaxPages /\ records' = records \union {r}
  BY DEF OnRecordInserted
<1>2. IsFiniteSet(records')
  BY <1>1, FS_AddElement DEF TreeInv
<1>3. Unlimited.info = index.info /\ Unlimited.limit = MaxPages + 1 /\ MaxPages \in Nat
  BY IndexAssumption DEF Unlimited
<1>4. CASE Rootless(index)
  <2>1. index.info.root = NoPage /\ Unlimited.info.root = NoPage
    BY <1>3, <1>4, RootlessMeans
  <2>2. index' = index
    BY <1>1, <2>1, NoRootNoStep
  <2> QED
    BY <1>1, <1>2, <1>4, <2>1, <2>2, SameKeepsPins DEF TreeInv, PinsKept, ReadyKept, Rootless
<1>5. ASSUME NEW s, Bears(index, failures = 0, s)
      PROVE  /\ TreeInv' /\ PinsKept /\ ReadyKept
             /\ MaxKeys >= 2 => EntriesOf(index') = IF index.info.root # NoPage
                                                    THEN Kept(EntriesOf(index), r) ELSE EntriesOf(index)
  <2> DEFINE call == Unlimited
             whole == failures = 0
             jx == index'
  <2>1. /\ call.info = index.info /\ call.limit = MaxPages + 1 /\ call.limit \in Int
        /\ jx = InsertKey(index, call, r) /\ Bears(index, whole, s) /\ Low(jx)
        /\ whole = (failures' = 0)
    BY <1>1, <1>3, <1>5 DEF Low
  <2>0. jx = index'
    OBVIOUS
  <2> HIDE DEF call, whole, jx
  <2>2. EntriesOf(index) = s /\ index.info.root # NoPage
    BY ZenonT(60), <2>1, BearsMeans
  <2>3. PICK t : Entered(jx, index, call, whole, s, r, t)
    BY <2>1, InsertBears
  <2>4. Size(jx) < call.limit
    <3>1. Size(jx) <= MaxPages
      BY <1>1, <2>0
    <3> QED
      BY <1>3, <2>1, <2>3, <3>1 DEF Entered
  <2>5. Bears(jx, whole, t) /\ KeepsPins(jx, index)
    BY <2>3, <2>4 DEF Enlarged, Entered
  <2>6. EntriesOf(jx) = t /\ jx.info.root # NoPage
    BY <2>5, BearsMeans
  <2>7. TreeInv'
    BY <1>2, <2>0, <2>1, <2>5 DEF TreeInv
  <2>8. PinsKept /\ ReadyKept
    BY <2>0, <2>2, <2>5, <2>6 DEF PinsKept, ReadyKept
  <2> QED
    BY <2>0, <2>2, <2>3, <2>6, <2>7, <2>8 DEF Entered
<1> QED
  BY <1>4, <1>5 DEF TreeInv

-----------------------------------------------------------------------------
LEMMA InsertFailsStep ==
  ASSUME IndexInv, TreeInv, Low(index), Low(index)', NEW r \in Records, NEW m \in 0 .. 2,
         OnRecordInsertedFails(r, m)
  PROVE  /\ TreeInv' /\ PinsKept /\ ReadyKept
         /\ EntriesOf(index') \subseteq EntriesOf(index) \union {r}
<1>1. /\ index' = InsertKey(index, Call(m), r) /\ failures' = failures + 1
      /\ records' = records \union {r}
  BY DEF OnRecordInsertedFails
<1>2. IsFiniteSet(records')
  BY <1>1, FS_AddElement DEF TreeInv
<1>3. Call(m).info = index.info /\ Call(m).limit = Size(index) + m
  BY DEF Call
<1>4. CASE Rootless(index)
  <2>1. index.info.root = NoPage /\ Call(m).info.root = NoPage
    BY <1>3, <1>4, RootlessMeans
  <2>2. index' = index
    BY <1>1, <2>1, NoRootNoStep
  <2> QED
    BY <1>1, <1>2, <1>4, <2>1, <2>2, SameKeepsPins DEF TreeInv, PinsKept, ReadyKept, Rootless
<1>5. ASSUME NEW s, Bears(index, failures = 0, s)
      PROVE  /\ TreeInv' /\ PinsKept /\ ReadyKept
             /\ EntriesOf(index') \subseteq EntriesOf(index) \union {r}
  <2> DEFINE call == Call(m)
             whole == failures = 0
             none == failures' = 0
             jx == index'
  <2>1. /\ jx = InsertKey(index, call, r) /\ Bears(index, whole, s) /\ Low(jx)
        /\ call.info = index.info /\ call.limit = Size(index) + m
    BY <1>1, <1>3, <1>5 DEF Low
  <2>2. jx = index' /\ none = (failures' = 0)
    OBVIOUS
  <2>3. none = FALSE
    BY <1>1 DEF IndexInv
  <2> HIDE DEF call, whole, jx, none
  <2>4. EntriesOf(index) = s /\ index.info.root # NoPage
    BY <2>1, BearsMeans
  <2>5. Size(index) \in Nat
    <3>1. PICK n, rk, T : Good(index, n, rk, T, index.info.root, NoPage, whole, s)
      BY <2>1 DEF Bears
    <3>2. Size(index) = n /\ n \in Nat
      BY <3>1, GoodFields
    <3> QED
      BY <3>2
  <2>6. call.limit \in Int /\ call.limit <= Size(index) + 2
    BY <2>1, <2>5
  <2>7. PICK t : Entered(jx, index, call, whole, s, r, t)
    BY <2>1, <2>6, InsertBears
  <2>8. PICK u : u \subseteq t /\ Enlarged(jx, index, FALSE, u)
    BY <2>6, <2>7 DEF Entered
  <2>9. Enlarged(jx, index, none, u)
    BY <2>3, <2>8
  <2>10. Bears(jx, none, u) /\ KeepsPins(jx, index)
    BY <2>9 DEF Enlarged
  <2>11. EntriesOf(jx) = u /\ jx.info.root # NoPage
    BY <2>10, BearsMeans
  <2>12. TreeInv'
    BY <1>2, <2>2, <2>10 DEF TreeInv
  <2>13. PinsKept /\ ReadyKept
    BY <2>2, <2>4, <2>10, <2>11 DEF PinsKept, ReadyKept
  <2>14. u \subseteq s \union {r}
    BY <2>7, <2>8 DEF Entered
  <2> QED
    BY <2>2, <2>4, <2>11, <2>12, <2>13, <2>14
<1> QED
  BY <1>4, <1>5 DEF TreeInv

LEMMA DeleteStep ==
  ASSUME IndexInv, TreeInv, Low(index), NEW r \in Records, OnRecordDeleted(r)
  PROVE  /\ TreeInv' /\ PinsKept /\ ReadyKept
         /\ Unique /\ MaxKeys >= 2 => EntriesOf(index') = EntriesOf(index) \ {r}
<1>1. /\ index' = DeleteKey(index, Unlimited, r) /\ failures' = failures
      /\ records' = records \ {r}
  BY DEF OnRecordDeleted
<1>2. IsFiniteSet(records')
  BY <1>1, FS_RemoveElement DEF TreeInv
<1>3. Unlimited.info = index.info
  BY DEF Unlimited
<1>4. CASE Rootless(index)
  <2>1. index.info.root = NoPage /\ Unlimited.info.root = NoPage /\ EntriesOf(index) = {}
    BY <1>3, <1>4, RootlessMeans
  <2>2. index' = index
    BY <1>1, <2>1, NoRootNoStep
  <2> QED
    BY <1>1, <1>2, <1>4, <2>1, <2>2, SameKeepsPins DEF TreeInv, PinsKept, ReadyKept, Rootless
<1>5. ASSUME NEW s, Bears(index, failures = 0, s)
      PROVE  /\ TreeInv' /\ PinsKept /\ ReadyKept
             /\ Unique /\ MaxKeys >= 2 => EntriesOf(index') = EntriesOf(index) \ {r}
  <2> DEFINE call == Unlimited
             whole == failures = 0
             jx == index'
  <2>1. /\ jx = DeleteKey(index, call, r) /\ Bears(index, whole, s) /\ call.info = index.info
        /\ whole = (failures' = 0)
    BY <1>1, <1>3, <1>5
  <2>2. jx = index'
    OBVIOUS
  <2> HIDE DEF call, whole, jx
  <2>3. EntriesOf(index) = s /\ index.info.root # NoPage
    BY ZenonT(60), <2>1, BearsMeans
  <2>4. PICK t : /\ t \subseteq s
                 /\ Unique /\ MaxKeys >= 2 => t = s \ {r}
                 /\ Bears(jx, whole, t)
                 /\ KeepsPins(jx, index) \/ ~(InnersOf(index) \subseteq InnersOf(jx))
    BY <2>1, DeleteBears
  <2>5. EntriesOf(jx) = t /\ jx.info.root # NoPage
    BY <2>4, BearsMeans
  <2>6. TreeInv'
    BY <1>2, <2>1, <2>2, <2>4 DEF TreeInv
  <2>7. PinsKept /\ ReadyKept
    BY <2>2, <2>3, <2>4, <2>5 DEF PinsKept, ReadyKept
  <2> QED
    BY <2>2, <2>3, <2>4, <2>5, <2>6, <2>7
<1> QED
  BY <1>4, <1>5 DEF TreeInv

LEMMA FirstIndex ==
  ASSUME TreeInv, ~index.created
  PROVE  index = NoIndex
<1>1. ASSUME NEW s, NEW whole, Bears(index, whole, s) PROVE FALSE
  <2>1. index.created = TRUE
    BY <1>1, BearsMeans
  <2> QED
    BY <2>1
<1>2. \A s : ~Bears(index, failures = 0, s)
  BY <1>1
<1>3. Bare.created = TRUE
  BY DEF Bare
<1> QED
  BY <1>2, <1>3 DEF TreeInv, Rootless

LEMMA CreateFailsStep ==
  ASSUME TreeInv, CreateIndexFails
  PROVE  TreeInv' /\ PinsKept /\ ReadyKept /\ EntriesOf(index') = EntriesOf(index)
<1>1. index = NoIndex
  BY FirstIndex DEF CreateIndexFails
<1>2. index' = Bare
  BY <1>1 DEF CreateIndexFails, NoIndex, Bare
<1>3. Rootless(index) /\ Rootless(index')
  BY <1>1, <1>2 DEF Rootless
<1> HIDE DEF Rootless
<1>4. /\ index.info.root = NoPage /\ index'.info.root = NoPage /\ DOMAIN index'.pins = {}
      /\ EntriesOf(index) = {} /\ EntriesOf(index') = {}
  BY <1>3, RootlessMeans
<1>5. TreeInv'
  BY <1>3 DEF TreeInv, CreateIndexFails, Rootless
<1> QED
  BY <1>4, <1>5 DEF PinsKept, KeepsPins, ReadyKept
\* A scan of the table finds each of its records.
LEMMA ScanFinds ==
  ASSUME IsFiniteSet(records), NEW scan \in Scans, NEW last, last = Cardinality(records),
         records \subseteq Records
  PROVE  /\ scan \in [1 .. last -> records] /\ last \in Nat
         /\ \A r \in records : \E i \in 1 .. last : scan[i] = r
<1> DEFINE D == 1 .. last
<1>1. scan \in [D -> records]
  BY DEF Scans
<1>2. \A i, j \in D : i < j => scan[i].rid < scan[j].rid
  BY <1>1 DEF Scans
<1>3. last \in Nat
  BY FS_CardinalityType
<1>4. IsFiniteSet(D) /\ Cardinality(D) = last
  <2>1. 1 \in Int /\ last \in Int
    BY <1>3
  <2>2. IsFiniteSet(D) /\ Cardinality(D) = IF 1 > last THEN 0 ELSE last - 1 + 1
    BY <2>1, FS_Interval
  <2> QED
    BY <1>3, <2>2
<1>5. \A i, j \in D : scan[i] = scan[j] => i = j
  <2>1. SUFFICES ASSUME NEW i \in D, NEW j \in D, scan[i] = scan[j] PROVE i = j
    OBVIOUS
  <2>2. scan[i].rid \in Int
    BY <1>1, IndexAssumption
  <2>3. ~(i < j) /\ ~(j < i)
    BY <1>2, <2>1, <2>2
  <2> QED
    BY <1>3, <2>3
<1> HIDE DEF D
<1>6. scan \in Injection(D, records)
  BY <1>1, <1>5 DEF Injection, IsInjective
<1>7. scan \in Surjection(D, records)
  BY <1>4, <1>6, FS_Injection
<1> QED
  BY <1>1, <1>3, <1>7 DEF Surjection, D

\* What an index has that takes in the records of the table.
TakesIn(s) ==
    /\ s \subseteq records
    /\ \A r \in records \ s : ~Takes(s, r)
    /\ \A r \in s : Takes(s \ {r}, r)

LEMMA CreateStep ==
  ASSUME IndexInv, TreeInv, CreateIndex, CreateWith \subseteq 0 .. MaxKeys
  PROVE  /\ TreeInv' /\ PinsKept /\ index.info.root = NoPage /\ index'.info.root # NoPage
         /\ TakesIn(EntriesOf(index'))
<1> DEFINE last == Cardinality(records)
           jx == index'
           all == failures' = 0
<1>0. last = Cardinality(records) /\ jx = index' /\ all = (failures' = 0) /\ all \in BOOLEAN
  OBVIOUS
<1> HIDE DEF last, jx, all
<1>1. index = NoIndex
  BY FirstIndex DEF CreateIndex
<1>2. Rootless(index)
  BY <1>1 DEF Rootless
<1>3. index.info.root = NoPage /\ DOMAIN index.pins = {}
  BY <1>2, RootlessMeans
<1>4. PICK scan \in Scans : jx = Backfilled(scan)
  BY <1>0 DEF CreateIndex
<1>5. last \in Nat /\ last <= MaxKeys
  <2>1. last \in CreateWith
    BY <1>0 DEF CreateIndex
  <2>2. last \in 0 .. MaxKeys
    BY <2>1
  <2>3. MaxKeys \in Nat
    BY IndexAssumption
  <2> QED
    BY <2>2, <2>3
<1>6. records \subseteq Records /\ IsFiniteSet(records)
  BY DEF IndexInv, TreeInv
<1>7. scan \in [1 .. last -> records] /\ \A r \in records : \E i \in 1 .. last : scan[i] = r
  BY <1>0, <1>6, ScanFinds
<1>8. scan \in [1 .. last -> Records]
  BY <1>6, <1>7
<1>9. PICK s : /\ Bears(jx, TRUE, s) /\ Loaded(s, scan, last)
               /\ \A p \in DOMAIN jx.pins : jx.pins[p] = 0
  BY <1>4, <1>5, <1>8, BackfillBears
<1>10. EntriesOf(jx) = s /\ jx.info.root # NoPage
  <2> DEFINE yes == TRUE
  <2>1. Bears(jx, yes, s)
    BY <1>9
  <2> HIDE DEF yes
  <2> QED
    BY <2>1, BearsMeans
<1>11. Bears(jx, all, s)
  <2>1. CASE all = TRUE
    BY <1>9, <2>1
  <2>2. CASE all = FALSE
    <3> DEFINE yes == TRUE
    <3>1. Bears(jx, yes, s)
      BY <1>9
    <3> HIDE DEF yes
    <3>2. Bears(jx, FALSE, s)
      BY <3>1, BearsWeaker
    <3> QED
      BY <2>2, <3>2
  <2> QED
    BY <1>0, <2>1, <2>2
<1>12. TreeInv'
  <2>1. records' = records
    BY DEF CreateIndex
  <2> QED
    BY <1>0, <1>6, <1>11, <2>1 DEF TreeInv
<1>13. PinsKept
  BY <1>0, <1>3, <1>9 DEF PinsKept, KeepsPins
<1>14. TakesIn(s)
  <2>1. s \subseteq records
    BY <1>7, <1>9 DEF Loaded
  <2>2. ASSUME NEW r \in records \ s PROVE ~Takes(s, r)
    <3>1. PICK i \in 1 .. last : scan[i] = r
      BY <1>7
    <3>2. Kept(s, r) = s
      BY <1>9, <3>1 DEF Loaded
    <3> QED
      BY <3>2 DEF Kept
  <2>3. ASSUME NEW r \in s PROVE Takes(s \ {r}, r)
    BY <1>9 DEF Loaded, Takes
  <2> QED
    BY <2>1, <2>2, <2>3 DEF TakesIn
<1> QED
  BY <1>0, <1>3, <1>10, <1>12, <1>13, <1>14

-----------------------------------------------------------------------------
\* The dictionary says that the tree has at most three levels.
ThreeLevels == index.info.height <= 3

\* An index is created on a table whose records fit into one node.
FewAtFirst == CreateWith \subseteq 0 .. MaxKeys

LEMMA InitTree == Init => TreeInv
BY FS_EmptySet DEF Init, TreeInv, Rootless

LEMMA SameTree ==
  ASSUME TreeInv, UNCHANGED vars
  PROVE  TreeInv' /\ PinsKept
<1>1. index' = index /\ failures' = failures /\ records' = records
  BY DEF vars
<1>2. PinsKept
  BY <1>1, SameKeepsPins DEF PinsKept
<1>3. TreeInv'
  BY <1>1 DEF TreeInv, Rootless
<1> QED
  BY <1>2, <1>3

LEMMA NextTree ==
  ASSUME FewAtFirst, IndexInv, TreeInv, ThreeLevels, ThreeLevels', [Next]_vars
  PROVE  TreeInv' /\ PinsKept
<1>1. Low(index) /\ Low(index)' /\ CreateWith \subseteq 0 .. MaxKeys
  BY DEF ThreeLevels, Low, FewAtFirst
<1>2. CASE UNCHANGED vars
  BY <1>2, SameTree
<1>3. CASE CreateIndex
  BY <1>1, <1>3, CreateStep
<1>4. CASE CreateIndexFails
  BY <1>4, CreateFailsStep
<1>5. ASSUME NEW r \in Records, OnRecordInserted(r) PROVE TreeInv' /\ PinsKept
  BY <1>1, <1>5, InsertStep
<1>6. ASSUME NEW r \in Records, NEW m \in 0 .. 2, OnRecordInsertedFails(r, m)
      PROVE TreeInv' /\ PinsKept
  BY <1>1, <1>6, InsertFailsStep
<1>7. ASSUME NEW r \in Records, OnRecordDeleted(r) PROVE TreeInv' /\ PinsKept
  BY <1>1, <1>7, DeleteStep
<1> QED
  BY <1>2, <1>3, <1>4, <1>5, <1>6, <1>7 DEF Next

\* What the invariant says of the tree.
LEMMA PlantedOr ==
  ASSUME TreeInv
  PROVE  \/ ~Created
         \/ \E n, rk, T, root, s : /\ Good(index, n, rk, T, root, NoPage, failures = 0, s)
                                   /\ RootOf(index, rk, root)
<1>1. Rootless(index) => ~Created
  BY RootlessMeans DEF Created
<1> QED
  BY <1>1 DEF TreeInv, Bears

LEMMA TreeLinks == TreeInv => LinksAgree
<1>1. ~Created => LinksAgree
  BY DEF LinksAgree
<1>2. ASSUME NEW n, NEW rk, NEW T, NEW root, NEW s, NEW whole,
             Good(index, n, rk, T, root, NoPage, whole, s), RootOf(index, rk, root)
      PROVE  LinksAgree
  <2>1. Shape(index, n, rk, T, root, NoPage)
    BY <1>2 DEF Good
  <2> QED
    BY <1>2, <2>1, LinksHold
<1> QED
  BY <1>1, <1>2, PlantedOr

LEMMA TreeHalf == MaxKeys % 2 = 0 /\ TreeInv => HalfFull
<1>1. ~Created => HalfFull
  BY DEF HalfFull
<1>2. ASSUME NEW n, NEW rk, NEW T, NEW root, NEW s, NEW whole, MaxKeys % 2 = 0,
             Good(index, n, rk, T, root, NoPage, whole, s), RootOf(index, rk, root)
      PROVE  HalfFull
  BY <1>2, HalfHolds
<1> QED
  BY <1>1, <1>2, PlantedOr

LEMMA TreeOrder == Unique /\ MaxKeys >= 2 /\ TreeInv => Ordered
<1>1. ~Created => Ordered
  BY DEF Ordered
<1>2. ASSUME NEW n, NEW rk, NEW T, NEW root, NEW s, NEW whole, Unique, MaxKeys >= 2,
             Good(index, n, rk, T, root, NoPage, whole, s), RootOf(index, rk, root)
      PROVE  Ordered
  BY <1>2, OrderHolds
<1> QED
  BY <1>1, <1>2, PlantedOr

LEMMA TreeChain == Unique /\ TreeInv => LeafChain
<1>1. ~Created => LeafChain
  BY DEF LeafChain
<1>2. ASSUME NEW n, NEW rk, NEW T, NEW root, NEW s, Unique,
             Good(index, n, rk, T, root, NoPage, failures = 0, s), RootOf(index, rk, root)
      PROVE  LeafChain
  BY <1>2, ChainHolds
<1> QED
  BY <1>1, <1>2, PlantedOr

LEMMA IndexInvariant == Spec => []IndexInv
BY InitInv, NextInv, PTL DEF Spec

LEMMA TreeInvariant == FewAtFirst => (Spec /\ []ThreeLevels => []TreeInv)
<1> SUFFICES ASSUME FewAtFirst PROVE Spec /\ []ThreeLevels => []TreeInv
  OBVIOUS
<1>1. IndexInv /\ TreeInv /\ ThreeLevels /\ ThreeLevels' /\ [Next]_vars => TreeInv'
  BY NextTree
<1> QED
  BY <1>1, InitTree, IndexInvariant, PTL DEF Spec

\* While the tree has up to three levels, all leaves are on the last one and each node is the
\* parent its children name, by which splits and merges go up (index_manager.cpp:306, 375, 699,
\* 862), whatever allocation failed.  In four levels the right half of an internal node that
\* splits may not be told its parent (index_manager.cpp:426); and an index created for records
\* that do not fit into one leaf forgets its root (index_manager.cpp:91).
THEOREM IndexLinksAgree == FewAtFirst => (Spec /\ []ThreeLevels => []LinksAgree)
BY TreeInvariant, TreeLinks, PTL

\* With room for an even number of entries, every node but the root is at least half full: a split
\* cuts in the middle, and a node that gets too small borrows from a sibling that can spare an
\* entry, or merges (index_manager.cpp:229-298, 396-472, 600-742, 745-904).
THEOREM IndexHalfFull ==
  FewAtFirst /\ MaxKeys % 2 = 0 => (Spec /\ []ThreeLevels => []HalfFull)
<1> SUFFICES ASSUME FewAtFirst, MaxKeys % 2 = 0 PROVE Spec /\ []ThreeLevels => []HalfFull
  OBVIOUS
<1>1. TreeInv => HalfFull
  BY TreeHalf
<1> QED
  BY <1>1, TreeInvariant, PTL

\* In a unique index the leaves have the entries in the order of their keys, and a search for the
\* key of any entry ends at its leaf (index_manager.cpp:133-171): what splits, borrows and merges do
\* to a separator agrees with what they do to the leaves.  With room for one entry only, an
\* internal node may have none.
THEOREM IndexOrdered ==
  FewAtFirst /\ Unique /\ MaxKeys >= 2 => (Spec /\ []ThreeLevels => []Ordered)
<1> SUFFICES ASSUME FewAtFirst, Unique, MaxKeys >= 2 PROVE Spec /\ []ThreeLevels => []Ordered
  OBVIOUS
<1>1. TreeInv => Ordered
  BY TreeOrder
<1> QED
  BY <1>1, TreeInvariant, PTL

\* In a unique index in which no allocation failed, nextPage leads from the left-most leaf through
\* all leaves of the tree in their order, as showIndex follows it (index_manager.cpp:1023).
THEOREM IndexLeafChain ==
  FewAtFirst /\ Unique => (Spec /\ []ThreeLevels => []LeafChain)
<1> SUFFICES ASSUME FewAtFirst, Unique PROVE Spec /\ []ThreeLevels => []LeafChain
  OBVIOUS
<1>1. TreeInv => LeafChain
  BY TreeChain
<1> QED
  BY <1>1, TreeInvariant, PTL

\* A call that takes no internal node out of the tree leaves the pins of all pages as they were,
\* and a new page without any: an insertion, a split, a borrow, a merge of two leaves
\* (index_manager.cpp:173-298, 474-742).
THEOREM IndexPinsReturned == FewAtFirst => (Spec /\ []ThreeLevels => PinsReturned)
<1> SUFFICES ASSUME FewAtFirst PROVE Spec /\ []ThreeLevels => PinsReturned
  OBVIOUS
<1>1. PinsKept => \/ \A p \in DOMAIN index.pins' :
                        index.pins'[p] = IF p \in DOMAIN index.pins THEN index.pins[p] ELSE 0
                  \/ ~ Internals \subseteq Internals'
  BY NamesAre, NamesAreNow DEF PinsKept, KeepsPins
<1>2. IndexInv /\ TreeInv /\ ThreeLevels /\ ThreeLevels' /\ [Next]_vars =>
        [\/ \A p \in DOMAIN index.pins' :
               index.pins'[p] = IF p \in DOMAIN index.pins THEN index.pins[p] ELSE 0
         \/ ~ Internals \subseteq Internals']_vars
  BY <1>1, NextTree
<1> QED
  BY <1>2, TreeInvariant, IndexInvariant, PTL DEF PinsReturned, Spec

-----------------------------------------------------------------------------
\* The steps of the tree, as steps of what an index promises.
LEMMA EntriesNow == /\ Entries = EntriesOf(index) /\ Entries' = EntriesOf(index')
                    /\ Created = (index.info.root # NoPage)
                    /\ Created' = (index'.info.root # NoPage)
BY NamesAre, NamesAreNow DEF Created

LEMMA PromiseInit == Init => Promise!Init
<1> SUFFICES ASSUME Init PROVE Promise!Init
  OBVIOUS
<1>1. Rootless(index) /\ records = {} /\ failures = 0
  BY DEF Init, Rootless
<1>2. index.info.root = NoPage /\ EntriesOf(index) = {}
  BY <1>1, RootlessMeans
<1>3. Entries = {} /\ ~Created
  BY <1>2, EntriesNow
<1> HIDE DEF Entries, Created
<1> QED
  BY <1>1, <1>3 DEF Promise!Init

LEMMA TakesAccepts == \A s, r : Takes(s, r) <=> Promise!Accepts(s, r)
BY IndexAssumption DEF Takes, Promise!Accepts

LEMMA PromiseCreate ==
  ASSUME FewAtFirst, IndexInv, TreeInv, CreateIndex
  PROVE  Promise!Create
<1> DEFINE s == EntriesOf(index')
<1>1. index.info.root = NoPage /\ index'.info.root # NoPage /\ TakesIn(s)
  BY CreateStep DEF FewAtFirst
<1>2. ~Created /\ Created' /\ Entries' = s
  BY <1>1, EntriesNow
<1>3. records' = records /\ failures' = failures
  BY DEF CreateIndex
<1> HIDE DEF s
<1>4. /\ s \subseteq records
      /\ \A r \in records \ s : ~Promise!Accepts(s, r)
      /\ \A r \in s : Promise!Accepts(s \ {r}, r)
  BY <1>1, TakesAccepts DEF TakesIn
<1> QED
  BY <1>2, <1>3, <1>4 DEF Promise!Create

LEMMA PromiseCreateFails ==
  ASSUME TreeInv, CreateIndexFails
  PROVE  Promise!CreateFails
<1>1. ReadyKept /\ EntriesOf(index') = EntriesOf(index)
  BY CreateFailsStep
<1>2. (Created' <=> Created) /\ Entries' = Entries
  BY <1>1, EntriesNow DEF ReadyKept
<1>3. Created' = Created
  BY <1>2 DEF Created
<1>4. records' = records /\ failures' = failures + 1
  BY DEF CreateIndexFails
<1> QED
  BY <1>2, <1>3, <1>4 DEF Promise!CreateFails

LEMMA PromiseInsert ==
  ASSUME IndexInv, TreeInv, Low(index), Low(index)', MaxKeys >= 2,
         NEW r \in Records, OnRecordInserted(r)
  PROVE  Promise!Insert(r)
<1>1. /\ ReadyKept
      /\ EntriesOf(index') = IF index.info.root # NoPage
                             THEN Kept(EntriesOf(index), r) ELSE EntriesOf(index)
  BY InsertStep
<1>2. (Created' <=> Created) /\ Entries' = IF Created THEN Kept(Entries, r) ELSE Entries
  BY <1>1, EntriesNow DEF ReadyKept
<1>3. Created' = Created
  BY <1>2 DEF Created
<1>4. records' = records \union {r} /\ failures' = failures
  BY DEF OnRecordInserted
<1>5. Entries' = IF Created /\ Promise!Accepts(Entries, r) THEN Entries \union {r} ELSE Entries
  BY <1>2, TakesAccepts DEF Kept
<1> QED
  BY <1>3, <1>4, <1>5 DEF Promise!Insert

LEMMA PromiseInsertFails ==
  ASSUME IndexInv, TreeInv, Low(index), Low(index)',
         NEW r \in Records, NEW m \in 0 .. 2, OnRecordInsertedFails(r, m)
  PROVE  Promise!InsertFails(r)
<1>1. ReadyKept /\ EntriesOf(index') \subseteq EntriesOf(index) \union {r}
  BY InsertFailsStep
<1>2. (Created' <=> Created) /\ Entries' \subseteq Entries \union {r}
  BY <1>1, EntriesNow DEF ReadyKept
<1>3. Created' = Created
  BY <1>2 DEF Created
<1>4. records' = records \union {r} /\ failures' = failures + 1
  BY DEF OnRecordInsertedFails
<1> QED
  BY <1>2, <1>3, <1>4 DEF Promise!InsertFails

LEMMA PromiseDelete ==
  ASSUME IndexInv, TreeInv, Low(index), Unique, MaxKeys >= 2,
         NEW r \in Records, OnRecordDeleted(r)
  PROVE  Promise!Delete(r)
<1>1. ReadyKept /\ EntriesOf(index') = EntriesOf(index) \ {r}
  BY DeleteStep
<1>2. (Created' <=> Created) /\ Entries' = Entries \ {r}
  BY <1>1, EntriesNow DEF ReadyKept
<1>3. Created' = Created
  BY <1>2 DEF Created
<1>4. records' = records \ {r} /\ failures' = failures
  BY DEF OnRecordDeleted
<1> QED
  BY <1>2, <1>3, <1>4 DEF Promise!Delete

LEMMA PromiseNext ==
  ASSUME FewAtFirst, Unique, MaxKeys >= 2,
         IndexInv, TreeInv, ThreeLevels, ThreeLevels', [Next]_vars
  PROVE  [Promise!Next]_Promise!vars
<1>1. Low(index) /\ Low(index)'
  BY DEF ThreeLevels, Low
<1>2. CASE UNCHANGED vars
  <2>1. index' = index /\ records' = records /\ failures' = failures
    BY <1>2 DEF vars
  <2>2. Entries' = Entries
    BY <2>1, EntriesNow
  <2>3. Created' = Created
    BY <2>1 DEF Created
  <2> HIDE DEF Entries, Created
  <2> QED
    BY <2>1, <2>2, <2>3 DEF Promise!vars
<1> HIDE DEF Promise!vars, Entries, Created
<1>3. CASE CreateIndex
  BY <1>3, PromiseCreate DEF Promise!Next
<1>4. CASE CreateIndexFails
  BY <1>4, PromiseCreateFails DEF Promise!Next
<1>5. ASSUME NEW r \in Records, OnRecordInserted(r) PROVE Promise!Next
  <2>1. Promise!Insert(r)
    BY <1>1, <1>5, PromiseInsert
  <2> QED
    BY <2>1 DEF Promise!Next
<1>6. ASSUME NEW r \in Records, NEW m \in 0 .. 2, OnRecordInsertedFails(r, m) PROVE Promise!Next
  <2>1. Promise!InsertFails(r)
    BY <1>1, <1>6, PromiseInsertFails
  <2> QED
    BY <2>1 DEF Promise!Next
<1>7. ASSUME NEW r \in Records, OnRecordDeleted(r) PROVE Promise!Next
  <2>1. Promise!Delete(r)
    BY <1>1, <1>7, PromiseDelete
  <2> QED
    BY <2>1 DEF Promise!Next
<1> QED
  BY <1>2, <1>3, <1>4, <1>5, <1>6, <1>7 DEF Next

\* A unique index implements RecordIndex: what is in its leaves follows the records of the table,
\* an insertion adds its record and no other, a deletion takes its record and no other, whatever
\* moves between pages (index_manager.cpp:173-298, 474-904).  Where an allocation fails it is as
\* RecordIndex!InsertFails says.
THEOREM IndexKeepsPromise ==
  FewAtFirst /\ Unique /\ MaxKeys >= 2 => (Spec /\ []ThreeLevels => ImplementsIndex)
<1> SUFFICES ASSUME FewAtFirst, Unique, MaxKeys >= 2
             PROVE  Spec /\ []ThreeLevels => ImplementsIndex
  OBVIOUS
<1>1. IndexInv /\ TreeInv /\ ThreeLevels /\ ThreeLevels' /\ [Next]_vars => [Promise!Next]_Promise!vars
  BY PromiseNext
<1> QED
  BY <1>1, PromiseInit, TreeInvariant, IndexInvariant, PTL DEF ImplementsIndex, Promise!Spec, Spec
=============================================================================
