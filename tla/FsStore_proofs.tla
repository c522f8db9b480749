---------------------------- MODULE FsStore_proofs ----------------------------
(***************************************************************************)
(* Proof that an archive written by store is read back as it was written,   *)
(* for any tree that scripts and archives can make.                         *)
(***************************************************************************)
EXTENDS FsPromise_proofs

----------------------------------------------------------------------------
(* Sequences of sequences *)

\* g is the flattening of the first n sequences of L, one by one.
Flattening(L, g, n) == g = [i \in 1 .. n |-> IF i = 1 THEN L[i] ELSE g[i - 1] \o L[i]]

LEMMA FlatteningExists ==
  ASSUME NEW L
  PROVE  \A n \in Nat : \E g : Flattening(L, g, n)
<1> DEFINE S == {n \in Nat : \E g : Flattening(L, g, n)}
<1>1. 0 \in S
  <2> DEFINE g == [i \in 1 .. 0 |-> <<>>]
  <2>1. Flattening(L, g, 0)
    BY DEF Flattening
  <2> QED
    BY <2>1
<1>2. ASSUME NEW n \in Nat, n \in S PROVE n + 1 \in S
  <2>1. PICK f : Flattening(L, f, n)
    BY <1>2
  <2> DEFINE g == [i \in 1 .. n + 1 |-> IF i = n + 1
                                        THEN (IF i = 1 THEN L[i] ELSE f[i - 1] \o L[i])
                                        ELSE f[i]]
  <2>2. \A i \in 1 .. n : f[i] = IF i = 1 THEN L[i] ELSE f[i - 1] \o L[i]
    BY <2>1 DEF Flattening
  <2>3. \A i \in 1 .. n + 1 : g[i] = IF i = 1 THEN L[i] ELSE g[i - 1] \o L[i]
    BY <2>2
  <2>4. g = [i \in 1 .. n + 1 |-> g[i]]
    OBVIOUS
  <2>5. Flattening(L, g, n + 1)
    BY <2>3, <2>4 DEF Flattening
  <2> QED
    BY <2>5
<1> HIDE DEF S
<1>3. \A n \in Nat : n \in S
  BY <1>1, <1>2, AllNumbers
<1> QED
  BY <1>3 DEF S

\* f says what the first sequences of L make, for each number of them.
Steps(S, L, f) ==
  /\ f[0] = <<>>
  /\ \A i \in 1 .. Len(L) : f[i] \in Seq(S) /\ f[i] = f[i - 1] \o L[i]

LEMMA FlattenSteps ==
  ASSUME NEW S, NEW L \in Seq(Seq(S))
  PROVE  \E f : Steps(S, L, f) /\ FlattenSeq(L) = f[Len(L)]
<1> DEFINE n == Len(L)
<1>1. n \in Nat /\ \A i \in 1 .. n : L[i] \in Seq(S)
  OBVIOUS
<1>2. CASE n = 0
  <2> DEFINE f == [i \in {0} |-> <<>>]
  <2>1. L = <<>>
    BY <1>2, EmptySeq
  <2>2. FlattenSeq(L) = f[n]
    BY <1>2, <2>1 DEF FlattenSeq
  <2>3. Steps(S, L, f)
    BY <1>2 DEF Steps
  <2> QED
    BY <2>2, <2>3
<1>3. CASE n # 0
  <2> DEFINE g == CHOOSE g : Flattening(L, g, n)
             f == [i \in 0 .. n |-> IF i = 0 THEN <<>> ELSE g[i]]
  <2>1. Flattening(L, g, n)
    BY <1>1, FlatteningExists
  <2>2. FlattenSeq(L) = g[n]
    BY <1>3 DEF FlattenSeq, Flattening
  <2> HIDE DEF g
  <2>3. \A i \in 1 .. n : g[i] = IF i = 1 THEN L[i] ELSE g[i - 1] \o L[i]
    BY <2>1 DEF Flattening
  <2>4. f[0] = <<>> /\ \A i \in 1 .. n : f[i] = g[i]
    BY <1>1
  <2> HIDE DEF f, n
  <2>5. ASSUME NEW i \in 1 .. n PROVE f[i] = f[i - 1] \o L[i]
    <3>1. CASE i = 1
      <4>1. <<>> \o L[1] = L[1]
        BY <1>1, <3>1, ConcatEmptySeq
      <4>2. i - 1 = 0
        BY <3>1
      <4>3. f[i - 1] = <<>>
        BY <2>4, <4>2
      <4>4. f[i] = L[1] /\ L[i] = L[1]
        BY <2>3, <2>4, <3>1
      <4> QED
        BY <4>1, <4>3, <4>4
    <3>2. CASE i # 1
      <4>1. i - 1 \in 1 .. n
        BY <1>1, <3>2
      <4>2. f[i - 1] = g[i - 1] /\ f[i] = g[i]
        BY <2>4, <4>1
      <4>3. g[i] = g[i - 1] \o L[i]
        BY <2>3, <3>2
      <4> QED
        BY <4>2, <4>3
    <3> QED
      BY <3>1, <3>2
  <2> DEFINE T == {i \in Nat : i <= n => f[i] \in Seq(S)}
  <2>6. 0 \in T
    <3>1. <<>> \in Seq(S)
      OBVIOUS
    <3> QED
      BY <2>4, <3>1
  <2>7. ASSUME NEW i \in Nat, i \in T PROVE i + 1 \in T
    <3>1. SUFFICES ASSUME i + 1 <= n PROVE f[i + 1] \in Seq(S)
      OBVIOUS
    <3>2. i + 1 \in 1 .. n /\ i + 1 - 1 = i /\ i <= n
      BY <1>1, <3>1
    <3>3. f[i] \in Seq(S)
      BY <2>7, <3>2
    <3>4. L[i + 1] \in Seq(S)
      BY <1>1, <3>2
    <3>5. f[i + 1] = f[i] \o L[i + 1]
      <4> DEFINE k == i + 1
      <4>1. k \in 1 .. n /\ k - 1 = i
        BY <3>2
      <4> HIDE DEF k
      <4>2. f[k] = f[k - 1] \o L[k]
        BY <2>5, <4>1
      <4> QED
        BY <4>1, <4>2 DEF k
    <3> QED
      BY <3>3, <3>4, <3>5, ConcatProperties
  <2> HIDE DEF T
  <2>8. \A i \in Nat : i \in T
    BY <2>6, <2>7, AllNumbers
  <2>9. \A i \in 1 .. n : f[i] \in Seq(S)
    BY <1>1, <2>8 DEF T
  <2>10. Steps(S, L, f)
    BY <2>4, <2>5, <2>9 DEF Steps, n
  <2>11. FlattenSeq(L) = f[n]
    BY <1>1, <1>3, <2>2, <2>4
  <2> QED
    BY <2>10, <2>11 DEF n
<1> QED
  BY <1>2, <1>3

----------------------------------------------------------------------------
(* What a directory writes *)

\* No name is longer than some number.
Bounded(t) == \E h \in Nat : \A i \in DOMAIN t.item : Len(t.item[i].name) <= h

\* Every item is of a lower rank than the directory that lists it.
Ranks(t, rank) ==
  \A d \in DOMAIN t.item :
    /\ rank[d] \in Nat /\ rank[d] <= rank[Root]
    /\ \A k \in DOMAIN t.kids[d] : rank[t.kids[d][k]] < rank[d]

\* The longer the name, the lower the rank.
LEMMA RanksExist ==
  ASSUME NoBackslash, NEW t, Neat(t), Bounded(t)
  PROVE  \E rank : Ranks(t, rank)
<1>0. IsTree(t) /\ Named(t)
  BY DEF Neat, Sound
<1>1. PICK h \in Nat : \A i \in DOMAIN t.item : Len(t.item[i].name) <= h
  BY DEF Bounded
<1> DEFINE rank == [d \in DOMAIN t.item |-> IF d = Root THEN h + 1
                                            ELSE h - Len(t.item[d].name)]
<1>2. \A d \in DOMAIN t.item : t.item[d].name \in Names
  BY <1>0, TreeParts DEF Items
<1>3. \A d \in DOMAIN t.item : Len(t.item[d].name) \in Nat /\ t.item[d].name \in Seq(Components)
  BY <1>2, PathParts
<1>4. Root \in DOMAIN t.item
  BY <1>0, TreeParts
<1>5. \A d \in DOMAIN t.item \ {Root} : rank[d] = h - Len(t.item[d].name)
  OBVIOUS
<1>6. rank[Root] = h + 1
  BY <1>4
<1> HIDE DEF rank
<1>7. ASSUME NEW d \in DOMAIN t.item PROVE rank[d] \in Nat /\ rank[d] <= rank[Root]
  BY <1>1, <1>3, <1>5, <1>6
<1>8. ASSUME NEW d \in DOMAIN t.item, NEW k \in DOMAIN t.kids[d]
      PROVE  rank[t.kids[d][k]] < rank[d]
  <2> DEFINE i == t.kids[d][k]
  <2>1. i \in DOMAIN t.item \ {Root}
    <3>1. t.kids[d] \in Seq(DOMAIN t.item \ {Root})
      BY <1>0, TreeParts
    <3> QED
      BY <3>1
  <2>2. NamedByPlace(t, d, t.item[i].name)
    BY <1>0 DEF Named
  <2> HIDE DEF i
  <2>3. ASSUME d = Root PROVE rank[i] < rank[d]
    BY <1>1, <1>3, <1>5, <1>6, <2>1, <2>3
  <2>4. ASSUME d # Root PROVE rank[i] < rank[d]
    <3> DEFINE c == t.item[i].name[Len(t.item[i].name)]
               m == t.item[d].name
    <3>1. t.item[i].name = Append(m, c)
      BY <2>2, <2>4 DEF NamedByPlace
    <3>2. m \in Seq(Components)
      BY <1>3
    <3> HIDE DEF c, m
    <3>3. Len(t.item[i].name) = Len(m) + 1
      BY <3>1, <3>2
    <3> QED
      BY <1>1, <1>3, <1>5, <2>1, <2>4, <3>3 DEF m
  <2> QED
    BY <2>3, <2>4 DEF i
<1>9. Ranks(t, rank)
  BY <1>7, <1>8 DEF Ranks
<1> QED
  BY <1>9

\* The entry of each item of d, and what is below it.
Pieces(t, b, d) == [k \in DOMAIN t.kids[d] |->
                      <<t.item[t.kids[d][k]]>> \o b[t.kids[d][k]]]

\* b says for every item what ProcessDirectory writes below it.
Lists(t, b) == b = [d \in DOMAIN t.item |-> FlattenSeq(Pieces(t, b, d))]

LEMMA ListsExist ==
  ASSUME NEW t, IsTree(t), NEW rank, Ranks(t, rank)
  PROVE  \E b : Lists(t, b)
<1> DEFINE D == DOMAIN t.item
           Upto(n, b) == \A d \in D : rank[d] < n => b[d] = FlattenSeq(Pieces(t, b, d))
           S == {n \in Nat : \E b : b = [d \in D |-> b[d]] /\ Upto(n, b)}
<1>1. 0 \in S
  <2> DEFINE b == [d \in D |-> <<>>]
  <2>1. Upto(0, b)
    BY DEF Ranks
  <2>2. b = [d \in D |-> b[d]]
    OBVIOUS
  <2> QED
    BY <2>1, <2>2
<1>2. ASSUME NEW n \in Nat, n \in S PROVE n + 1 \in S
  <2>1. PICK a : Upto(n, a)
    BY <1>2
  <2> DEFINE b == [d \in D |-> IF rank[d] < n THEN a[d] ELSE FlattenSeq(Pieces(t, a, d))]
  <2>2. \A d \in D : rank[d] < n => b[d] = a[d]
    OBVIOUS
  <2>3. \A d \in D : b[d] = FlattenSeq(Pieces(t, a, d))
    BY <2>1
  <2>4. b = [d \in D |-> b[d]]
    OBVIOUS
  <2> HIDE DEF b
  <2>5. ASSUME NEW d \in D, rank[d] < n + 1 PROVE Pieces(t, b, d) = Pieces(t, a, d)
    <3>1. t.kids[d] \in Seq(D \ {Root})
      BY TreeParts
    <3>2. \A k \in DOMAIN t.kids[d] : t.kids[d][k] \in D /\ rank[t.kids[d][k]] < rank[d]
      BY <3>1 DEF Ranks
    <3>3. \A e \in D : rank[e] \in Nat
      BY DEF Ranks
    <3>4. \A k \in DOMAIN t.kids[d] : b[t.kids[d][k]] = a[t.kids[d][k]]
      BY <2>2, <2>5, <3>2, <3>3
    <3> QED
      BY <3>4 DEF Pieces
  <2>6. Upto(n + 1, b)
    BY <2>3, <2>5
  <2> QED
    BY <2>4, <2>6
<1> HIDE DEF S
<1>3. \A n \in Nat : n \in S
  BY <1>1, <1>2, AllNumbers
<1>4. rank[Root] \in Nat /\ rank[Root] + 1 \in Nat
  <2>1. Root \in DOMAIN t.item
    BY TreeParts
  <2>2. rank[Root] \in Nat
    BY <2>1 DEF Ranks
  <2> QED
    BY <2>2
<1>5. PICK b : b = [d \in D |-> b[d]] /\ Upto(rank[Root] + 1, b)
  BY <1>3, <1>4 DEF S
<1>6. \A d \in D : rank[d] < rank[Root] + 1
  BY <1>4 DEF Ranks
<1>7. \A d \in D : b[d] = FlattenSeq(Pieces(t, b, d))
  BY <1>5, <1>6
<1>8. Lists(t, b)
  BY <1>5, <1>7 DEF Lists
<1> QED
  BY <1>8

\* The archive is what is below Root.
LEMMA ArchiveIsBelow ==
  ASSUME NEW t, IsTree(t), NEW rank, Ranks(t, rank)
  PROVE  \E b : Lists(t, b) /\ ArchiveOf(t) = b[Root]
<1> DEFINE below == CHOOSE b : Lists(t, b)
<1>1. Lists(t, below)
  BY ListsExist
<1>2. ArchiveOf(t) = below[Root]
  BY DEF ArchiveOf, Lists, Pieces
<1> QED
  BY <1>1, <1>2

----------------------------------------------------------------------------
(* The order in which the items are written *)

In(s, i) == \E m \in DOMAIN s : s[m] = i
Before(s, k, i) == \E m \in DOMAIN s : m < k /\ s[m] = i

\* The k-th item of s is one of a directory written before it, or one of the
\* first n of d, and so are the ones listed before it.
InTurn(t, d, n, s, k) ==
  \E p \in DOMAIN t.item : \E j \in DOMAIN t.kids[p] :
    /\ t.kids[p][j] = s[k]
    /\ (p = d /\ j <= n) \/ Before(s, k, p)
    /\ \A l \in 1 .. j - 1 : Before(s, k, t.kids[p][l])

\* s is an order of what is below the first n items of d and of these items.
Order(t, rank, d, n, s) ==
  /\ s \in Seq(DOMAIN t.item \ {Root})
  /\ \A k \in DOMAIN s : InTurn(t, d, n, s, k) /\ rank[s[k]] < rank[d]
  /\ \A l \in 1 .. n : In(s, t.kids[d][l])
  /\ \A k \in DOMAIN s : \A l \in DOMAIN t.kids[s[k]] : In(s, t.kids[s[k]][l])
  /\ \A j, k \in DOMAIN s : s[j] = s[k] => j = k

\* One element and a sequence behind another.
Joint(S, w, s, y, r) ==
  /\ w \in Seq(S)
  /\ Len(w) = Len(s) + 1 + Len(r)
  /\ \A k \in 1 .. Len(s) : w[k] = s[k]
  /\ w[Len(s) + 1] = y
  /\ \A k \in 1 .. Len(r) : w[Len(s) + 1 + k] = r[k]

LEMMA Behind ==
  ASSUME NEW S, NEW s \in Seq(S), NEW r \in Seq(S), NEW y \in S
  PROVE  Joint(S, s \o (<<y>> \o r), s, y, r)
<1> DEFINE v == <<y>> \o r
           w == s \o v
<1>1. v \in Seq(S) /\ Len(v) = 1 + Len(r) /\ v[1] = y
  BY ConcatProperties
<1>2. \A k \in 1 .. Len(r) : v[1 + k] = r[k]
  OBVIOUS
<1> HIDE DEF v
<1>3. /\ w \in Seq(S) /\ Len(w) = Len(s) + Len(v)
      /\ \A k \in 1 .. Len(s) : w[k] = s[k]
      /\ \A k \in 1 .. Len(v) : w[Len(s) + k] = v[k]
  BY <1>1
<1> HIDE DEF w
<1>4. Len(s) \in Nat /\ Len(r) \in Nat
  OBVIOUS
<1>5. Len(w) = Len(s) + 1 + Len(r)
  BY <1>1, <1>3, <1>4
<1>6. w[Len(s) + 1] = y
  BY <1>1, <1>3, <1>4
<1>7. ASSUME NEW k \in 1 .. Len(r) PROVE w[Len(s) + 1 + k] = r[k]
  <2>1. 1 + k \in 1 .. Len(v) /\ Len(s) + (1 + k) = Len(s) + 1 + k
    BY <1>1, <1>4
  <2>2. w[Len(s) + (1 + k)] = v[1 + k]
    BY <1>3, <2>1
  <2> QED
    BY <1>2, <2>1, <2>2
<1> QED
  BY <1>3, <1>5, <1>6, <1>7 DEF w, v, Joint

\* The next item of d and what is below it, behind what is below those before it.
LEMMA OrderMore ==
  ASSUME NEW t, IsTree(t), OnePlace(t), NEW rank, Ranks(t, rank),
         NEW d \in DOMAIN t.item, NEW n \in Nat, n + 1 \in DOMAIN t.kids[d],
         NEW s, Order(t, rank, d, n, s), NEW y, y = t.kids[d][n + 1],
         NEW r, Order(t, rank, y, Len(t.kids[y]), r)
  PROVE  Order(t, rank, d, n + 1, s \o (<<y>> \o r))
<1> DEFINE D == DOMAIN t.item
           w == s \o (<<y>> \o r)
           N == Len(s)
<1>1. /\ y \in D \ {Root} /\ rank[y] < rank[d] /\ rank[y] \in Nat /\ rank[d] \in Nat
      /\ \A e \in D : rank[e] \in Nat
  <2>1. t.kids[d] \in Seq(D \ {Root})
    BY TreeParts
  <2> QED
    BY <2>1 DEF Ranks
<1>2. s \in Seq(D \ {Root}) /\ r \in Seq(D \ {Root}) /\ N \in Nat /\ Len(r) \in Nat
  BY DEF Order
<1>3. /\ w \in Seq(D \ {Root}) /\ Len(w) = N + 1 + Len(r)
      /\ \A k \in 1 .. N : w[k] = s[k]
      /\ w[N + 1] = y
      /\ \A k \in 1 .. Len(r) : w[N + 1 + k] = r[k]
  BY <1>1, <1>2, Behind DEF Joint
<1>4. DOMAIN s = 1 .. N /\ DOMAIN r = 1 .. Len(r) /\ DOMAIN w = 1 .. Len(w)
  BY <1>2, <1>3
<1> HIDE DEF w, N
<1>5. /\ \A k \in DOMAIN s : k \in DOMAIN w /\ w[k] = s[k] /\ k < N + 1
      /\ N + 1 \in DOMAIN w
      /\ \A k \in DOMAIN r : N + 1 + k \in DOMAIN w /\ w[N + 1 + k] = r[k]
  BY <1>2, <1>3, <1>4
<1>6. ASSUME NEW k \in DOMAIN w
      PROVE  k \in DOMAIN s \/ k = N + 1 \/ \E m \in DOMAIN r : k = N + 1 + m
  <2>1. k \in Nat /\ 1 <= k /\ k <= N + 1 + Len(r)
    BY <1>3, <1>4
  <2>2. CASE k > N + 1
    <3>1. k - (N + 1) \in DOMAIN r /\ k = N + 1 + (k - (N + 1))
      BY <1>2, <1>4, <2>1, <2>2
    <3> QED
      BY <3>1
  <2> QED
    BY <1>2, <1>4, <2>1, <2>2
<1>7. \A i : In(s, i) => In(w, i) /\ Before(w, N + 1, i)
  BY <1>5 DEF In, Before
<1>8. \A i : In(r, i) => In(w, i)
  BY <1>5 DEF In
<1>9. In(w, y)
  BY <1>3, <1>5 DEF In
<1>10. ASSUME NEW k \in DOMAIN s PROVE s[k] # y
  <2> SUFFICES ASSUME s[k] = y PROVE FALSE
    OBVIOUS
  <2>1. PICK p \in D : \E j \in DOMAIN t.kids[p] :
                         /\ t.kids[p][j] = s[k]
                         /\ (p = d /\ j <= n) \/ Before(s, k, p)
    BY DEF Order, InTurn
  <2>2. PICK j \in DOMAIN t.kids[p] : /\ t.kids[p][j] = s[k]
                                      /\ (p = d /\ j <= n) \/ Before(s, k, p)
    BY <2>1
  <2>3. p = d /\ j = n + 1
    BY <2>2 DEF OnePlace
  <2>4. ~(j <= n)
    BY <2>3
  <2>5. PICK m \in DOMAIN s : s[m] = d
    BY <2>2, <2>3, <2>4 DEF Before
  <2>6. rank[d] < rank[d]
    BY <2>5 DEF Order
  <2> QED
    BY <1>1, <2>6
<1>11. \A m \in DOMAIN r : r[m] # y /\ r[m] # d
  <2>1. \A m \in DOMAIN r : rank[r[m]] < rank[y]
    BY DEF Order
  <2> QED
    BY <1>1, <2>1
<1>12. \A k \in DOMAIN s, m \in DOMAIN r : s[k] # r[m]
  <2> DEFINE S == {k \in Nat : k \in DOMAIN s => \A m \in DOMAIN r : s[k] # r[m]}
  <2>1. ASSUME NEW k \in Nat, \A i \in Nat : i < k => i \in S PROVE k \in S
    <3>1. SUFFICES ASSUME k \in DOMAIN s, NEW m \in DOMAIN r, s[k] = r[m] PROVE FALSE
      OBVIOUS
    <3>2. PICK p \in D : \E j \in DOMAIN t.kids[p] :
                           /\ t.kids[p][j] = s[k]
                           /\ p = d \/ Before(s, k, p)
      BY <3>1 DEF Order, InTurn
    <3>3. PICK q \in D : \E j \in DOMAIN t.kids[q] :
                           /\ t.kids[q][j] = r[m]
                           /\ q = y \/ Before(r, m, q)
      BY <3>1 DEF Order, InTurn
    <3>4. p = q
      BY <3>1, <3>2, <3>3 DEF OnePlace
    <3>5. p = y \/ In(r, p)
      BY <3>3, <3>4 DEF Before, In
    <3>6. p # d
      BY <1>1, <1>11, <3>5 DEF In
    <3>7. PICK i \in DOMAIN s : i < k /\ s[i] = p
      BY <3>2, <3>6 DEF Before
    <3>8. p # y
      BY <1>10, <3>7
    <3>9. i \in Nat /\ i \in S
      BY <1>4, <2>1, <3>7
    <3> QED
      BY <3>5, <3>7, <3>8, <3>9 DEF In
  <2> HIDE DEF S
  <2>2. \A k \in Nat : k \in S
    BY <2>1, AllLengths
  <2>3. \A k \in DOMAIN s : k \in Nat
    BY <1>4
  <2> QED
    BY <2>2, <2>3 DEF S
<1>13. ASSUME NEW k \in DOMAIN w PROVE InTurn(t, d, n + 1, w, k)
  <2>1. CASE k \in DOMAIN s
    <3>1. PICK p \in D : \E j \in DOMAIN t.kids[p] :
                         /\ t.kids[p][j] = s[k]
                         /\ (p = d /\ j <= n) \/ Before(s, k, p)
                         /\ \A l \in 1 .. j - 1 : Before(s, k, t.kids[p][l])
      BY <2>1 DEF Order, InTurn
    <3>2. PICK j \in DOMAIN t.kids[p] :
                         /\ t.kids[p][j] = s[k]
                         /\ (p = d /\ j <= n) \/ Before(s, k, p)
                         /\ \A l \in 1 .. j - 1 : Before(s, k, t.kids[p][l])
      BY <3>1
    <3>3. \A i : Before(s, k, i) => Before(w, k, i)
      BY <1>5 DEF Before
    <3>4. p = d /\ j <= n => j <= n + 1
      <4>1. t.kids[p] \in Seq(D \ {Root})
        BY TreeParts
      <4>2. j \in Nat
        BY <4>1
      <4> QED
        BY <4>2
    <3>5. w[k] = s[k]
      BY <1>5, <2>1
    <3> QED
      BY <3>2, <3>3, <3>4, <3>5 DEF InTurn
  <2>2. CASE k = N + 1
    <3>1. \A l \in 1 .. n + 1 - 1 : Before(w, k, t.kids[d][l])
      <4>1. \A l \in 1 .. n : In(s, t.kids[d][l])
        BY DEF Order
      <4>2. n + 1 - 1 = n
        OBVIOUS
      <4> QED
        BY <1>7, <2>2, <4>1, <4>2
    <3>2. t.kids[d][n + 1] = w[k] /\ n + 1 <= n + 1
      BY <1>3, <2>2
    <3> QED
      BY <3>1, <3>2 DEF InTurn
  <2>3. ASSUME NEW m \in DOMAIN r, k = N + 1 + m PROVE InTurn(t, d, n + 1, w, k)
    <3>1. PICK p \in D : \E j \in DOMAIN t.kids[p] :
                         /\ t.kids[p][j] = r[m]
                         /\ p = y \/ Before(r, m, p)
                         /\ \A l \in 1 .. j - 1 : Before(r, m, t.kids[p][l])
      BY <2>3 DEF Order, InTurn
    <3>2. PICK j \in DOMAIN t.kids[p] :
                         /\ t.kids[p][j] = r[m]
                         /\ p = y \/ Before(r, m, p)
                         /\ \A l \in 1 .. j - 1 : Before(r, m, t.kids[p][l])
      BY <3>1
    <3>3. ASSUME NEW i, Before(r, m, i) PROVE Before(w, k, i)
      <4>1. PICK h \in DOMAIN r : h < m /\ r[h] = i
        BY <3>3 DEF Before
      <4>2. N + 1 + h \in DOMAIN w /\ w[N + 1 + h] = i /\ N + 1 + h < k
        BY <1>2, <1>4, <1>5, <2>3, <4>1
      <4> QED
        BY <4>2 DEF Before
    <3>4. Before(w, k, y)
      <4>1. N + 1 < k
        BY <1>2, <1>4, <2>3
      <4> QED
        BY <1>3, <1>5, <4>1 DEF Before
    <3>5. w[k] = r[m]
      BY <1>5, <2>3
    <3> QED
      BY <3>2, <3>3, <3>4, <3>5 DEF InTurn
  <2> QED
    BY <1>6, <2>1, <2>2, <2>3
<1>14. ASSUME NEW k \in DOMAIN w PROVE rank[w[k]] < rank[d]
  <2>1. \A i \in DOMAIN s : rank[s[i]] < rank[d]
    BY DEF Order
  <2>2. \A i \in DOMAIN r : rank[r[i]] < rank[d]
    <3>1. \A i \in DOMAIN r : rank[r[i]] < rank[y] /\ r[i] \in D
      BY <1>2 DEF Order
    <3> QED
      BY <1>1, <3>1
  <2> QED
    BY <1>1, <1>3, <1>5, <1>6, <2>1, <2>2
<1>15. ASSUME NEW l \in 1 .. n + 1 PROVE In(w, t.kids[d][l])
  <2>1. CASE l = n + 1
    BY <1>9, <2>1
  <2>2. CASE l # n + 1
    <3>1. l \in 1 .. n
      BY <2>2
    <3> QED
      BY <1>7, <3>1 DEF Order
  <2> QED
    BY <2>1, <2>2
<1>16. ASSUME NEW k \in DOMAIN w, NEW l \in DOMAIN t.kids[w[k]]
       PROVE  In(w, t.kids[w[k]][l])
  <2>1. CASE k \in DOMAIN s
    BY <1>5, <1>7, <2>1 DEF Order
  <2>2. CASE k = N + 1
    <3>1. w[k] = y
      BY <1>3, <2>2
    <3>2. DOMAIN t.kids[y] = 1 .. Len(t.kids[y])
      <4>1. t.kids[y] \in Seq(D \ {Root})
        BY <1>1, TreeParts
      <4> QED
        BY <4>1
    <3>3. \A i \in 1 .. Len(t.kids[y]) : In(r, t.kids[y][i])
      BY DEF Order
    <3> QED
      BY <1>8, <3>1, <3>2, <3>3
  <2>3. ASSUME NEW m \in DOMAIN r, k = N + 1 + m PROVE In(w, t.kids[w[k]][l])
    <3>1. w[k] = r[m]
      BY <1>5, <2>3
    <3> QED
      BY <1>8, <3>1 DEF Order
  <2> QED
    BY <1>6, <2>1, <2>2, <2>3
<1>17. ASSUME NEW j \in DOMAIN w, NEW k \in DOMAIN w, w[j] = w[k] PROVE j = k
  <2>1. \A a, c \in DOMAIN s : s[a] = s[c] => a = c
    BY DEF Order
  <2>2. \A a, c \in DOMAIN r : r[a] = r[c] => a = c
    BY DEF Order
  <2>3. CASE j \in DOMAIN s
    BY <1>3, <1>5, <1>6, <1>10, <1>12, <1>17, <2>1, <2>3
  <2>4. CASE j = N + 1
    BY <1>3, <1>5, <1>6, <1>10, <1>11, <1>17, <2>4
  <2>5. CASE \E m \in DOMAIN r : j = N + 1 + m
    BY <1>3, <1>5, <1>6, <1>11, <1>12, <1>17, <2>2, <2>5
  <2> QED
    BY <1>6, <2>3, <2>4, <2>5
<1>18. Order(t, rank, d, n + 1, w)
  BY <1>3, <1>13, <1>14, <1>15, <1>16, <1>17 DEF Order
<1> QED
  BY <1>18 DEF w

----------------------------------------------------------------------------
(* The archive is the items in that order *)

ItemsAt(t, s) == [k \in DOMAIN s |-> t.item[s[k]]]

LEMMA ItemsAtParts ==
  ASSUME NEW t, IsTree(t), NEW s \in Seq(DOMAIN t.item \ {Root})
  PROVE  ItemsAt(t, s) \in Seq(Items) /\ Len(ItemsAt(t, s)) = Len(s)
<1>1. \A k \in 1 .. Len(s) : t.item[s[k]] \in Items
  BY TreeParts
<1>2. ItemsAt(t, s) = [k \in 1 .. Len(s) |-> t.item[s[k]]]
  BY DEF ItemsAt
<1>3. Len(s) \in Nat
  OBVIOUS
<1> QED
  BY <1>1, <1>2, <1>3

LEMMA ItemsAtBehind ==
  ASSUME NEW t, IsTree(t), NEW s \in Seq(DOMAIN t.item \ {Root}),
         NEW r \in Seq(DOMAIN t.item \ {Root}), NEW y \in DOMAIN t.item \ {Root}
  PROVE  ItemsAt(t, s \o (<<y>> \o r)) = ItemsAt(t, s) \o (<<t.item[y]>> \o ItemsAt(t, r))
<1> DEFINE D == DOMAIN t.item \ {Root}
           w == s \o (<<y>> \o r)
           a == ItemsAt(t, s)
           c == ItemsAt(t, r)
           x == t.item[y]
           v == a \o (<<x>> \o c)
           N == Len(s)
<1>1. /\ a \in Seq(Items) /\ Len(a) = N /\ c \in Seq(Items) /\ Len(c) = Len(r)
      /\ x \in Items
  BY ItemsAtParts, TreeParts
<1>2. /\ w \in Seq(D) /\ Len(w) = N + 1 + Len(r)
      /\ \A k \in 1 .. N : w[k] = s[k]
      /\ w[N + 1] = y
      /\ \A k \in 1 .. Len(r) : w[N + 1 + k] = r[k]
  BY Behind DEF Joint
<1> HIDE DEF a, c, x
<1>3. Joint(Items, v, a, x, c)
  BY <1>1, Behind
<1>4. /\ \A k \in 1 .. N : a[k] = t.item[s[k]]
      /\ \A k \in 1 .. Len(r) : c[k] = t.item[r[k]]
  BY DEF ItemsAt, a, c
<1>5. N \in Nat /\ Len(r) \in Nat
  OBVIOUS
<1>6. DOMAIN v = DOMAIN w /\ DOMAIN w = 1 .. N + 1 + Len(r)
  BY <1>1, <1>2, <1>3 DEF Joint
<1> HIDE DEF v, w, N
<1>7. ASSUME NEW k \in DOMAIN w PROVE v[k] = t.item[w[k]]
  <2>1. k \in Nat /\ 1 <= k /\ k <= N + 1 + Len(r)
    BY <1>5, <1>6
  <2>2. CASE k <= N
    <3>1. k \in 1 .. N
      BY <1>5, <2>1, <2>2
    <3> QED
      BY <1>1, <1>2, <1>3, <1>4, <3>1 DEF Joint
  <2>3. CASE k = N + 1
    BY <1>1, <1>2, <1>3, <2>3 DEF x, Joint
  <2>4. CASE k > N + 1
    <3> DEFINE m == k - (N + 1)
    <3>1. m \in 1 .. Len(r) /\ k = N + 1 + m
      BY <1>5, <2>1, <2>4
    <3> HIDE DEF m
    <3>2. v[N + 1 + m] = c[m] /\ w[N + 1 + m] = r[m] /\ c[m] = t.item[r[m]]
      BY <1>1, <1>2, <1>3, <1>4, <3>1 DEF Joint
    <3> QED
      BY <3>1, <3>2
  <2> QED
    BY <1>5, <2>1, <2>2, <2>3, <2>4
<1>8. v = ItemsAt(t, w)
  <2>1. v = [k \in DOMAIN v |-> v[k]]
    BY <1>3 DEF Joint
  <2> QED
    BY <1>6, <1>7, <2>1 DEF ItemsAt
<1> QED
  BY <1>8 DEF v, w, a, c, x

\* What is written below d is what some order says.
Written(t, rank, b, d) ==
  \E s : Order(t, rank, d, Len(t.kids[d]), s) /\ b[d] = ItemsAt(t, s)

\* So it is below d when it is below each of its items.
LEMMA WrittenAbove ==
  ASSUME NEW t, IsTree(t), OnePlace(t), NEW rank, Ranks(t, rank), NEW b, Lists(t, b),
         NEW d \in DOMAIN t.item, \A k \in DOMAIN t.kids[d] : Written(t, rank, b, t.kids[d][k])
  PROVE  Written(t, rank, b, d)
<1> DEFINE D == DOMAIN t.item \ {Root}
           L == Pieces(t, b, d)
           n == Len(t.kids[d])
<1>1. t.kids[d] \in Seq(D) /\ n \in Nat /\ DOMAIN t.kids[d] = 1 .. n
  BY TreeParts
<1>2. \A k \in 1 .. n : t.kids[d][k] \in D
  BY <1>1
<1>3. ASSUME NEW k \in 1 .. n
      PROVE  /\ L[k] = <<t.item[t.kids[d][k]]>> \o b[t.kids[d][k]] /\ L[k] \in Seq(Items)
  <2>1. PICK s : s \in Seq(D) /\ b[t.kids[d][k]] = ItemsAt(t, s)
    BY <1>1 DEF Written, Order
  <2>2. b[t.kids[d][k]] \in Seq(Items)
    BY <2>1, ItemsAtParts
  <2>3. t.item[t.kids[d][k]] \in Items
    BY <1>2, TreeParts
  <2>4. L[k] = <<t.item[t.kids[d][k]]>> \o b[t.kids[d][k]]
    BY <1>1 DEF Pieces
  <2> QED
    BY <2>2, <2>3, <2>4, ConcatProperties
<1>4. L \in Seq(Seq(Items)) /\ Len(L) = n
  <2>1. DOMAIN L = 1 .. n /\ L = [k \in 1 .. n |-> L[k]]
    BY <1>1 DEF Pieces
  <2> HIDE DEF L, n
  <2>2. L \in Seq(Seq(Items))
    <3>1. L \in [1 .. n -> Seq(Items)]
      BY <1>3, <2>1
    <3> QED
      BY <1>1, <3>1, SeqDef
  <2> QED
    BY <1>1, <2>1, <2>2
<1>5. PICK f : Steps(Items, L, f) /\ FlattenSeq(L) = f[n]
  BY <1>4, FlattenSteps
<1>6. b[d] = f[n]
  BY <1>5 DEF Lists
<1> HIDE DEF L, n
<1> DEFINE T == {i \in Nat : i <= n => \E s : /\ Order(t, rank, d, i, s)
                                             /\ f[i] = ItemsAt(t, s)}
<1>7. 0 \in T
  <2>1. Order(t, rank, d, 0, <<>>)
    BY DEF Order
  <2>2. ItemsAt(t, <<>>) = <<>>
    <3>1. <<>> \in Seq(D)
      OBVIOUS
    <3> QED
      BY <3>1, ItemsAtParts, EmptySeq
  <2>3. f[0] = ItemsAt(t, <<>>)
    BY <1>5, <2>2 DEF Steps
  <2> QED
    BY <2>1, <2>3
<1>8. ASSUME NEW i \in Nat, i \in T PROVE i + 1 \in T
  <2>1. SUFFICES ASSUME i + 1 <= n
                 PROVE  \E s : Order(t, rank, d, i + 1, s) /\ f[i + 1] = ItemsAt(t, s)
    OBVIOUS
  <2>2. i <= n /\ i + 1 \in 1 .. n /\ i + 1 - 1 = i
    BY <1>1, <2>1
  <2>3. PICK s : Order(t, rank, d, i, s) /\ f[i] = ItemsAt(t, s)
    BY <1>8, <2>2
  <2> DEFINE y == t.kids[d][i + 1]
  <2>4. PICK r : Order(t, rank, y, Len(t.kids[y]), r) /\ b[y] = ItemsAt(t, r)
    BY <1>1, <2>2 DEF Written
  <2> DEFINE w == s \o (<<y>> \o r)
  <2>5. Order(t, rank, d, i + 1, w)
    BY <1>1, <2>2, <2>3, <2>4, OrderMore
  <2>6. f[i + 1] = f[i] \o (<<t.item[y]>> \o b[y])
    <3> DEFINE k == i + 1
    <3>1. k \in 1 .. n /\ k - 1 = i
      BY <2>2
    <3> HIDE DEF k
    <3>2. f[k] = f[k - 1] \o L[k]
      BY <1>4, <1>5, <3>1 DEF Steps
    <3>3. L[k] = <<t.item[t.kids[d][k]]>> \o b[t.kids[d][k]]
      BY <1>3, <3>1
    <3> QED
      BY <3>1, <3>2, <3>3 DEF k
  <2>7. f[i + 1] = ItemsAt(t, w)
    <3>1. s \in Seq(D) /\ r \in Seq(D) /\ y \in D
      BY <1>2, <2>2, <2>3, <2>4 DEF Order
    <3> HIDE DEF y
    <3>2. ItemsAt(t, s \o (<<y>> \o r)) = ItemsAt(t, s) \o (<<t.item[y]>> \o ItemsAt(t, r))
      BY <3>1, ItemsAtBehind
    <3> QED
      BY <2>3, <2>4, <2>6, <3>2
  <2> QED
    BY <2>5, <2>7
<1> HIDE DEF T
<1>9. \A i \in Nat : i \in T
  BY <1>7, <1>8, AllNumbers
<1> QED
  BY <1>1, <1>6, <1>9 DEF T, Written, n

LEMMA ArchiveInOrder ==
  ASSUME NEW t, IsTree(t), OnePlace(t), NEW rank, Ranks(t, rank), NEW b, Lists(t, b)
  PROVE  \A d \in DOMAIN t.item : Written(t, rank, b, d)
<1> DEFINE S == {n \in Nat : \A d \in DOMAIN t.item : rank[d] = n => Written(t, rank, b, d)}
<1>1. ASSUME NEW n \in Nat, \A m \in Nat : m < n => m \in S PROVE n \in S
  <2>1. ASSUME NEW d \in DOMAIN t.item, rank[d] = n PROVE Written(t, rank, b, d)
    <3>1. t.kids[d] \in Seq(DOMAIN t.item \ {Root})
      BY TreeParts
    <3>2. \A k \in DOMAIN t.kids[d] : /\ t.kids[d][k] \in DOMAIN t.item
                                      /\ rank[t.kids[d][k]] \in Nat
                                      /\ rank[t.kids[d][k]] < n
      BY <2>1, <3>1 DEF Ranks
    <3>3. \A k \in DOMAIN t.kids[d] : Written(t, rank, b, t.kids[d][k])
      BY <1>1, <3>2
    <3> QED
      BY <3>3, WrittenAbove
  <2> QED
    BY <2>1
<1> HIDE DEF S
<1>2. \A n \in Nat : n \in S
  BY <1>1, AllLengths
<1>3. \A d \in DOMAIN t.item : rank[d] \in Nat
  BY DEF Ranks
<1> QED
  BY <1>2, <1>3 DEF S

----------------------------------------------------------------------------
(* The tree of the first entries *)

\* No item has a name that its constructor would read in another way.
AllPlain(t) == \A i \in DOMAIN t.item : Plain(t.item[i].name)

\* o is the order in which the tree t is written.
Ordered(t, o) ==
  /\ Neat(t) /\ AllPlain(t)
  /\ \E rank : Ranks(t, rank) /\ Order(t, rank, Root, Len(t.kids[Root]), o)

\* Root and the first k items.
Visited(o, k) == {Root} \cup {o[i] : i \in 1 .. k}

LEMMA OrderedParts ==
  ASSUME NoBackslash, NEW t, NEW o, Ordered(t, o)
  PROVE  /\ o \in Seq(DOMAIN t.item \ {Root}) /\ Len(o) \in Nat
         /\ IsTree(t) /\ Named(t) /\ Tidy(t)
         /\ \A k \in DOMAIN o : InTurn(t, Root, Len(t.kids[Root]), o, k)
         /\ \A j, k \in DOMAIN o : o[j] = o[k] => j = k
BY DEF Ordered, Order, Neat, Sound

LEMMA VisitedParts ==
  ASSUME NoBackslash, NEW t, NEW o, Ordered(t, o), NEW k \in 0 .. Len(o)
  PROVE  /\ Visited(o, k) \subseteq DOMAIN t.item /\ Root \in Visited(o, k)
         /\ \A i : i \in Visited(o, k) /\ i # Root => \E m \in 1 .. k : o[m] = i
         /\ \A m \in 1 .. k : o[m] \in Visited(o, k) /\ o[m] # Root
         /\ k < Len(o) => /\ o[k + 1] \in DOMAIN t.item \ {Root}
                          /\ o[k + 1] \notin Visited(o, k)
                          /\ Visited(o, k + 1) = Visited(o, k) \cup {o[k + 1]}
<1>1. /\ o \in Seq(DOMAIN t.item \ {Root}) /\ Len(o) \in Nat /\ Root \in DOMAIN t.item
      /\ \A j, m \in DOMAIN o : o[j] = o[m] => j = m
  BY OrderedParts, TreeParts
<1>2. DOMAIN o = 1 .. Len(o) /\ \A m \in 1 .. Len(o) : o[m] \in DOMAIN t.item \ {Root}
  BY <1>1
<1>3. k \in Nat /\ k <= Len(o) /\ \A m \in 1 .. k : m \in 1 .. Len(o)
  BY <1>1
<1>4. \A m \in 1 .. k : o[m] \in Visited(o, k) /\ o[m] # Root
  BY <1>2, <1>3 DEF Visited
<1>5. ASSUME k < Len(o)
      PROVE  /\ o[k + 1] \in DOMAIN t.item \ {Root}
             /\ o[k + 1] \notin Visited(o, k)
             /\ Visited(o, k + 1) = Visited(o, k) \cup {o[k + 1]}
  <2>1. k + 1 \in 1 .. Len(o) /\ \A m \in 1 .. k : m # k + 1
    BY <1>1, <1>3, <1>5
  <2>2. o[k + 1] \in DOMAIN t.item \ {Root}
    BY <1>2, <2>1
  <2>3. \A m \in 1 .. k : o[m] # o[k + 1]
    BY <1>1, <1>2, <1>3, <2>1
  <2>4. \A m : m \in 1 .. k + 1 <=> m \in 1 .. k \/ m = k + 1
    BY <1>3
  <2> QED
    BY <2>2, <2>3, <2>4 DEF Visited
<1> QED
  BY <1>1, <1>2, <1>3, <1>4, <1>5 DEF Visited

\* Each item has been preceded by its directory and what is listed before it.
LEMMA PlaceOfVisited ==
  ASSUME NoBackslash, NEW t, NEW o, Ordered(t, o), NEW k \in 1 .. Len(o)
  PROVE  \E d \in DOMAIN t.item : \E j \in DOMAIN t.kids[d] :
           /\ t.kids[d][j] = o[k] /\ d \in Visited(o, k - 1)
           /\ \A l \in 1 .. j - 1 : t.kids[d][l] \in Visited(o, k - 1)
<1>1. o \in Seq(DOMAIN t.item \ {Root}) /\ Len(o) \in Nat /\ InTurn(t, Root, Len(t.kids[Root]), o, k)
  <2>1. o \in Seq(DOMAIN t.item \ {Root}) /\ Len(o) \in Nat
    BY OrderedParts
  <2>2. k \in DOMAIN o
    BY <2>1
  <2> QED
    BY <2>1, <2>2, OrderedParts
<1>2. ASSUME NEW i, Before(o, k, i) PROVE i \in Visited(o, k - 1)
  <2>1. PICK m \in DOMAIN o : m < k /\ o[m] = i
    BY <1>2 DEF Before
  <2>2. m \in 1 .. k - 1
    BY <1>1, <2>1
  <2> QED
    BY <2>1, <2>2 DEF Visited
<1>3. Root \in Visited(o, k - 1)
  BY DEF Visited
<1> QED
  BY <1>1, <1>2, <1>3 DEF InTurn

\* So what was visited is closed under the directories,
LEMMA HomeVisited ==
  ASSUME NoBackslash, NEW t, NEW o, Ordered(t, o), NEW k \in 0 .. Len(o),
         NEW d \in DOMAIN t.item, NEW j \in DOMAIN t.kids[d], t.kids[d][j] \in Visited(o, k)
  PROVE  d \in Visited(o, k) /\ \A l \in 1 .. j - 1 : t.kids[d][l] \in Visited(o, k)
<1>1. /\ o \in Seq(DOMAIN t.item \ {Root}) /\ Len(o) \in Nat /\ IsTree(t)
      /\ \A c, e \in DOMAIN t.item : \A m \in DOMAIN t.kids[c], n \in DOMAIN t.kids[e] :
           t.kids[c][m] = t.kids[e][n] => c = e /\ m = n
  BY OrderedParts DEF Tidy, OnePlace
<1>2. t.kids[d][j] # Root
  <2>1. t.kids[d] \in Seq(DOMAIN t.item \ {Root})
    BY <1>1, TreeParts
  <2> QED
    BY <2>1
<1>3. PICK m \in 1 .. k : o[m] = t.kids[d][j]
  BY <1>2, VisitedParts
<1>4. m \in 1 .. Len(o) /\ \A i : i \in Visited(o, m - 1) => i \in Visited(o, k)
  <2>1. m \in 1 .. Len(o) /\ \A i \in 1 .. m - 1 : i \in 1 .. k
    BY <1>1
  <2> QED
    BY <2>1 DEF Visited
<1>5. PICK c \in DOMAIN t.item : \E n \in DOMAIN t.kids[c] :
           /\ t.kids[c][n] = o[m] /\ c \in Visited(o, m - 1)
           /\ \A l \in 1 .. n - 1 : t.kids[c][l] \in Visited(o, m - 1)
  BY <1>4, PlaceOfVisited
<1>6. PICK n \in DOMAIN t.kids[c] :
           /\ t.kids[c][n] = o[m] /\ c \in Visited(o, m - 1)
           /\ \A l \in 1 .. n - 1 : t.kids[c][l] \in Visited(o, m - 1)
  BY <1>5
<1>7. c = d /\ n = j
  BY <1>1, <1>3, <1>6
<1> QED
  BY <1>4, <1>6, <1>7

\* and the next item comes right behind those of its directory that were visited.
LEMMA NextPlace ==
  ASSUME NoBackslash, NEW t, NEW o, Ordered(t, o), NEW k \in 0 .. Len(o), k < Len(o)
  PROVE  \E d \in DOMAIN t.item : \E j \in DOMAIN t.kids[d] :
           /\ t.kids[d][j] = o[k + 1] /\ d \in Visited(o, k)
           /\ \A l \in DOMAIN t.kids[d] : t.kids[d][l] \in Visited(o, k) <=> l < j
<1>1. o \in Seq(DOMAIN t.item \ {Root}) /\ Len(o) \in Nat /\ IsTree(t)
  BY OrderedParts
<1>2. k + 1 \in 1 .. Len(o) /\ k + 1 - 1 = k
  BY <1>1
<1>3. PICK d \in DOMAIN t.item : \E j \in DOMAIN t.kids[d] :
           /\ t.kids[d][j] = o[k + 1] /\ d \in Visited(o, k)
           /\ \A l \in 1 .. j - 1 : t.kids[d][l] \in Visited(o, k)
  <2> DEFINE n == k + 1
  <2>1. n \in 1 .. Len(o) /\ n - 1 = k
    BY <1>2
  <2> HIDE DEF n
  <2>2. \E d \in DOMAIN t.item : \E j \in DOMAIN t.kids[d] :
           /\ t.kids[d][j] = o[n] /\ d \in Visited(o, n - 1)
           /\ \A l \in 1 .. j - 1 : t.kids[d][l] \in Visited(o, n - 1)
    BY <2>1, PlaceOfVisited
  <2> QED
    BY <2>1, <2>2 DEF n
<1>4. PICK j \in DOMAIN t.kids[d] :
           /\ t.kids[d][j] = o[k + 1] /\ d \in Visited(o, k)
           /\ \A l \in 1 .. j - 1 : t.kids[d][l] \in Visited(o, k)
  BY <1>3
<1>5. t.kids[d] \in Seq(DOMAIN t.item \ {Root})
  BY <1>1, TreeParts
<1>6. DOMAIN t.kids[d] = 1 .. Len(t.kids[d]) /\ Len(t.kids[d]) \in Nat
  BY <1>5
<1>7. o[k + 1] \notin Visited(o, k)
  BY VisitedParts
<1>8. ASSUME NEW l \in DOMAIN t.kids[d], t.kids[d][l] \in Visited(o, k) PROVE l < j
  <2>1. \A n \in 1 .. l - 1 : t.kids[d][n] \in Visited(o, k)
    BY <1>8, HomeVisited
  <2>2. l # j
    BY <1>4, <1>7, <1>8
  <2>3. j \notin 1 .. l - 1
    BY <1>4, <1>7, <2>1
  <2> QED
    BY <1>6, <2>2, <2>3
<1>9. ASSUME NEW l \in DOMAIN t.kids[d], l < j PROVE t.kids[d][l] \in Visited(o, k)
  <2>1. l \in 1 .. j - 1
    BY <1>6, <1>9
  <2> QED
    BY <1>4, <2>1
<1> QED
  BY <1>4, <1>8, <1>9

----------------------------------------------------------------------------
(* What the reader has made of the first entries is a copy of what was visited *)

\* V has, with an item, its directory and what is listed before it.
Closed(t, V) ==
  /\ Root \in V /\ V \subseteq DOMAIN t.item
  /\ \A d \in DOMAIN t.item : \A j \in DOMAIN t.kids[d] :
       t.kids[d][j] \in V => d \in V /\ \A l \in 1 .. j - 1 : t.kids[d][l] \in V

\* u is the part V of t, and g says which object of u stands for which of t.
Copy(t, V, u, g) ==
  /\ g[Root] = Root
  /\ DOMAIN u.item = {g[i] : i \in V}
  /\ \A i, j \in V : g[i] = g[j] => i = j
  /\ \A i \in V \ {Root} : u.item[g[i]] = t.item[i]
  /\ \A d \in V :
       /\ \A j \in DOMAIN t.kids[d] : t.kids[d][j] \in V => j \in DOMAIN u.kids[g[d]]
       /\ \A j \in DOMAIN u.kids[g[d]] : /\ j \in DOMAIN t.kids[d]
                                         /\ t.kids[d][j] \in V
                                         /\ u.kids[g[d]][j] = g[t.kids[d][j]]

LEMMA VisitedClosed ==
  ASSUME NoBackslash, NEW t, NEW o, Ordered(t, o), NEW k \in 0 .. Len(o)
  PROVE  Closed(t, Visited(o, k))
<1>1. Visited(o, k) \subseteq DOMAIN t.item /\ Root \in Visited(o, k)
  BY VisitedParts
<1>2. ASSUME NEW d \in DOMAIN t.item, NEW j \in DOMAIN t.kids[d], t.kids[d][j] \in Visited(o, k)
      PROVE  d \in Visited(o, k) /\ \A l \in 1 .. j - 1 : t.kids[d][l] \in Visited(o, k)
  BY <1>2, HomeVisited
<1> QED
  BY <1>1, <1>2 DEF Closed

\* What the search of a directory finds in V it finds in the copy.
LEMMA ChildInCopy ==
  ASSUME NEW t, IsTree(t), NEW V, Closed(t, V), NEW u, IsTree(u), NEW g, Copy(t, V, u, g),
         NEW d, NEW n, Child(t, d, n) \in V
  PROVE  d \in V /\ Child(u, g[d], n) = g[Child(t, d, n)]
<1> DEFINE i == Child(t, d, n)
<1>1. i \in DOMAIN t.item /\ i # Throw
  <2>1. i \in DOMAIN t.item
    BY DEF Closed
  <2> QED
    BY <2>1, TreeParts
<1>2. PICK k \in Nat : IsFirst(t, d, k) /\ t.kids[d][k] = i /\ t.item[t.kids[d][k]].name = n
  BY <1>1, ChildIsFirst
<1> HIDE DEF i
<1>3. d \in DOMAIN t.item /\ k \in DOMAIN t.kids[d] /\ i \in V
  BY <1>2 DEF IsFirst, i
<1>4. d \in V
  BY <1>2, <1>3 DEF Closed
<1>5. t.kids[d] \in Seq(DOMAIN t.item \ {Root})
  BY <1>3, TreeParts
<1>6. ASSUME NEW j \in DOMAIN u.kids[g[d]]
      PROVE  /\ j \in DOMAIN t.kids[d]
             /\ u.item[u.kids[g[d]][j]] = t.item[t.kids[d][j]]
  <2>1. /\ j \in DOMAIN t.kids[d] /\ t.kids[d][j] \in V
        /\ u.kids[g[d]][j] = g[t.kids[d][j]]
    BY <1>4 DEF Copy
  <2>2. t.kids[d][j] # Root
    BY <1>5, <2>1
  <2> QED
    BY <2>1, <2>2 DEF Copy
<1>7. k \in DOMAIN u.kids[g[d]] /\ u.kids[g[d]][k] = g[i] /\ g[d] \in DOMAIN u.item
  BY <1>2, <1>3, <1>4 DEF Copy
<1>8. IsFirst(u, g[d], k)
  BY <1>2, <1>6, <1>7 DEF IsFirst
<1>9. u.item[u.kids[g[d]][k]].name = n
  BY <1>2, <1>6, <1>7
<1>10. Child(u, g[d], n) = g[i]
  BY <1>7, <1>8, <1>9, FirstIsChild
<1> QED
  BY <1>4, <1>10 DEF i

\* So does a lookup.
LEMMA FoundInCopy ==
  ASSUME NoBackslash, NEW t, Neat(t), NEW V, Closed(t, V), NEW u, IsTree(u),
         NEW g, Copy(t, V, u, g)
  PROVE  \A q : Proper(q) /\ GetElement(t, q) \in V => GetElement(u, q) = g[GetElement(t, q)]
<1> DEFINE S == {n \in Nat : \A q : Proper(q) /\ Len(q) = n /\ GetElement(t, q) \in V =>
                                  GetElement(u, q) = g[GetElement(t, q)]}
<1>0. IsTree(t) /\ ProperNames(t) /\ V \subseteq DOMAIN t.item
  BY DEF Neat, Sound, Tidy, Closed
<1>1. ASSUME NEW n \in Nat, \A m \in Nat : m < n => m \in S
      PROVE  n \in S
  <2>1. ASSUME NEW q, Proper(q), Len(q) = n, GetElement(t, q) \in V
        PROVE  GetElement(u, q) = g[GetElement(t, q)]
    <3> DEFINE b == Base(t, q)
    <3>1. /\ q \in Names /\ GetElement(t, q) = Child(t, b, q)
          /\ GetElement(u, q) = Child(u, Base(u, q), q)
      BY <2>1, ProperLookup DEF Proper
    <3>2. b \in V /\ Child(u, g[b], q) = g[Child(t, b, q)]
      BY <1>0, <2>1, <3>1, ChildInCopy
    <3> HIDE DEF b
    <3>3. Base(u, q) = g[b]
      <4>1. CASE Len(q) = 1
        BY <3>1, <4>1, BaseOfOne DEF b, Copy
      <4>2. CASE Len(q) > 1
        <5> DEFINE r == ParentPath(q)
        <5>1. b # Throw
          BY <1>0, <3>2, TreeParts
        <5>2. Proper(r) /\ b = GetElement(t, r) /\ IsDir(t, b) /\ b # Root
          BY <1>0, <2>1, <4>2, <5>1, ThroughParent DEF b
        <5>3. Len(r) = n - 1 /\ n - 1 \in Nat /\ n - 1 < n
          BY <2>1, <3>1, <4>2, ParentComponents
        <5>4. GetElement(u, r) = g[b]
          <6>1. n - 1 \in S
            BY <1>1, <5>3
          <6> QED
            BY <3>2, <5>2, <5>3, <6>1
        <5>5. IsDir(u, g[b])
          BY <3>2, <5>2 DEF IsDir, Copy
        <5>6. g[b] # Throw
          <6>1. g[b] \in DOMAIN u.item
            BY <3>2 DEF Copy
          <6> QED
            BY <6>1, TreeParts
        <5> QED
          BY <3>1, <4>2, <5>2, <5>4, <5>5, <5>6, ThroughDirectory
      <4> QED
        BY <3>1, <4>1, <4>2, PathParts, OneOrMore
    <3> QED
      BY <3>1, <3>2, <3>3
  <2> QED
    BY <2>1
<1> HIDE DEF S
<1>2. \A n \in Nat : n \in S
  BY <1>1, AllLengths
<1>3. \A q : Proper(q) => Len(q) \in S
  BY <1>2, PathParts DEF Proper
<1> QED
  BY <1>3 DEF S

\* The parent of an entry is looked up and found where its directory stands.
LEMMA ParentInCopy ==
  ASSUME NoBackslash, NEW t, Neat(t), NEW V, Closed(t, V), NEW u, IsTree(u),
         NEW g, Copy(t, V, u, g),
         NEW d \in V, NEW j \in DOMAIN t.kids[d]
  PROVE  /\ GetParentDirectory(u, t.item[t.kids[d][j]].name) = g[d]
         /\ g[d] \in DOMAIN u.item /\ g[d] \notin {Throw, Null}
<1> DEFINE n == t.item[t.kids[d][j]].name
<1>1. IsTree(t) /\ Named(t) /\ Tidy(t) /\ d \in DOMAIN t.item
  BY DEF Neat, Sound, Closed
<1>2. t.kids[d] \in Seq(DOMAIN t.item \ {Root})
  BY <1>1, TreeParts
<1>3. t.kids[d][j] \in DOMAIN t.item \ {Root}
  BY <1>2
<1>4. Proper(n) /\ n \in Names
  BY <1>1, <1>3 DEF Tidy, ProperNames, Proper
<1>5. NamedByPlace(t, d, n)
  BY <1>1 DEF Named
<1> HIDE DEF n
<1>6. g[d] \in DOMAIN u.item /\ g[d] \notin {Throw, Null}
  <2>1. g[d] \in DOMAIN u.item
    BY DEF Copy
  <2> QED
    BY <2>1, TreeParts
<1>7. n # Dot /\ n # Empty
  BY <1>4, ProperLookup DEF Proper
<1>8. CASE d = Root
  <2>1. ParentPath(n) = Dot
    <3>1. CASE Len(n) = 1
      BY <3>1 DEF ParentPath
    <3>2. CASE Len(n) = 2 /\ n[1] = DotName
      <4>1. /\ ParentPath(n) \in Seq(Components) /\ Len(ParentPath(n)) = 1
            /\ ParentPath(n)[1] = n[1]
        <5>1. Len(n) > 1 /\ Len(n) - 1 = 1 /\ 1 \in 1 .. Len(n) - 1
          BY <3>2
        <5> QED
          BY <1>4, <5>1, ParentComponents
      <4>2. Dot \in Seq(Components) /\ Len(Dot) = 1 /\ Dot[1] = DotName
        BY DotParts, PathParts
      <4> QED
        BY <3>2, <4>1, <4>2, SeqEqual
    <3> QED
      BY <1>5, <1>8, <3>1, <3>2 DEF NamedByPlace
  <2>2. GetElement(u, Dot) = Root /\ IsDir(u, Root) /\ g[d] = Root
    BY <1>8, TreeParts DEF GetElement, IsDir, Copy
  <2> QED
    BY <1>6, <1>7, <2>1, <2>2 DEF GetParentDirectory, n
<1>9. CASE d # Root
  <2> DEFINE m == t.item[d].name
  <2>1. Proper(m) /\ m \in Names
    BY <1>1, <1>9 DEF Tidy, ProperNames, Proper
  <2>2. n = Append(m, n[Len(n)])
    BY <1>5, <1>9 DEF NamedByPlace
  <2>3. Len(n) > 1 /\ ParentPath(n) = m
    BY <1>4, <2>1, <2>2, ParentOfAppend
  <2>4. t.kids[d] # <<>>
    BY EmptySeq
  <2>5. GetElement(t, m) = d /\ IsDir(t, d)
    BY <1>1, <1>9, <2>4 DEF Tidy, HiddenEmpty, OnlyDirsList
  <2>6. GetElement(u, m) = g[d]
    BY <2>1, <2>5, FoundInCopy
  <2>7. IsDir(u, g[d])
    BY <1>9, <2>5 DEF IsDir, Copy
  <2> QED
    BY <1>6, <1>7, <2>3, <2>6, <2>7 DEF GetParentDirectory, n
<1> QED
  BY <1>6, <1>8, <1>9 DEF n

\* There is an object left for an item that was not visited.
LEMMA RoomForCopy ==
  ASSUME NEW t, IsTree(t), NEW V, V \subseteq DOMAIN t.item, IsFiniteSet(V),
         NEW y \in DOMAIN t.item \ V, NEW u, IsTree(u), NEW g, Copy(t, V, u, g)
  PROVE  HasRoom(u)
<1> SUFFICES ASSUME ~HasRoom(u) PROVE FALSE
  OBVIOUS
<1> DEFINE D == DOMAIN u.item
           h == [i \in V |-> g[i]]
<1>1. V \cup {y} \subseteq D
  <2>1. Ids \cup {Root} \subseteq D
    BY TreeParts DEF HasRoom
  <2>2. V \cup {y} \subseteq Ids \cup {Root}
    BY TreeParts
  <2> QED
    BY <2>1, <2>2
<1>2. h \in Surjection(V, D)
  BY DEF Copy, Surjection
<1> HIDE DEF D, h
<1>3. IsFiniteSet(D) /\ Cardinality(D) <= Cardinality(V)
  BY <1>2, FS_Surjection
<1>4. IsFiniteSet(V \cup {y}) /\ Cardinality(V \cup {y}) = Cardinality(V) + 1
  BY FS_AddElement
<1>5. Cardinality(V \cup {y}) <= Cardinality(D)
  BY <1>1, <1>3, FS_Subset
<1>6. Cardinality(V) \in Nat /\ Cardinality(D) \in Nat
  BY <1>3, FS_CardinalityType
<1> QED
  BY <1>3, <1>4, <1>5, <1>6

\* The positions of a list whose positions are those before j.
LEMMA LengthBefore ==
  ASSUME NEW L \in Nat, NEW j \in Nat, j > 0, \A l \in Nat : l \in 1 .. L <=> l \in 1 .. j - 1
  PROVE  L + 1 = j
<1>1. L > 0 => L \in 1 .. j - 1
  <2>1. L > 0 => L \in 1 .. L
    OBVIOUS
  <2> QED
    BY <2>1
<1>2. j - 1 > 0 => j - 1 \in 1 .. L
  <2>1. j - 1 > 0 => j - 1 \in 1 .. j - 1 /\ j - 1 \in Nat
    OBVIOUS
  <2> QED
    BY <2>1
<1> QED
  BY <1>1, <1>2

\* The next item, added to what stands for its directory, is copied too.
LEMMA CopyMore ==
  ASSUME NoBackslash, NEW t, Neat(t), NEW V, Closed(t, V), NEW u, IsTree(u), HasRoom(u),
         NEW g, Copy(t, V, u, g), NEW d \in V, NEW j \in DOMAIN t.kids[d],
         \A l \in DOMAIN t.kids[d] : t.kids[d][l] \in V <=> l < j,
         NEW y, y = t.kids[d][j], Plain(t.item[y].name)
  PROVE  \E h : Copy(t, V \cup {y}, AddItem(u, g[d], t.item[y]), h)
<1> DEFINE n == Fresh(u)
           w == AddItem(u, g[d], t.item[y])
           h == [i \in V \cup {y} |-> IF i = y THEN n ELSE g[i]]
           W == V \cup {y}
<1>1. /\ IsTree(t) /\ Tidy(t) /\ Root \in V /\ V \subseteq DOMAIN t.item
      /\ \A c, e \in DOMAIN t.item : \A m \in DOMAIN t.kids[c], l \in DOMAIN t.kids[e] :
           t.kids[c][m] = t.kids[e][l] => c = e /\ m = l
  BY DEF Neat, Sound, Tidy, OnePlace, Closed
<1>2. \A c \in V : t.kids[c] \in Seq(DOMAIN t.item \ {Root})
  BY <1>1, TreeParts
<1>3. /\ y \in DOMAIN t.item \ {Root} /\ y \notin V
      /\ DOMAIN t.kids[d] = 1 .. Len(t.kids[d]) /\ j \in Nat /\ j > 0 /\ ~(j < j)
  BY <1>2
<1>4. t.item[y] \in Items /\ Strip(t.item[y].name) = t.item[y].name
  BY <1>1, <1>3, TreeParts, ProperLookup DEF Tidy, ProperNames
<1>5. g[d] \in DOMAIN u.item /\ \A i \in V : g[i] \in DOMAIN u.item
  BY DEF Copy
<1>6. /\ n \notin DOMAIN u.item /\ DOMAIN w.item = DOMAIN u.item \cup {n}
      /\ w.kids[n] = <<>> /\ w.kids[g[d]] = Append(u.kids[g[d]], n)
      /\ \A i \in DOMAIN u.item : w.item[i] = u.item[i]
      /\ \A i \in DOMAIN u.item \ {g[d]} : w.kids[i] = u.kids[i]
  <2> DEFINE b == g[d]
             x == t.item[y]
  <2>1. b \in DOMAIN u.item /\ x \in Items
    BY <1>4, <1>5
  <2> HIDE DEF b, x
  <2>2. /\ Fresh(u) \notin DOMAIN u.item
        /\ DOMAIN AddItem(u, b, x).item = DOMAIN u.item \cup {Fresh(u)}
        /\ AddItem(u, b, x).kids[Fresh(u)] = <<>>
        /\ AddItem(u, b, x).kids[b] = Append(u.kids[b], Fresh(u))
        /\ \A i \in DOMAIN u.item : AddItem(u, b, x).item[i] = u.item[i]
        /\ \A i \in DOMAIN u.item \ {b} : AddItem(u, b, x).kids[i] = u.kids[i]
    BY <2>1, AddItemParts
  <2> QED
    BY <2>2 DEF b, x
<1>7. w.item[n] = t.item[y]
  <2>1. w.item[n] = [t.item[y] EXCEPT !.name = Strip(@)]
    <3>1. w.item[n] = [t.item[y] EXCEPT !.name = PreprocessFilename(@)]
      BY DEF AddItem, Fresh
    <3> QED
      BY <3>1, PlainNames
  <2> DEFINE x == t.item[y]
  <2>2. x \in Items /\ Strip(x.name) = x.name
    BY <1>4
  <2>3. w.item[n] = [x EXCEPT !.name = Strip(@)]
    BY <2>1
  <2> HIDE DEF x, n, w
  <2>4. [x EXCEPT !.name = x.name] = x
    BY <2>2 DEF Items
  <2>5. [x EXCEPT !.name = Strip(@)] = [x EXCEPT !.name = x.name]
    BY <2>2
  <2>6. w.item[n] = x
    BY <2>3, <2>4, <2>5
  <2> QED
    BY <2>6 DEF x
<1>8. u.kids[g[d]] \in Seq(DOMAIN u.item \ {Root})
  BY <1>5, TreeParts
<1>9. \A i \in V : h[i] = g[i]
  BY <1>3
<1>10. h[y] = n
  OBVIOUS
<1> HIDE DEF n, w, h
<1>11. h[Root] = Root /\ DOMAIN w.item = {h[i] : i \in W}
  <2>1. h[Root] = Root
    BY <1>1, <1>9 DEF Copy
  <2>2. DOMAIN u.item = {h[i] : i \in V}
    BY <1>9 DEF Copy
  <2> QED
    BY <1>6, <1>10, <2>1, <2>2
<1>12. \A i, k \in W : h[i] = h[k] => i = k
  BY <1>5, <1>6, <1>9, <1>10 DEF Copy
<1>13. \A i \in W \ {Root} : w.item[h[i]] = t.item[i]
  BY <1>5, <1>6, <1>7, <1>9, <1>10 DEF Copy
<1> DEFINE Kids(c) ==
       /\ \A l \in DOMAIN t.kids[c] : t.kids[c][l] \in W => l \in DOMAIN w.kids[h[c]]
       /\ \A l \in DOMAIN w.kids[h[c]] : /\ l \in DOMAIN t.kids[c]
                                         /\ t.kids[c][l] \in W
                                         /\ w.kids[h[c]][l] = h[t.kids[c][l]]
<1>14. Kids(y)
  <2>1. DOMAIN w.kids[h[y]] = {}
    BY <1>6, <1>10, EmptySeq
  <2>2. ASSUME NEW l \in DOMAIN t.kids[y], t.kids[y][l] \in W PROVE FALSE
    <3>1. CASE t.kids[y][l] \in V
      BY <1>3, <3>1 DEF Closed
    <3>2. CASE t.kids[y][l] = y
      BY <1>1, <1>3, <3>2
    <3> QED
      BY <2>2, <3>1, <3>2
  <2> QED
    BY <2>1, <2>2
<1>15. ASSUME NEW c \in V, c # d PROVE Kids(c)
  <2>1. h[c] = g[c] /\ w.kids[g[c]] = u.kids[g[c]]
    BY <1>5, <1>6, <1>9, <1>15 DEF Copy
  <2>2. \A l \in DOMAIN t.kids[c] : t.kids[c][l] # y
    BY <1>1, <1>15
  <2> QED
    BY <1>9, <2>1, <2>2 DEF Copy
<1>16. Kids(d)
  <2> DEFINE L == Len(u.kids[g[d]])
  <2>1. DOMAIN u.kids[g[d]] = 1 .. L /\ L \in Nat
    BY <1>8
  <2>2. \A l \in Nat : l \in 1 .. L <=> l \in 1 .. j - 1
    <3>1. \A l : l \in DOMAIN u.kids[g[d]] <=> l \in DOMAIN t.kids[d] /\ t.kids[d][l] \in V
      BY DEF Copy
    <3> QED
      BY <1>3, <2>1, <3>1
  <2>3. L + 1 = j
    BY <1>3, <2>1, <2>2, LengthBefore
  <2>4. \A l : l \in DOMAIN w.kids[g[d]] <=> l \in DOMAIN u.kids[g[d]] \/ l = j
    BY <1>6, <1>8, <2>1, <2>3
  <2>5. /\ w.kids[g[d]][j] = n
        /\ \A l \in DOMAIN u.kids[g[d]] : w.kids[g[d]][l] = u.kids[g[d]][l]
    <3>1. /\ u.kids[g[d]] \in Seq(DOMAIN u.item \cup {n}) /\ n \in DOMAIN u.item \cup {n}
      <4>1. DOMAIN u.item \ {Root} \subseteq DOMAIN u.item \cup {n}
        OBVIOUS
      <4> QED
        BY <1>8, <4>1, SeqMonotonic
    <3> QED
      BY <1>6, <2>1, <2>3, <3>1, AppendProperties
  <2> HIDE DEF L
  <2>6. h[d] = g[d] /\ \A l \in DOMAIN t.kids[d] : t.kids[d][l] = y <=> l = j
    BY <1>1, <1>9
  <2>7. \A l \in DOMAIN t.kids[d] : t.kids[d][l] \in W => l \in DOMAIN w.kids[h[d]]
    BY <2>4, <2>6 DEF Copy
  <2>8. ASSUME NEW l \in DOMAIN w.kids[h[d]]
        PROVE  /\ l \in DOMAIN t.kids[d]
               /\ t.kids[d][l] \in W
               /\ w.kids[h[d]][l] = h[t.kids[d][l]]
    <3>1. CASE l = j
      BY <1>10, <2>5, <2>6, <3>1
    <3>2. CASE l \in DOMAIN u.kids[g[d]]
      <4>1. /\ l \in DOMAIN t.kids[d] /\ t.kids[d][l] \in V
            /\ u.kids[g[d]][l] = g[t.kids[d][l]]
        BY <3>2 DEF Copy
      <4> QED
        BY <1>9, <2>5, <2>6, <3>2, <4>1
    <3> QED
      BY <2>4, <2>6, <2>8, <3>1, <3>2
  <2> QED
    BY <2>7, <2>8
<1> HIDE DEF Kids
<1>17. \A c \in W : Kids(c)
  BY <1>14, <1>15, <1>16
<1>18. Copy(t, W, w, h)
  BY <1>11, <1>12, <1>13, <1>17 DEF Copy, Kids
<1> QED
  BY <1>18 DEF w

----------------------------------------------------------------------------
(* Reading the archive *)

LEMMA VisitedFinite ==
  ASSUME NEW o, NEW k \in Nat
  PROVE  IsFiniteSet(Visited(o, k))
<1> DEFINE h == [i \in 0 .. k |-> IF i = 0 THEN Root ELSE o[i]]
<1>1. \A i : i \in 0 .. k <=> i = 0 \/ i \in 1 .. k
  OBVIOUS
<1>2. \A i \in 1 .. k : i # 0
  OBVIOUS
<1>3. h \in Surjection(0 .. k, Visited(o, k))
  BY <1>1, <1>2 DEF Surjection, Visited
<1>4. IsFiniteSet(0 .. k)
  BY FS_Interval
<1> QED
  BY <1>3, <1>4, FS_Surjection

\* The copy after the first k entries.
CopiedUpTo(t, o, a, k) == /\ Neat(UpTo(a, k))
                          /\ \E g : Copy(t, Visited(o, k), UpTo(a, k), g)

LEMMA NothingCopied ==
  ASSUME NoBackslash, NEW t, NEW o, Ordered(t, o), NEW a, UpTo(a, 0) = EmptyTree(NewRoot)
  PROVE  CopiedUpTo(t, o, a, 0)
<1> DEFINE u == EmptyTree(NewRoot)
           g == [i \in {Root} |-> Root]
<1>1. Visited(o, 0) = {Root}
  <2>1. 1 .. 0 = {}
    OBVIOUS
  <2> QED
    BY <2>1 DEF Visited
<1>2. DOMAIN u.item = {Root} /\ u.kids[Root] = <<>>
  BY DEF EmptyTree
<1>3. DOMAIN u.kids[Root] = {}
  BY <1>2, EmptySeq
<1>4. t.kids[Root] \in Seq(DOMAIN t.item \ {Root})
  BY OrderedParts, TreeParts
<1>5. \A l \in DOMAIN t.kids[Root] : t.kids[Root][l] # Root
  BY <1>4
<1>6. g[Root] = Root
  OBVIOUS
<1> HIDE DEF u, g
<1>7. Copy(t, {Root}, u, g)
  BY <1>2, <1>3, <1>5, <1>6 DEF Copy
<1>8. Neat(u)
  BY NewRootNeat DEF u
<1> QED
  BY <1>1, <1>7, <1>8 DEF CopiedUpTo, u

\* The next entry is read, and is copied.
LEMMA ReadingCopies ==
  ASSUME NoBackslash, NEW t, NEW o, Ordered(t, o), NEW k \in 0 .. Len(o), k < Len(o),
         NEW u, Neat(u), NEW g, Copy(t, Visited(o, k), u, g)
  PROVE  /\ Readable(u, t.item[o[k + 1]])
         /\ Neat(ReadOne(u, t.item[o[k + 1]]))
         /\ \E h : Copy(t, Visited(o, k + 1), ReadOne(u, t.item[o[k + 1]]), h)
<1> DEFINE V == Visited(o, k)
           y == o[k + 1]
           x == t.item[y]
<1>1. /\ Neat(t) /\ IsTree(t) /\ Tidy(t) /\ IsTree(u) /\ k \in Nat
  BY OrderedParts DEF Ordered, Neat, Sound
<1>2. Closed(t, V)
  BY VisitedClosed
<1>3. /\ y \in DOMAIN t.item \ {Root} /\ y \notin V /\ Visited(o, k + 1) = V \cup {y}
      /\ V \subseteq DOMAIN t.item
  BY VisitedParts
<1>4. PICK d \in DOMAIN t.item : \E j \in DOMAIN t.kids[d] :
        /\ t.kids[d][j] = y /\ d \in V
        /\ \A l \in DOMAIN t.kids[d] : t.kids[d][l] \in V <=> l < j
  BY NextPlace
<1>5. PICK j \in DOMAIN t.kids[d] :
        /\ t.kids[d][j] = y /\ d \in V
        /\ \A l \in DOMAIN t.kids[d] : t.kids[d][l] \in V <=> l < j
  BY <1>4
<1>6. IsFiniteSet(V)
  BY <1>1, VisitedFinite
<1> HIDE DEF V, y
<1>7. Copy(t, V, u, g)
  BY DEF V
<1>8. /\ GetParentDirectory(u, x.name) = g[d]
      /\ g[d] \in DOMAIN u.item /\ g[d] \notin {Throw, Null}
  BY <1>1, <1>2, <1>5, <1>7, ParentInCopy
<1>9. HasRoom(u)
  BY <1>1, <1>3, <1>6, <1>7, RoomForCopy
<1>10. \E h : Copy(t, V \cup {y}, AddItem(u, g[d], x), h)
  <2>1. Plain(t.item[y].name)
    BY <1>3 DEF Ordered, AllPlain
  <2> QED
    BY <1>1, <1>2, <1>5, <1>7, <1>9, <2>1, CopyMore
<1>11. x \in Items /\ Proper(x.name)
  BY <1>1, <1>3, TreeParts DEF Tidy, ProperNames
<1>12. x.name \in Names /\ x.name # Dot /\ x.kind \in Kinds /\ Plain(x.name)
  BY <1>3, <1>11 DEF Items, Proper, Ordered, AllPlain
<1> HIDE DEF x
<1>13. Readable(u, x) /\ ReadOne(u, x) = AddItem(u, g[d], x)
  BY <1>8, <1>12 DEF Readable, ReadOne
<1>14. Neat(AddItem(u, g[d], x))
  BY <1>8, <1>9, <1>11, <1>12, AddItemNeat
<1> QED
  BY <1>3, <1>10, <1>13, <1>14 DEF x, y, V

\* So all of them are read, and the tree they make is a copy of the whole.
LEMMA ArchiveIsCopied ==
  ASSUME NoBackslash, NEW t, NEW o, Ordered(t, o), NEW a, a = ItemsAt(t, o)
  PROVE  /\ \A k \in 1 .. Len(o) : Readable(UpTo(a, k - 1), a[k])
         /\ CopiedUpTo(t, o, a, Len(o))
<1>1. /\ o \in Seq(DOMAIN t.item \ {Root}) /\ Len(o) \in Nat /\ IsTree(t)
      /\ DOMAIN o = 1 .. Len(o)
  <2>1. o \in Seq(DOMAIN t.item \ {Root}) /\ IsTree(t)
    BY OrderedParts
  <2> QED
    BY <2>1
<1>2. a \in Seq(Items) /\ Len(a) = Len(o)
  BY <1>1, ItemsAtParts
<1>3. \A k \in 1 .. Len(o) : a[k] = t.item[o[k]]
  BY <1>1 DEF ItemsAt
<1>4. /\ UpTo(a, 0) = EmptyTree(NewRoot)
      /\ \A k \in 1 .. Len(o) : UpTo(a, k) = ReadOne(UpTo(a, k - 1), a[k])
  BY <1>2, UpToParts
<1>5. ASSUME NEW k \in Nat, k < Len(o), CopiedUpTo(t, o, a, k)
      PROVE  /\ Readable(UpTo(a, k), a[k + 1])
             /\ CopiedUpTo(t, o, a, k + 1)
  <2>1. PICK g : Copy(t, Visited(o, k), UpTo(a, k), g)
    BY <1>5 DEF CopiedUpTo
  <2>2. k \in 0 .. Len(o) /\ k + 1 \in 1 .. Len(o) /\ k + 1 - 1 = k
    BY <1>1, <1>5
  <2>3. a[k + 1] = t.item[o[k + 1]]
    BY <1>3, <2>2
  <2>4. UpTo(a, k + 1) = ReadOne(UpTo(a, k), a[k + 1])
    BY <1>4, <2>2
  <2>5. /\ Readable(UpTo(a, k), t.item[o[k + 1]])
        /\ Neat(ReadOne(UpTo(a, k), t.item[o[k + 1]]))
        /\ \E h : Copy(t, Visited(o, k + 1), ReadOne(UpTo(a, k), t.item[o[k + 1]]), h)
    BY <1>5, <2>1, <2>2, ReadingCopies DEF CopiedUpTo
  <2> QED
    BY <2>3, <2>4, <2>5 DEF CopiedUpTo
<1> DEFINE S == {k \in Nat : k <= Len(o) => CopiedUpTo(t, o, a, k)}
<1>6. 0 \in S
  BY <1>4, NothingCopied
<1>7. ASSUME NEW k \in Nat, k \in S PROVE k + 1 \in S
  <2>1. ASSUME k + 1 <= Len(o) PROVE CopiedUpTo(t, o, a, k + 1)
    <3>1. k <= Len(o) /\ k < Len(o)
      BY <1>1, <2>1
    <3> QED
      BY <1>5, <1>7, <3>1
  <2> QED
    BY <2>1
<1> HIDE DEF S
<1>8. \A k \in Nat : k \in S
  BY <1>6, <1>7, AllNumbers
<1>9. \A k \in Nat : k <= Len(o) => CopiedUpTo(t, o, a, k)
  BY <1>8 DEF S
<1>10. ASSUME NEW k \in 1 .. Len(o) PROVE Readable(UpTo(a, k - 1), a[k])
  <2> DEFINE m == k - 1
  <2>1. m \in Nat /\ m < Len(o) /\ m <= Len(o) /\ m + 1 = k
    BY <1>1
  <2> HIDE DEF m
  <2>2. Readable(UpTo(a, m), a[m + 1])
    BY <1>5, <1>9, <2>1
  <2> QED
    BY <2>1, <2>2 DEF m
<1> QED
  BY <1>1, <1>9, <1>10

----------------------------------------------------------------------------
(* What the copy writes *)

\* In the end everything below a visited directory has been visited.
LEMMA AllVisited ==
  ASSUME NoBackslash, NEW t, NEW o, Ordered(t, o)
  PROVE  \A d \in Visited(o, Len(o)) : \A l \in DOMAIN t.kids[d] :
           t.kids[d][l] \in Visited(o, Len(o))
<1> DEFINE V == Visited(o, Len(o))
<1>1. /\ o \in Seq(DOMAIN t.item \ {Root}) /\ Len(o) \in Nat
      /\ Root \in DOMAIN t.item /\ t.kids[Root] \in Seq(DOMAIN t.item \ {Root})
  BY OrderedParts, TreeParts
<1>2. DOMAIN o = 1 .. Len(o) /\ DOMAIN t.kids[Root] = 1 .. Len(t.kids[Root])
  BY <1>1
<1>3. \A i : In(o, i) => i \in V
  BY <1>2 DEF In, Visited
<1>4. /\ \A l \in 1 .. Len(t.kids[Root]) : In(o, t.kids[Root][l])
      /\ \A k \in DOMAIN o : \A l \in DOMAIN t.kids[o[k]] : In(o, t.kids[o[k]][l])
  BY DEF Ordered, Order
<1>5. \A d \in V : d = Root \/ \E k \in DOMAIN o : d = o[k]
  BY <1>2 DEF Visited
<1> HIDE DEF V
<1>6. \A d \in V : \A l \in DOMAIN t.kids[d] : t.kids[d][l] \in V
  BY <1>2, <1>3, <1>4, <1>5
<1> QED
  BY <1>6 DEF V

\* A copy of the whole is written as the whole.
LEMMA CopyWrites ==
  ASSUME NEW t, IsTree(t), NEW rank, Ranks(t, rank), NEW b, Lists(t, b),
         NEW V, V \subseteq DOMAIN t.item,
         \A d \in V : \A l \in DOMAIN t.kids[d] : t.kids[d][l] \in V,
         NEW u, NEW g, Copy(t, V, u, g), NEW c, Lists(u, c)
  PROVE  \A d \in V : c[g[d]] = b[d]
<1> DEFINE S == {n \in Nat : \A d \in V : rank[d] = n => c[g[d]] = b[d]}
<1>1. \A d \in V : rank[d] \in Nat /\ \A l \in DOMAIN t.kids[d] : rank[t.kids[d][l]] < rank[d]
  BY DEF Ranks
<1>2. \A d \in V : t.kids[d] \in Seq(DOMAIN t.item \ {Root})
  BY TreeParts
<1>3. ASSUME NEW n \in Nat, \A m \in Nat : m < n => m \in S
      PROVE  n \in S
  <2>1. ASSUME NEW d \in V, rank[d] = n
        PROVE  c[g[d]] = b[d]
    <3>1. /\ \A l : l \in DOMAIN u.kids[g[d]] <=> l \in DOMAIN t.kids[d]
          /\ \A l \in DOMAIN t.kids[d] : u.kids[g[d]][l] = g[t.kids[d][l]]
      BY DEF Copy
    <3>2. ASSUME NEW l \in DOMAIN t.kids[d]
          PROVE  /\ u.item[u.kids[g[d]][l]] = t.item[t.kids[d][l]]
                 /\ c[u.kids[g[d]][l]] = b[t.kids[d][l]]
      <4> DEFINE y == t.kids[d][l]
      <4>1. y \in V \ {Root}
        BY <1>2
      <4>2. rank[y] \in Nat /\ rank[y] < n
        BY <1>1, <2>1, <4>1
      <4> HIDE DEF y
      <4>3. rank[y] \in S
        BY <1>3, <4>2
      <4>4. c[g[y]] = b[y] /\ u.item[g[y]] = t.item[y]
        BY <4>1, <4>3 DEF Copy
      <4> QED
        BY <3>1, <4>4 DEF y
    <3>3. Pieces(u, c, g[d]) = Pieces(t, b, d)
      <4>1. DOMAIN u.kids[g[d]] = DOMAIN t.kids[d]
        BY <3>1
      <4> QED
        BY <3>2, <4>1 DEF Pieces
    <3>4. g[d] \in DOMAIN u.item /\ d \in DOMAIN t.item
      BY DEF Copy
    <3>5. c[g[d]] = FlattenSeq(Pieces(u, c, g[d])) /\ b[d] = FlattenSeq(Pieces(t, b, d))
      BY <3>4 DEF Lists
    <3> QED
      BY <3>3, <3>5
  <2> QED
    BY <2>1
<1> HIDE DEF S
<1>4. \A n \in Nat : n \in S
  BY <1>3, AllLengths
<1>5. \A d \in V : rank[d] \in S
  BY <1>1, <1>4
<1> QED
  BY <1>5 DEF S

LEMMA CopyBounded ==
  ASSUME NoBackslash, NEW t, Bounded(t), NEW V, V \subseteq DOMAIN t.item,
         NEW u, Neat(u), NEW g, Copy(t, V, u, g)
  PROVE  Bounded(u)
<1>1. PICK h \in Nat : \A i \in DOMAIN t.item : Len(t.item[i].name) <= h
  BY DEF Bounded
<1>2. u.item[Root].name = Dot /\ Len(Dot) = 1
  BY DotParts DEF Neat, Tidy, ProperNames
<1>3. ASSUME NEW i \in DOMAIN u.item PROVE Len(u.item[i].name) <= h + 1
  <2>1. PICK m \in V : g[m] = i
    BY DEF Copy
  <2>2. CASE m = Root
    <3>1. i = Root
      BY <2>1, <2>2 DEF Copy
    <3>2. Len(u.item[i].name) = 1
      BY <1>2, <3>1
    <3> QED
      BY <1>1, <3>2
  <2>3. CASE m # Root
    <3>1. u.item[i] = t.item[m] /\ m \in DOMAIN t.item
      BY <2>1, <2>3 DEF Copy
    <3>2. Len(t.item[m].name) <= h
      BY <1>1, <3>1
    <3>3. Len(u.item[i].name) \in Nat
      <4>1. u.item[i] \in Items
        BY TreeParts DEF Neat, Sound
      <4> QED
        BY <4>1, PathParts DEF Items
    <3>4. Len(u.item[i].name) <= h
      BY <3>1, <3>2
    <3> QED
      BY <1>1, <3>3, <3>4
  <2> QED
    BY <2>2, <2>3
<1>4. h + 1 \in Nat
  BY <1>1
<1> QED
  BY <1>3, <1>4 DEF Bounded

\* What is written is read, and the tree it makes is written as the same archive.
ReadsBack(t) == /\ IsReadable(ArchiveOf(t))
                /\ ArchiveOf(Rebuilt(ArchiveOf(t))) = ArchiveOf(t)

LEMMA WrittenIsReadBack ==
  ASSUME NoBackslash, NEW t, Neat(t), AllPlain(t), Bounded(t)
  PROVE  ReadsBack(t)
<1> DEFINE a == ArchiveOf(t)
           u == Rebuilt(a)
<1>1. IsTree(t) /\ OnePlace(t)
  BY DEF Neat, Sound, Tidy
<1>2. PICK rank : Ranks(t, rank)
  BY RanksExist
<1>3. PICK b : Lists(t, b) /\ a = b[Root]
  BY <1>1, <1>2, ArchiveIsBelow
<1>4. PICK o : Order(t, rank, Root, Len(t.kids[Root]), o) /\ b[Root] = ItemsAt(t, o)
  <2>1. Written(t, rank, b, Root)
    BY <1>1, <1>2, <1>3, ArchiveInOrder, TreeParts
  <2> QED
    BY <2>1 DEF Written
<1>5. Ordered(t, o)
  BY <1>2, <1>4 DEF Ordered
<1> HIDE DEF a, u
<1>6. a = ItemsAt(t, o)
  BY <1>3, <1>4
<1>7. /\ \A k \in 1 .. Len(o) : Readable(UpTo(a, k - 1), a[k])
      /\ CopiedUpTo(t, o, a, Len(o))
  BY <1>5, <1>6, ArchiveIsCopied
<1>8. /\ a \in Seq(Items) /\ Len(a) = Len(o) /\ Len(o) \in Nat
      /\ o \in Seq(DOMAIN t.item \ {Root})
  BY <1>1, <1>5, <1>6, OrderedParts, ItemsAtParts
<1>9. IsReadable(a)
  <2>1. DOMAIN a = 1 .. Len(o)
    BY <1>8
  <2> QED
    BY <1>7, <2>1 DEF IsReadable, UpTo
<1>10. u = UpTo(a, Len(o))
  BY <1>8, UpToParts DEF u
<1> DEFINE V == Visited(o, Len(o))
<1>11. PICK g : Copy(t, V, u, g)
  BY <1>7, <1>10 DEF CopiedUpTo
<1>12. Neat(u) /\ IsTree(u)
  BY <1>7, <1>10 DEF CopiedUpTo, Neat, Sound
<1>13. /\ V \subseteq DOMAIN t.item /\ Root \in V
       /\ \A d \in V : \A l \in DOMAIN t.kids[d] : t.kids[d][l] \in V
  <2>1. Len(o) \in 0 .. Len(o)
    BY <1>8
  <2>2. V \subseteq DOMAIN t.item /\ Root \in V
    BY <1>5, <2>1, VisitedParts
  <2> QED
    BY <1>5, <2>2, AllVisited
<1> HIDE DEF V
<1>14. Bounded(u)
  BY <1>11, <1>12, <1>13, CopyBounded
<1>15. PICK c : Lists(u, c) /\ ArchiveOf(u) = c[Root]
  <2>1. PICK r : Ranks(u, r)
    BY <1>12, <1>14, RanksExist
  <2> QED
    BY <1>12, <2>1, ArchiveIsBelow
<1>16. c[g[Root]] = b[Root]
  BY <1>1, <1>2, <1>3, <1>11, <1>13, <1>15, CopyWrites
<1>17. ArchiveOf(u) = a
  BY <1>3, <1>11, <1>15, <1>16 DEF Copy
<1> QED
  BY <1>9, <1>17 DEF ReadsBack, a, u

----------------------------------------------------------------------------
(* The theorem. Neat alone does not say that the depth of a tree is bounded, *)
(* nor that its names are plain; every change keeps it so.                   *)

LEMMA EmptyTreeBounded == Bounded(EmptyTree(NewRoot)) /\ AllPlain(EmptyTree(NewRoot))
<1>1. \A i \in DOMAIN EmptyTree(NewRoot).item : EmptyTree(NewRoot).item[i].name = Dot
  BY DEF EmptyTree, NewRoot
<1>2. Len(Dot) <= 1
  BY DotParts
<1> HIDE DEF EmptyTree, NewRoot
<1>3. \A i \in DOMAIN EmptyTree(NewRoot).item : Len(EmptyTree(NewRoot).item[i].name) <= 1
  BY <1>1, <1>2
<1>4. Plain(Dot)
  BY BareAssumption DEF Plain, Dot
<1> QED
  BY <1>1, <1>3, <1>4 DEF Bounded, AllPlain

LEMMA BoundedFromChange ==
  ASSUME NoBackslash, NEW t, Neat(t), Bounded(t), NEW u, NEW p \in Names,
         Amended(t, u, p) \/ Added(t, u, p) \/ Removed(t, u, p)
  PROVE  Bounded(u)
<1>1. IsTree(t)
  BY DEF Neat, Sound
<1>2. PICK h \in Nat : \A i \in DOMAIN t.item : Len(t.item[i].name) <= h
  BY DEF Bounded
<1>3. \A i \in DOMAIN t.item : Len(t.item[i].name) \in Nat
  BY <1>1, TreeParts, PathParts DEF Items
<1>4. CASE Amended(t, u, p)
  <2> DEFINE e == GetElement(t, p)
  <2>1. PICK x \in Items : x.name = t.item[e].name /\ u = [t EXCEPT !.item[e] = x]
    BY <1>4 DEF Amended
  <2> HIDE DEF e
  <2>2. \A i \in DOMAIN u.item : i \in DOMAIN t.item /\ u.item[i].name = t.item[i].name
    BY <1>1, <2>1 DEF IsTree, Heaps
  <2> QED
    BY <1>2, <2>2 DEF Bounded
<1>5. CASE Added(t, u, p)
  <2> DEFINE d == GetParentDirectory(t, p)
             m == Len(Strip(p))
  <2>1. PICK x \in Items : x.name = p /\ Plain(p) /\ u = AddItem(t, d, x)
    BY <1>5 DEF Added
  <2>2. d \in DOMAIN t.item /\ HasRoom(t)
    BY <1>1, <1>5, ParentFound DEF Added
  <2>3. m \in Nat
    BY PathTypes, PathParts
  <2> HIDE DEF d
  <2>4. /\ DOMAIN u.item = DOMAIN t.item \cup {Fresh(t)}
        /\ Len(u.item[Fresh(t)].name) = m
        /\ \A n \in DOMAIN t.item : u.item[n] = t.item[n]
    <3>1. /\ DOMAIN AddItem(t, d, x).item = DOMAIN t.item \cup {Fresh(t)}
          /\ AddItem(t, d, x).item[Fresh(t)].name = Strip(x.name)
          /\ \A n \in DOMAIN t.item : AddItem(t, d, x).item[n] = t.item[n]
      BY <1>1, <2>1, <2>2, AddItemParts
    <3> QED
      BY <2>1, <3>1
  <2> HIDE DEF m
  <2>5. ASSUME NEW i \in DOMAIN u.item PROVE Len(u.item[i].name) <= h + m
    <3>1. CASE i \in DOMAIN t.item
      <4>1. Len(u.item[i].name) <= h /\ Len(u.item[i].name) \in Nat
        BY <1>2, <1>3, <2>4, <3>1
      <4> QED
        BY <1>2, <2>3, <4>1
    <3>2. CASE i = Fresh(t)
      BY <1>2, <2>3, <2>4, <3>2
    <3> QED
      BY <2>4, <3>1, <3>2
  <2>6. h + m \in Nat
    BY <1>2, <2>3
  <2> QED
    BY <2>5, <2>6 DEF Bounded
<1>6. CASE Removed(t, u, p)
  <2>1. Thinned(t, u)
    BY <1>1, <1>6, ParentFound, RemoveAllThinned DEF Removed
  <2>2. \A i \in DOMAIN u.item : i \in DOMAIN t.item /\ u.item[i] = t.item[i]
    BY <2>1 DEF Thinned
  <2> QED
    BY <1>2, <2>2 DEF Bounded
<1> QED
  BY <1>4, <1>5, <1>6

\* An item whose directory is found begins as its directory does: "/\a" has none.
LEMMA StrippedIsPlain ==
  ASSUME NEW t, IsTree(t), AllPlain(t), NEW p \in Names, Plain(p),
         GetParentDirectory(t, p) \notin {Throw, Null}
  PROVE  Plain(Strip(p))
<1> DEFINE d == GetParentDirectory(t, p)
           q == ParentPath(p)
<1>1. d = GetElement(t, q) /\ d # Throw
  BY DEF GetParentDirectory
<1>2. d \in DOMAIN t.item
  BY <1>1, ElementFound
<1>3. CASE q = Dot
  BY <1>3, NameBelowRoot
<1>4. CASE q # Dot
  <2>1. d # Root /\ q # Empty /\ t.item[d].name = Strip(q)
    BY <1>1, <1>4, ElementFound
  <2>2. Strip(p) = Append(Strip(q), Strip(p)[Len(Strip(p))])
    BY <1>4, <2>1, NameBelowParent
  <2>3. Strip(q) \in Seq(Components) /\ Len(Strip(q)) > 0
    BY <1>2, <2>1, TreeParts, PathParts DEF Items
  <2>4. Plain(Strip(q))
    BY <1>2, <2>1 DEF AllPlain
  <2> DEFINE m == Strip(q)
             c == Strip(p)[Len(Strip(p))]
  <2>5. Strip(p) = Append(m, c) /\ m \in Seq(Components) /\ Len(m) > 0 /\ Plain(m)
    BY <2>2, <2>3, <2>4
  <2> HIDE DEF m, c
  <2>6. Head(Append(m, c)) = Head(m)
    BY <2>5
  <2> QED
    BY <2>5, <2>6 DEF Plain
<1> QED
  BY <1>3, <1>4

LEMMA PlainFromChange ==
  ASSUME NoBackslash, NEW t, Neat(t), AllPlain(t), NEW u, NEW p \in Names,
         Amended(t, u, p) \/ Added(t, u, p) \/ Removed(t, u, p)
  PROVE  AllPlain(u)
<1>1. IsTree(t)
  BY DEF Neat, Sound
<1>2. CASE Amended(t, u, p)
  <2> DEFINE e == GetElement(t, p)
  <2>1. PICK x \in Items : x.name = t.item[e].name /\ u = [t EXCEPT !.item[e] = x]
    BY <1>2 DEF Amended
  <2> HIDE DEF e
  <2>2. \A i \in DOMAIN u.item : i \in DOMAIN t.item /\ u.item[i].name = t.item[i].name
    BY <1>1, <2>1 DEF IsTree, Heaps
  <2> QED
    BY <2>2 DEF AllPlain
<1>3. CASE Added(t, u, p)
  <2> DEFINE d == GetParentDirectory(t, p)
  <2>1. PICK x \in Items : x.name = p /\ Plain(p) /\ u = AddItem(t, d, x)
    BY <1>3 DEF Added
  <2>2. d \in DOMAIN t.item /\ HasRoom(t) /\ d \notin {Throw, Null}
    BY <1>1, <1>3, ParentFound DEF Added
  <2>3. Plain(Strip(p))
    BY <1>1, <2>1, <2>2, StrippedIsPlain
  <2> HIDE DEF d
  <2>4. /\ DOMAIN AddItem(t, d, x).item = DOMAIN t.item \cup {Fresh(t)}
        /\ AddItem(t, d, x).item[Fresh(t)].name = Strip(x.name)
        /\ \A n \in DOMAIN t.item : AddItem(t, d, x).item[n] = t.item[n]
    BY <1>1, <2>1, <2>2, AddItemParts
  <2> QED
    BY <2>1, <2>3, <2>4 DEF AllPlain
<1>4. CASE Removed(t, u, p)
  <2>1. Thinned(t, u)
    BY <1>1, <1>4, ParentFound, RemoveAllThinned DEF Removed
  <2>2. \A i \in DOMAIN u.item : i \in DOMAIN t.item /\ u.item[i] = t.item[i]
    BY <2>1 DEF Thinned
  <2> QED
    BY <2>2 DEF AllPlain
<1> QED
  BY <1>2, <1>3, <1>4

\* The inductive invariant.
StoreInv == /\ NeatInv
            /\ fs = NoFs \/ (Bounded(fs) /\ AllPlain(fs))
            /\ dst = NoFs \/ (Bounded(dst) /\ AllPlain(dst))

LEMMA StoreStep ==
  ASSUME NoBackslash, StoreInv, [Next]_vars
  PROVE  StoreInv'
<1>1. NeatInv /\ IInv
  BY DEF StoreInv, NeatInv
<1>2. NeatInv'
  BY <1>1, NeatStep
<1>3. fs' = NoFs \/ (Bounded(fs') /\ AllPlain(fs'))
  <2>1. SlotStep
    BY <1>1, EveryStepOfTheSlot
  <2>2. CASE fs' = fs \/ fs' = NoFs
    BY <2>2 DEF StoreInv
  <2>3. CASE fs' = dst
    BY <2>3 DEF StoreInv
  <2>4. CASE fs # NoFs /\ SlotChanged
    <3>1. PICK p \in FsPaths : \/ Amended(fs, fs', p) \/ Added(fs, fs', p)
                               \/ Removed(fs, fs', p)
      BY <2>4 DEF SlotChanged
    <3>2. p \in Names /\ Neat(fs) /\ Bounded(fs) /\ AllPlain(fs)
      BY <2>4, FsAssumption DEF StoreInv, NeatInv
    <3> QED
      BY <3>1, <3>2, BoundedFromChange, PlainFromChange
  <2> QED
    BY <2>1, <2>2, <2>3, <2>4 DEF SlotStep
<1>4. dst' = NoFs \/ (Bounded(dst') /\ AllPlain(dst'))
  <2>1. LoadStep
    BY <1>1, EveryStepOfTheLoad
  <2>2. CASE dst' = dst \/ dst' = NoFs
    BY <2>2 DEF StoreInv
  <2>3. CASE dst' = EmptyTree(NewRoot)
    BY <2>3, EmptyTreeBounded
  <2>4. CASE dst # NoFs /\ \E p \in Names : Amended(dst, dst', p) \/ Added(dst, dst', p)
    <3>1. PICK p \in Names : Amended(dst, dst', p) \/ Added(dst, dst', p)
      BY <2>4
    <3>2. Neat(dst) /\ Bounded(dst) /\ AllPlain(dst)
      BY <2>4 DEF StoreInv, NeatInv
    <3> QED
      BY <3>1, <3>2, BoundedFromChange, PlainFromChange
  <2> QED
    BY <2>1, <2>2, <2>3, <2>4 DEF LoadStep
<1>5. /\ (fs = NoFs \/ (Bounded(fs) /\ AllPlain(fs)))'
      /\ (dst = NoFs \/ (Bounded(dst) /\ AllPlain(dst)))'
  BY <1>3, <1>4 DEF Bounded, AllPlain, Plain
<1> QED
  BY <1>2, <1>5 DEF StoreInv

\* Whatever archives are loaded and whatever the script does, as long as neither
\* names a path that begins with a backslash, the archive store writes is one that
\* load accepts, entry by entry, and the tree load makes of it is written as the
\* same archive.
THEOREM StoredIsReadBack ==
  ASSUME NoBackslash
  PROVE  Spec => []RoundTrip
<1>1. Init => StoreInv
  <2>1. Init => NeatInv
    BY EmptySeq, NothingPlain DEF Init, NeatInv, IInv, Statuses
  <2> QED
    BY <2>1 DEF Init, StoreInv
<1>2. StoreInv /\ [Next]_vars => StoreInv'
  BY StoreStep
<1>3. StoreInv => RoundTrip
  <2> SUFFICES ASSUME StoreInv, fs # NoFs PROVE ReadsBack(fs)
    BY DEF RoundTrip, ReadsBack
  <2>1. Neat(fs) /\ Bounded(fs) /\ AllPlain(fs)
    BY DEF StoreInv, NeatInv
  <2> QED
    BY <2>1, WrittenIsReadBack
<1> QED
  BY <1>1, <1>2, <1>3, PTL DEF Spec

=============================================================================
