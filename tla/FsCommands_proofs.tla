-------------------------- MODULE FsCommands_proofs --------------------------
(***************************************************************************)
(* Proofs about the filesystem tree and the commands on it, for any set of  *)
(* object identities, paths, archives and attributes: the objects keep      *)
(* their shape, the full path every item carries as its name agrees with    *)
(* the directory that lists it, every item has one place, and none that a   *)
(* path can name is out of reach.                                           *)
(***************************************************************************)
EXTENDS FsCommands, TLAPS, SequenceTheorems, FiniteSetTheorems,
        WellFoundedInduction

----------------------------------------------------------------------------
(* Numbers and sequences *)

\* A set of positions has a first one (the search of a list stops somewhere).
LEMMA FirstPosition ==
  ASSUME NEW T \in SUBSET Nat, T # {}
  PROVE  \E k \in T : \A j \in T : k <= j
<1>1. PICK k \in T : \A j \in T : ~ (<<j, k>> \in OpToRel(<, Nat))
  BY NatLessThanWellFounded, WFMin
<1>2. \A j \in T : ~ (j < k)
  BY <1>1 DEF OpToRel
<1> QED
  BY <1>2

\* The two lengths of a path that lookups tell apart.
LEMMA OneOrMore ==
  \A n \in Nat : n > 0 => (n = 1 /\ ~(n > 1)) \/ (n # 1 /\ n > 1)
OBVIOUS

\* A sequence with a component is not the empty one.
LEMMA NotEmpty ==
  ASSUME NEW S, NEW s \in Seq(S), Len(s) > 0
  PROVE  s # <<>>
<1>1. \A n \in Nat : n > 0 => n # 0
  OBVIOUS
<1>2. Len(s) \in Nat
  OBVIOUS
<1>3. Len(s) # 0
  BY <1>1, <1>2
<1> QED
  BY <1>3, EmptySeq

\* What RemoveAll leaves of a list is a list of elements that were in it.
LEMMA SelectionFromList ==
  ASSUME NEW S, NEW s \in Seq(S), NEW K \in SUBSET DOMAIN s,
         NEW r \in Selections(s, K)
  PROVE  /\ r \in Seq(S)
         /\ \A k \in DOMAIN r : \E j \in K : r[k] = s[j]
<1>1. Cardinality(K) \in Nat
  <2>1. DOMAIN s = 1 .. Len(s) /\ Len(s) \in Nat
    OBVIOUS
  <2>2. IsFiniteSet(1 .. Len(s))
    BY <2>1, FS_Interval
  <2> QED
    BY <2>1, <2>2, FS_Subset, FS_CardinalityType
<1>2. PICK f \in [1 .. Cardinality(K) -> K] : r = [k \in DOMAIN f |-> s[f[k]]]
  BY DEF Selections
<1>3. \A k \in 1 .. Cardinality(K) : f[k] \in K /\ s[f[k]] \in S
  BY <1>2
<1>4. r = [k \in 1 .. Cardinality(K) |-> s[f[k]]]
  BY <1>2
<1>5. r \in [1 .. Cardinality(K) -> S]
  BY <1>3, <1>4
<1>6. r \in Seq(S)
  BY <1>1, <1>5, SeqDef
<1> QED
  BY <1>3, <1>4, <1>6

----------------------------------------------------------------------------
(* Paths *)

\* Without its leading slash a path is a path, and so is its parent.
LEMMA PathTypes ==
  ASSUME NEW p \in Names
  PROVE  Strip(p) \in Names /\ ParentPath(p) \in Names
<1>1. p \in Seq(Components) /\ Len(p) \in Nat /\ Len(p) > 0
  BY EmptySeq DEF Names
<1>2. Strip(p) \in Names
  <2>1. CASE Len(p) > 1 /\ Head(p) = Blank
    <3>1. Tail(p) \in Seq(Components) /\ Len(Tail(p)) > 0
      BY <1>1, <2>1
    <3>2. Tail(p) # <<>>
      BY <3>1, NotEmpty
    <3> QED
      BY <2>1, <3>1, <3>2 DEF Strip, Names
  <2>2. CASE ~(Len(p) > 1 /\ Head(p) = Blank)
    BY <2>2 DEF Strip
  <2> QED
    BY <2>1, <2>2
<1>3. ParentPath(p) \in Names
  <2>1. CASE Len(p) = 1
    <3>1. ParentPath(p) = Dot
      BY <2>1 DEF ParentPath
    <3>2. DotName \in Components
      BY ComponentsAssumption
    <3>3. Dot \in Seq(Components) /\ Dot # <<>>
      BY <3>2 DEF Dot
    <3> QED
      BY <3>1, <3>3 DEF Names
  <2>2. CASE Len(p) > 1
    <3>1. ParentPath(p) = SubSeq(p, 1, Len(p) - 1)
      BY <2>2, <1>1, OneOrMore DEF ParentPath
    <3>2. \A i \in 1 .. Len(p) - 1 : p[i] \in Components
      BY <1>1
    <3>3. /\ ParentPath(p) \in Seq(Components)
          /\ Len(ParentPath(p)) = Len(p) - 1
      BY <1>1, <2>2, <3>1, <3>2, SubSeqProperties
    <3>5. Len(ParentPath(p)) > 0
      BY <1>1, <2>2, <3>3
    <3>4. ParentPath(p) # <<>>
      BY <3>3, <3>5, NotEmpty
    <3> QED
      BY <3>3, <3>4 DEF Names
  <2> QED
    BY <1>1, <2>1, <2>2, OneOrMore
<1> QED
  BY <1>2, <1>3

\* The components of the parent of a path with a slash.
LEMMA ParentComponents ==
  ASSUME NEW p \in Names, Len(p) > 1
  PROVE  /\ ParentPath(p) \in Seq(Components)
         /\ Len(ParentPath(p)) = Len(p) - 1
         /\ \A i \in 1 .. Len(p) - 1 : ParentPath(p)[i] = p[i]
<1>1. p \in Seq(Components) /\ Len(p) \in Nat /\ Len(p) > 0
  BY EmptySeq DEF Names
<1>2. ParentPath(p) = SubSeq(p, 1, Len(p) - 1)
  BY <1>1, OneOrMore DEF ParentPath
<1>3. \A i \in 1 .. Len(p) - 1 : p[i] \in Components
  BY <1>1
<1> QED
  BY <1>1, <1>2, <1>3, SubSeqProperties

\* The constructor makes a path of a path, the one that the lookups ask for unless
\* it begins with a backslash.
LEMMA NewNames ==
  ASSUME NEW p \in Names
  PROVE  PreprocessFilename(p) \in Names
<1>1. p \in Seq(Components) /\ Len(p) \in Nat /\ Len(p) > 0
  BY EmptySeq DEF Names
<1>2. CASE Head(p) \in DOMAIN Bare
  <2> DEFINE q == [p EXCEPT ![1] = Bare[p[1]]]
  <2>1. Head(p) = p[1] /\ PreprocessFilename(p) = q
    BY <1>1, <1>2 DEF PreprocessFilename
  <2>2. Bare[p[1]] \in Components
    BY <1>2, <2>1, BareAssumption
  <2>3. q \in Seq(Components) /\ Len(q) = Len(p)
    BY <1>1, <2>2
  <2>4. q # <<>>
    BY <1>1, <2>3, NotEmpty
  <2> QED
    BY <2>1, <2>3, <2>4 DEF Names
<1>3. CASE Head(p) \notin DOMAIN Bare
  BY <1>3, PathTypes DEF PreprocessFilename
<1> QED
  BY <1>2, <1>3

LEMMA PlainNames == \A p : Plain(p) => PreprocessFilename(p) = Strip(p)
BY DEF Plain, PreprocessFilename

\* A path whose parent is "." has one component, or is "./x".
LEMMA NameBelowRoot ==
  ASSUME NEW p \in Names, ParentPath(p) = Dot
  PROVE  /\ Strip(p) = p
         /\ Len(p) = 1 \/ (Len(p) = 2 /\ p[1] = DotName)
<1>1. p \in Seq(Components) /\ Len(p) \in Nat /\ Len(p) > 0
  BY EmptySeq DEF Names
<1>2. CASE Len(p) = 1
  BY <1>2 DEF Strip
<1>3. CASE Len(p) > 1
  <2>1. DotName \in Components /\ DotName # Blank
    BY ComponentsAssumption
  <2>2. Len(Dot) = 1 /\ Dot[1] = DotName
    BY <2>1 DEF Dot
  <2>7. 1 = Len(p) - 1
    BY <1>3, <2>2, ParentComponents
  <2>3. Len(p) = 2 /\ 1 \in 1 .. Len(p) - 1
    BY <1>1, <2>7
  <2>4. p[1] = DotName
    BY <2>2, <2>3, <1>3, ParentComponents
  <2>5. Head(p) = p[1]
    BY <1>1, <1>3
  <2>6. Strip(p) = p
    BY <2>1, <2>4, <2>5 DEF Strip
  <2> QED
    BY <2>3, <2>4, <2>6
<1> QED
  BY <1>1, <1>2, <1>3, OneOrMore

\* The name a path gives its item is its parent's name and one component more,
\* when the parent is not "." or the empty string.
LEMMA NameBelowParent ==
  ASSUME NEW p \in Names,
         ParentPath(p) # Dot, ParentPath(p) # Empty
  PROVE  /\ Len(Strip(p)) > 0
         /\ Strip(p) = Append(Strip(ParentPath(p)), Strip(p)[Len(Strip(p))])
<1> DEFINE q == ParentPath(p)
<1>0. p \in Seq(Components) /\ Len(p) \in Nat /\ Len(p) > 0
  BY EmptySeq DEF Names
<1>1. p \in Seq(Components) /\ Len(p) \in Nat /\ Len(p) > 1 /\ Head(p) = p[1]
  <2>1. Len(p) # 1
    BY DEF ParentPath
  <2>2. Len(p) > 1
    BY <1>0, <2>1, OneOrMore
  <2> QED
    BY <1>0, <2>2
<1>2. /\ q \in Seq(Components) /\ Len(q) = Len(p) - 1
      /\ \A i \in 1 .. Len(p) - 1 : q[i] = p[i]
  BY <1>1, ParentComponents
<1>5. Head(q) = p[1] /\ q[1] = p[1]
  BY <1>1, <1>2
<1>6. q # Empty
  OBVIOUS
<1> HIDE DEF q
<1>3. CASE p[1] = Blank
  <2>1. ASSUME Len(q) = 1 PROVE FALSE
    <3>1. Blank \in Components
      BY ComponentsAssumption
    <3>2. Empty \in Seq(Components) /\ Len(Empty) = 1 /\ Empty[1] = Blank
      BY <3>1 DEF Empty
    <3>3. q = Empty
      BY <1>2, <1>5, <1>3, <2>1, <3>2, SeqEqual
    <3> QED
      BY <3>3, <1>6
  <2>2. Len(q) > 1 /\ Head(p) = Blank /\ Head(q) = Blank
    BY <2>1, <1>1, <1>2, <1>3, <1>5
  <2>9. Strip(p) = Tail(p) /\ Strip(q) = Tail(q)
    BY <2>2, <1>1 DEF Strip
  <2>3. /\ Tail(p) \in Seq(Components) /\ Len(Tail(p)) = Len(p) - 1
        /\ \A i \in 1 .. Len(p) - 1 : Tail(p)[i] = p[i + 1]
    BY <1>1
  <2>4. /\ Tail(q) \in Seq(Components) /\ Len(Tail(q)) = Len(p) - 2
        /\ \A i \in 1 .. Len(p) - 2 : Tail(q)[i] = p[i + 1]
    BY <1>1, <1>2, <2>1
  <2> DEFINE s == Append(Tail(q), p[Len(p)])
  <2>5. s \in Seq(Components) /\ Len(s) = Len(p) - 1
    BY <1>1, <2>4
  <2>6. \A i \in 1 .. Len(p) - 1 : s[i] = p[i + 1]
    BY <1>1, <2>4
  <2>7. Tail(p) = s
    BY <2>3, <2>5, <2>6, SeqEqual
  <2>8. Tail(p)[Len(Tail(p))] = p[Len(p)]
    BY <1>1, <2>3
  <2>10. Strip(p) = Append(Strip(q), Strip(p)[Len(Strip(p))])
    BY <2>9, <2>7, <2>8
  <2>11. Len(Strip(p)) > 0
    BY <1>1, <2>9, <2>3
  <2> QED
    BY <2>10, <2>11 DEF q
<1>4. CASE p[1] # Blank
  <2>1. Strip(p) = p /\ Strip(q) = q
    BY <1>1, <1>5, <1>4 DEF Strip
  <2> DEFINE s == Append(q, p[Len(p)])
  <2>2. s \in Seq(Components) /\ Len(s) = Len(p) /\ \A i \in 1 .. Len(p) : s[i] = p[i]
    BY <1>1, <1>2
  <2>3. p = s
    BY <1>1, <2>2, SeqEqual
  <2> QED
    BY <1>1, <2>1, <2>3 DEF q
<1> QED
  BY <1>3, <1>4

----------------------------------------------------------------------------
(* Lookup *)

\* The names of a tree agree with the directories that list the items.
Named(t) ==
  \A d \in DOMAIN t.item : \A k \in DOMAIN t.kids[d] :
    NamedByPlace(t, d, t.item[t.kids[d][k]].name)

Sound(t) == IsTree(t) /\ (NoBackslash => Named(t))

\* The parts of a typed tree, as the other lemmas use them.
LEMMA TreeParts ==
  ASSUME NEW t, IsTree(t)
  PROVE  /\ DOMAIN t.kids = DOMAIN t.item
         /\ Root \in DOMAIN t.item /\ DOMAIN t.item \subseteq Ids \cup {Root}
         /\ \A i \in DOMAIN t.item : t.item[i] \in Items
         /\ \A d \in DOMAIN t.item : t.kids[d] \in Seq(DOMAIN t.item \ {Root})
         /\ t.item[Root].kind = "dir"
         /\ Throw \notin DOMAIN t.item /\ Null \notin DOMAIN t.item
<1>1. Throw \notin Ids \cup {Root} /\ Null \notin Ids \cup {Root}
  BY IdsAssumption DEF Throw, Null
<1> QED
  BY <1>1 DEF IsTree, Heaps

\* What the search of a directory finds is an item listed there, of that name.
LEMMA ChildFound ==
  ASSUME NEW t, IsTree(t), NEW d, NEW n, Child(t, d, n) # Throw
  PROVE  /\ Child(t, d, n) \in DOMAIN t.item \ {Root}
         /\ t.item[Child(t, d, n)].name = n
<1> DEFINE places == {k \in DOMAIN t.kids[d] : t.item[t.kids[d][k]].name = n}
<1>1. d \in DOMAIN t.kids /\ places # {}
  BY DEF Child
<1>2. t.kids[d] \in Seq(DOMAIN t.item \ {Root})
  BY <1>1, TreeParts
<1>3. places \in SUBSET Nat
  BY <1>2
<1>4. PICK k \in places : \A j \in places : k <= j
  BY <1>1, <1>3, FirstPosition
<1> DEFINE c == CHOOSE m \in places : \A j \in places : m <= j
<1>5. c \in places
  BY <1>4
<1>6. Child(t, d, n) = t.kids[d][c]
  BY <1>1 DEF Child
<1> HIDE DEF c
<1>7. c \in DOMAIN t.kids[d] /\ t.item[t.kids[d][c]].name = n
  BY <1>5
<1>8. t.kids[d][c] \in DOMAIN t.item \ {Root}
  BY <1>2, <1>7
<1> QED
  BY <1>6, <1>7, <1>8

\* GetElement answers Root for "." and otherwise an item whose name is the path
\* it was asked for, without the leading slash.
LEMMA ElementFound ==
  ASSUME NEW t, IsTree(t), NEW p, GetElement(t, p) # Throw
  PROVE  /\ GetElement(t, p) \in DOMAIN t.item
         /\ p = Dot => GetElement(t, p) = Root
         /\ p # Dot => /\ GetElement(t, p) # Root /\ p # Empty
                       /\ t.item[GetElement(t, p)].name = Strip(p)
<1>1. CASE p = Dot
  BY <1>1, TreeParts DEF GetElement
<1>2. CASE p # Dot
  <2>1. p # Empty /\ GetElement(t, p) = Child(t, Base(t, Strip(p)), Strip(p))
    BY <1>2 DEF GetElement
  <2> QED
    BY <1>2, <2>1, ChildFound
<1> QED
  BY <1>1, <1>2

\* A new item of the directory GetParentDirectory answers is named by its place.
LEMMA ParentFound ==
  ASSUME NEW t, IsTree(t), NEW p \in Names,
         GetParentDirectory(t, p) \notin {Throw, Null}
  PROVE  /\ GetParentDirectory(t, p) \in DOMAIN t.item
         /\ NamedByPlace(t, GetParentDirectory(t, p), Strip(p))
<1> DEFINE d == GetParentDirectory(t, p)
           q == ParentPath(p)
<1>1. d = GetElement(t, q) /\ d # Throw
  BY DEF GetParentDirectory
<1>2. d \in DOMAIN t.item
  BY <1>1, ElementFound
<1>3. CASE q = Dot
  <2>1. d = Root
    BY <1>1, <1>3, ElementFound
  <2>2. Len(Strip(p)) = 1 \/ (Len(Strip(p)) = 2 /\ Strip(p)[1] = DotName)
    BY <1>3, NameBelowRoot
  <2> QED
    BY <1>2, <2>1, <2>2 DEF NamedByPlace
<1>4. CASE q # Dot
  <2>1. d # Root /\ q # Empty /\ t.item[d].name = Strip(q)
    BY <1>1, <1>4, ElementFound
  <2>2. /\ Len(Strip(p)) > 0
        /\ Strip(p) = Append(Strip(q), Strip(p)[Len(Strip(p))])
    BY <1>4, <2>1, NameBelowParent
  <2> HIDE DEF d, q
  <2> QED
    BY <1>2, <2>1, <2>2 DEF NamedByPlace, d
<1> QED
  BY <1>3, <1>4

----------------------------------------------------------------------------
(* Change *)

\* The tree of a new Filesystem, of a Root alone.
LEMMA EmptyTreeSound ==
  ASSUME NEW x \in Items, x.kind = "dir"
  PROVE  Sound(EmptyTree(x))
<1> DEFINE t == EmptyTree(x)
<1>1. /\ DOMAIN t.item = {Root} /\ DOMAIN t.kids = {Root}
      /\ t.item[Root] = x /\ t.kids[Root] = <<>>
  BY DEF EmptyTree
<1>2. <<>> \in Seq({Root} \ {Root})
  BY EmptySeq
<1>3. t \in [item : [{Root} -> Items], kids : [{Root} -> Seq({Root} \ {Root})]]
  BY <1>2 DEF EmptyTree
<1>4. IsTree(t)
  BY <1>1, <1>3 DEF IsTree, Heaps
<1>5. Named(t)
  BY <1>1, EmptySeq DEF Named
<1> QED
  BY <1>4, <1>5 DEF Sound

\* A new item of an existing directory, named by its place.
LEMMA AddItemSound ==
  ASSUME NEW t, Sound(t), HasRoom(t), NEW d \in DOMAIN t.item,
         NEW x \in Items, NamedByPlace(t, d, Strip(x.name)),
         NoBackslash => Plain(x.name)
  PROVE  Sound(AddItem(t, d, x))
<1> DEFINE i == CHOOSE n \in Ids : n \notin DOMAIN t.item
           D == DOMAIN t.item
           E == D \cup {i}
           y == [x EXCEPT !.name = PreprocessFilename(@)]
           u == AddItem(t, d, x)
<1>1. i \in Ids /\ i \notin D
  BY DEF HasRoom
<1>2. u = [item |-> [n \in E |-> IF n = i THEN y ELSE t.item[n]],
           kids |-> [n \in E |-> IF n = i THEN <<>>
                                 ELSE IF n = d THEN Append(t.kids[d], i)
                                 ELSE t.kids[n]]]
  BY DEF AddItem
<1> HIDE DEF i
<1>3. IsTree(t) /\ (NoBackslash => Named(t))
  BY DEF Sound
<1>4. y \in Items /\ (NoBackslash => y.name = Strip(x.name))
  <2>1. PreprocessFilename(x.name) \in Names
    BY NewNames DEF Items
  <2>2. Plain(x.name) => PreprocessFilename(x.name) = Strip(x.name)
    BY PlainNames
  <2> QED
    BY <2>1, <2>2 DEF Items
<1>5. i # Root /\ E \subseteq Ids \cup {Root} /\ Root \in E
  BY <1>1, <1>3, TreeParts, IdsAssumption
<1>6. \A n \in D : t.kids[n] \in Seq(D \ {Root})
  BY <1>3, TreeParts
<1>7. \A n \in D : t.kids[n] \in Seq(E \ {Root})
  BY <1>6, SeqMonotonic
<1>8. Append(t.kids[d], i) \in Seq(E \ {Root}) /\ <<>> \in Seq(E \ {Root})
  BY <1>7, <1>5, EmptySeq
<1>9. \A n \in D : t.item[n] \in Items
  BY <1>3, TreeParts
<1> HIDE DEF y, u
<1>10. IsTree(u)
  <2>1. u.item \in [E -> Items]
    BY <1>2, <1>4, <1>9
  <2>2. u.kids \in [E -> Seq(E \ {Root})]
    BY <1>2, <1>7, <1>8
  <2>3. u \in [item : [E -> Items], kids : [E -> Seq(E \ {Root})]]
    BY <1>2, <2>1, <2>2
  <2>4. DOMAIN u.item = E
    BY <1>2
  <2>5. u.item[Root].kind = "dir"
    BY <1>2, <1>3, <1>5, TreeParts
  <2> QED
    BY <1>5, <2>3, <2>4, <2>5 DEF IsTree, Heaps
<1>11. ASSUME NoBackslash, NEW e \in E, NEW k \in DOMAIN u.kids[e]
       PROVE  NamedByPlace(u, e, u.item[u.kids[e][k]].name)
  <2>1. ASSUME NEW c \in D, NEW n, NamedByPlace(t, c, n)
        PROVE  NamedByPlace(u, c, n)
    <3>1. u.item[c] = t.item[c]
      BY <1>1, <1>2
    <3> QED
      BY <2>1, <3>1 DEF NamedByPlace
  <2>2. CASE e = i
    <3>1. u.kids[e] = <<>>
      BY <1>2, <2>2
    <3> QED
      BY <3>1, EmptySeq
  <2>3. CASE e # i /\ k \in DOMAIN t.kids[e] /\ u.kids[e][k] = t.kids[e][k]
    <3>1. e \in D
      BY <2>3
    <3>2. t.kids[e][k] \in D
      BY <3>1, <1>6, <2>3
    <3>3. u.item[u.kids[e][k]] = t.item[t.kids[e][k]]
      BY <2>3, <3>2, <1>1, <1>2
    <3>4. NamedByPlace(t, e, t.item[t.kids[e][k]].name)
      BY <1>3, <1>11, <2>3, <3>1 DEF Named
    <3> QED
      BY <2>1, <3>1, <3>3, <3>4
  <2>4. CASE e = d /\ u.kids[e][k] = i
    <3>1. u.item[i] = y
      BY <1>2
    <3> QED
      BY <1>4, <1>11, <2>1, <2>4, <3>1
  <2>5. e # i => \/ k \in DOMAIN t.kids[e] /\ u.kids[e][k] = t.kids[e][k]
                 \/ e = d /\ u.kids[e][k] = i
    <3>1. CASE e # i /\ e # d
      BY <1>2, <3>1
    <3>2. CASE e # i /\ e = d
      <4>1. u.kids[e] = Append(t.kids[d], i)
        BY <1>2, <3>2
      <4>2. t.kids[d] \in Seq(E \ {Root}) /\ i \in E \ {Root}
        BY <1>5, <1>7
      <4> QED
        BY <3>2, <4>1, <4>2
    <3> QED
      BY <3>1, <3>2
  <2> QED
    BY <2>2, <2>3, <2>4, <2>5
<1>12. NoBackslash => Named(u)
  BY <1>2, <1>11 DEF Named
<1> QED
  BY <1>10, <1>12 DEF Sound, u

\* New attributes or data for an item, of the same kind and name.
LEMMA UpdateSound ==
  ASSUME NEW t, Sound(t), NEW e \in DOMAIN t.item, NEW x \in Items,
         x.name = t.item[e].name, x.kind = t.item[e].kind
  PROVE  Sound([t EXCEPT !.item[e] = x])
<1> DEFINE u == [t EXCEPT !.item[e] = x]
           D == DOMAIN t.item
<1>1. IsTree(t) /\ (NoBackslash => Named(t))
  BY DEF Sound
<1>2. t \in [item : [D -> Items], kids : [D -> Seq(D \ {Root})]]
  BY <1>1 DEF IsTree, Heaps
<1>3. u \in [item : [D -> Items], kids : [D -> Seq(D \ {Root})]]
  BY <1>2
<1>4. DOMAIN u.item = D /\ u.kids = t.kids /\ u.item = [t.item EXCEPT ![e] = x]
  BY <1>2
<1>5. \A i \in D : u.item[i].name = t.item[i].name /\ u.item[i].kind = t.item[i].kind
  BY <1>2, <1>4
<1> HIDE DEF u
<1>6. IsTree(u)
  BY <1>1, <1>3, <1>4, <1>5 DEF IsTree, Heaps
<1>7. ASSUME NoBackslash, NEW d \in D, NEW k \in DOMAIN t.kids[d]
      PROVE  NamedByPlace(u, d, u.item[t.kids[d][k]].name)
  <2>1. t.kids[d][k] \in D
    <3>1. t.kids[d] \in Seq(D \ {Root})
      BY <1>2
    <3> QED
      BY <3>1
  <2>2. NamedByPlace(t, d, t.item[t.kids[d][k]].name)
    BY <1>1, <1>7 DEF Named
  <2> QED
    BY <1>5, <2>1, <2>2 DEF NamedByPlace
<1>8. NoBackslash => Named(u)
  BY <1>4, <1>7 DEF Named
<1> QED
  BY <1>6, <1>8 DEF Sound, u

\* What is reachable from Root contains Root and the items of its directories.
LEMMA ReachableClosed ==
  ASSUME NEW t, IsTree(t)
  PROVE  /\ Reachable(t) \subseteq DOMAIN t.item
         /\ Root \in Reachable(t)
         /\ \A d \in Reachable(t) : t.kids[d] \in Seq(Reachable(t) \ {Root})
<1> DEFINE D == DOMAIN t.item
           R == Reachable(t)
           Closed(S) == Root \in S /\ \A d \in S : ToSet(t.kids[d]) \subseteq S
<1>1. R = {i \in D : \A S \in SUBSET D : Closed(S) => i \in S}
  BY DEF Reachable
<1>2. R \subseteq D /\ Root \in R
  BY <1>1, TreeParts
<1>3. ASSUME NEW d \in R, NEW k \in DOMAIN t.kids[d]
      PROVE  t.kids[d][k] \in R \ {Root}
  <2>4. t.kids[d] \in Seq(D \ {Root})
    BY <1>2, TreeParts
  <2>1. t.kids[d][k] \in D \ {Root}
    BY <2>4
  <2>2. t.kids[d][k] \in ToSet(t.kids[d])
    BY DEF ToSet
  <2>3. ASSUME NEW S \in SUBSET D, Closed(S) PROVE t.kids[d][k] \in S
    BY <1>1, <2>2, <2>3
  <2> HIDE DEF Closed
  <2> QED
    BY <1>1, <2>1, <2>3
<1> HIDE DEF R
<1>4. ASSUME NEW d \in R PROVE t.kids[d] \in Seq(R \ {Root})
  <2>1. t.kids[d] \in Seq(D \ {Root})
    BY <1>2, TreeParts
  <2>2. \A k \in 1 .. Len(t.kids[d]) : t.kids[d][k] \in R \ {Root}
    BY <1>3, <2>1
  <2>3. t.kids[d] \in [1 .. Len(t.kids[d]) -> R \ {Root}] /\ Len(t.kids[d]) \in Nat
    BY <2>1, <2>2
  <2> QED
    BY <2>3, SeqDef
<1> QED
  BY <1>2, <1>4 DEF R

\* Garbage takes nothing with it that counts.
LEMMA CollectSound ==
  ASSUME NEW t, Sound(t)
  PROVE  Sound(Collect(t))
<1> DEFINE u == Collect(t)
           R == Reachable(t)
<1>1. IsTree(t) /\ (NoBackslash => Named(t))
  BY DEF Sound
<1>2. /\ R \subseteq DOMAIN t.item /\ Root \in R
      /\ \A d \in R : t.kids[d] \in Seq(R \ {Root})
  BY <1>1, ReachableClosed
<1>3. u = [item |-> [i \in R |-> t.item[i]], kids |-> [i \in R |-> t.kids[i]]]
  BY DEF Collect
<1> HIDE DEF R, u
<1>4. u \in [item : [R -> Items], kids : [R -> Seq(R \ {Root})]]
  BY <1>1, <1>2, <1>3, TreeParts
<1>5. /\ DOMAIN u.item = R
      /\ \A i \in R : u.item[i] = t.item[i] /\ u.kids[i] = t.kids[i]
  BY <1>3
<1>6. IsTree(u)
  <2>1. R \subseteq Ids \cup {Root} /\ u.item[Root].kind = "dir"
    BY <1>1, <1>2, <1>5, TreeParts
  <2> QED
    BY <1>2, <1>4, <1>5, <2>1 DEF IsTree, Heaps
<1>7. ASSUME NoBackslash, NEW d \in R, NEW k \in DOMAIN u.kids[d]
      PROVE  NamedByPlace(u, d, u.item[u.kids[d][k]].name)
  <2>1. k \in DOMAIN t.kids[d] /\ t.kids[d][k] \in R
    BY <1>2, <1>5
  <2>2. NamedByPlace(t, d, t.item[t.kids[d][k]].name)
    BY <1>1, <1>2, <1>7, <2>1 DEF Named
  <2> QED
    BY <1>5, <2>1, <2>2 DEF NamedByPlace
<1>8. NoBackslash => Named(u)
  BY <1>5, <1>7 DEF Named
<1> QED
  BY <1>6, <1>8 DEF Sound, u

\* RemoveAll leaves a sound tree, whatever it finds to remove.
LEMMA RemoveAllSound ==
  ASSUME NEW t, Sound(t), NEW d \in DOMAIN t.item, NEW n,
         NEW u \in RemoveAll(t, d, n)
  PROVE  Sound(u)
<1> DEFINE D == DOMAIN t.item
           kept == {k \in DOMAIN t.kids[d] : t.item[t.kids[d][k]].name # n}
<1>1. IsTree(t) /\ (NoBackslash => Named(t))
  BY DEF Sound
<1>2. PICK s \in Selections(t.kids[d], kept) : u = Collect([t EXCEPT !.kids[d] = s])
  BY DEF RemoveAll
<1> DEFINE v == [t EXCEPT !.kids[d] = s]
<1>3. t.kids[d] \in Seq(D \ {Root})
  BY <1>1, TreeParts
<1>4. kept \in SUBSET DOMAIN t.kids[d]
  OBVIOUS
<1> HIDE DEF kept
<1>5. /\ s \in Seq(D \ {Root})
      /\ \A k \in DOMAIN s : \E j \in kept : s[k] = t.kids[d][j]
  BY <1>2, <1>3, <1>4, SelectionFromList
<1>6. t \in [item : [D -> Items], kids : [D -> Seq(D \ {Root})]]
  BY <1>1 DEF IsTree, Heaps
<1>7. v \in [item : [D -> Items], kids : [D -> Seq(D \ {Root})]]
  BY <1>5, <1>6
<1>8. v.item = t.item /\ v.kids = [t.kids EXCEPT ![d] = s]
  BY <1>6
<1> HIDE DEF v
<1>9. IsTree(v)
  BY <1>1, <1>7, <1>8 DEF IsTree, Heaps
<1>10. ASSUME NEW e \in D, NEW k \in DOMAIN v.kids[e]
       PROVE  \E j \in DOMAIN t.kids[e] : v.kids[e][k] = t.kids[e][j]
  BY <1>4, <1>5, <1>6, <1>8
<1>11. NoBackslash => Named(v)
  <2>1. ASSUME NoBackslash, NEW e \in D, NEW k \in DOMAIN v.kids[e]
        PROVE  NamedByPlace(v, e, v.item[v.kids[e][k]].name)
    <3>1. PICK j \in DOMAIN t.kids[e] : v.kids[e][k] = t.kids[e][j]
      BY <1>10
    <3>2. NamedByPlace(t, e, t.item[t.kids[e][j]].name)
      BY <1>1, <2>1 DEF Named
    <3> QED
      BY <1>8, <3>1, <3>2 DEF NamedByPlace
  <2> QED
    BY <1>8, <2>1 DEF Named
<1>12. Sound(v)
  BY <1>9, <1>11 DEF Sound
<1> QED
  BY <1>2, <1>12, CollectSound DEF v

----------------------------------------------------------------------------
(* Steps *)

\* The inductive invariant: both trees are sound, and a load that is not under
\* way has left nothing behind. TypeOK alone is not inductive: that the names
\* stay paths is, but that they follow the places needs both at every step.
PlainEntries(a) == \A k \in DOMAIN a : Plain(a[k].name)

IInv == /\ fs = NoFs \/ Sound(fs)
        /\ dst = NoFs \/ Sound(dst)
        /\ todo \in Seq(CpioNodes)
        /\ dst = NoFs => todo = <<>>
        /\ reply \in Statuses
        /\ NoBackslash => PlainEntries(todo)

LEMMA IInvMeaning == IInv => TypeOK /\ (NoBackslash => NamesFollowPlaces)
BY DEF IInv, TypeOK, NamesFollowPlaces, Trees, Sound, Named

\* Sound speaks of the tree alone.
LEMMA SoundNext ==
  /\ (fs = NoFs \/ Sound(fs))' <=> fs' = NoFs \/ Sound(fs')
  /\ (dst = NoFs \/ Sound(dst))' <=> dst' = NoFs \/ Sound(dst')
BY DEF Sound, Named, NamedByPlace, IsTree, NoBackslash, Plain

LEMMA PlainNext ==
  (NoBackslash => PlainEntries(todo))' <=> (NoBackslash => PlainEntries(todo'))
BY DEF NoBackslash, PlainEntries, Plain

\* The entries a load has before it.
LEMMA NothingPlain == PlainEntries(<<>>)
<1>1. DOMAIN <<>> = {}
  BY EmptySeq
<1> QED
  BY <1>1 DEF PlainEntries

LEMMA PlainTail ==
  ASSUME NEW s \in Seq(CpioNodes), s # <<>>, PlainEntries(s)
  PROVE  Plain(Head(s).name) /\ PlainEntries(Tail(s))
<1>1. Len(s) \in Nat /\ Len(s) > 0 /\ DOMAIN s = 1 .. Len(s)
  BY EmptySeq
<1>2. 1 \in DOMAIN s /\ Head(s) = s[1]
  BY <1>1
<1>3. \A k \in DOMAIN Tail(s) : k + 1 \in DOMAIN s /\ Tail(s)[k] = s[k + 1]
  BY <1>1
<1> QED
  BY <1>2, <1>3 DEF PlainEntries

\* The three ways in which a step of the script ends.
LEMMA RefuseKeeps ==
  ASSUME IInv, NEW s \in Statuses, Refuse(s)
  PROVE  IInv'
<1>1. (fs = NoFs \/ Sound(fs))' /\ (dst = NoFs \/ Sound(dst))'
  BY SoundNext DEF IInv, Refuse
<1> QED
  BY <1>1, PlainNext DEF IInv, Refuse

LEMMA ChangeKeeps ==
  ASSUME IInv, NEW t, Sound(t), Change(t)
  PROVE  IInv'
<1>1. (fs = NoFs \/ Sound(fs))' /\ (dst = NoFs \/ Sound(dst))'
  BY SoundNext DEF IInv, Change
<1> QED
  BY <1>1, PlainNext DEF IInv, Change, Statuses

LEMMA CrashKeeps ==
  ASSUME Crash
  PROVE  IInv'
BY EmptySeq, PlainNext, NothingPlain DEF IInv, Crash, Statuses

\* An item of the slot is replaced by one of its name and kind.
LEMMA PutKeeps ==
  ASSUME IInv, fs # NoFs, NEW p, Exists(fs, p), NEW x \in Items,
         x.name = At(p).name, x.kind = At(p).kind, Put(p, x)
  PROVE  IInv'
<1>1. Sound(fs) /\ IsTree(fs)
  BY DEF IInv, Sound
<1>2. GetElement(fs, p) \in DOMAIN fs.item
  BY <1>1, ElementFound DEF Exists
<1>3. Sound([fs EXCEPT !.item[GetElement(fs, p)] = x])
  BY <1>1, <1>2, UpdateSound DEF At
<1> QED
  BY <1>3, ChangeKeeps DEF Put

\* What stands at a path that exists is an item.
LEMMA AtItem ==
  ASSUME IInv, fs # NoFs, NEW p, Exists(fs, p)
  PROVE  At(p) \in Items
<1>1. IsTree(fs)
  BY DEF IInv, Sound
<1> QED
  BY <1>1, ElementFound, TreeParts DEF Exists, At

LEMMA AddOrUpdateKeeps ==
  ASSUME IInv, fs # NoFs, NEW p \in Names, NEW x \in Items, x.name = p,
         NoBackslash => Plain(p), AddOrUpdate(p, x)
  PROVE  IInv'
<1> DEFINE d == GetParentDirectory(fs, p)
<1>1. Sound(fs) /\ IsTree(fs)
  BY DEF IInv, Sound
<1>2. CASE Exists(fs, p) /\ At(p).kind = x.kind /\ Put(p, Overwrite(At(p), x))
  <2>1. /\ Overwrite(At(p), x) \in Items
        /\ Overwrite(At(p), x).name = At(p).name
        /\ Overwrite(At(p), x).kind = At(p).kind
    BY <1>2, AtItem DEF Overwrite, Items
  <2> QED
    BY <1>2, <2>1, PutKeeps
<1>3. CASE Refuse("Error")
  BY <1>3, RefuseKeeps DEF Statuses
<1>4. CASE Crash
  BY <1>4, CrashKeeps
<1>5. CASE d \notin {Throw, Null} /\ HasRoom(fs) /\ Change(AddItem(fs, d, x))
  <2>1. d \in DOMAIN fs.item /\ NamedByPlace(fs, d, Strip(x.name))
    BY <1>1, <1>5, ParentFound
  <2> HIDE DEF d
  <2>2. Sound(AddItem(fs, d, x))
    BY <1>1, <1>5, <2>1, AddItemSound
  <2> QED
    BY <1>5, <2>2, ChangeKeeps
<1> QED
  BY <1>2, <1>3, <1>4, <1>5 DEF AddOrUpdate

\* chmod and chown.
LEMMA UpdateKeeps ==
  ASSUME IInv, NEW p, NEW x, Update(p, x),
         fs # NoFs /\ Exists(fs, p) =>
           x \in Items /\ x.name = At(p).name /\ x.kind = At(p).kind
  PROVE  IInv'
<1>1. CASE Refuse("Error") \/ Refuse("Warning")
  BY <1>1, RefuseKeeps DEF Statuses
<1>2. CASE fs # NoFs /\ Exists(fs, p) /\ Put(p, x)
  BY <1>2, PutKeeps
<1> QED
  BY <1>1, <1>2 DEF Update

\* A step of a load that leaves the slot alone.
LEMMA LoadingKeeps ==
  ASSUME IInv, fs' = fs, reply' = reply, dst' # NoFs, Sound(dst'), todo' \in Seq(CpioNodes),
         NoBackslash => PlainEntries(todo')
  PROVE  IInv'
<1>1. (fs = NoFs \/ Sound(fs))'
  BY SoundNext DEF IInv
<1>2. (dst = NoFs \/ Sound(dst))'
  BY SoundNext
<1> QED
  BY <1>1, <1>2, PlainNext DEF IInv

\* The load: a tree of Root alone, the entries of the archive one by one, and
\* the tree moved to the slot.
LEMMA BeginLoadKeeps ==
  ASSUME IInv, NEW a \in Archives, BeginLoad(a)
  PROVE  IInv'
<1>1. NewRoot \in Items /\ NewRoot.kind = "dir"
  <2>1. Dot \in Names
    <3>1. DotName \in Components
      BY ComponentsAssumption
    <3>2. Dot \in Seq(Components) /\ Dot # <<>>
      BY <3>1 DEF Dot
    <3> QED
      BY <3>2 DEF Names
  <2>2. NewRoot.kind \in Kinds
    BY DEF NewRoot, Kinds
  <2> QED
    BY <2>1, <2>2, FsAssumption DEF NewRoot, Items, Data
<1>2. Sound(dst')
  BY <1>1, EmptyTreeSound DEF BeginLoad
<1>3. dst' # NoFs
  BY <1>2, FsAssumption DEF Sound, IsTree
<1>4. todo' \in Seq(CpioNodes)
  BY FsAssumption DEF BeginLoad
<1>5. fs' = fs /\ reply' = reply
  BY DEF BeginLoad
<1>6. NoBackslash => PlainEntries(todo')
  BY DEF BeginLoad, NoBackslash, PlainEntries
<1> QED
  BY <1>2, <1>3, <1>4, <1>5, <1>6, LoadingKeeps

LEMMA ReadEntryKeeps ==
  ASSUME IInv, ReadEntry
  PROVE  IInv'
<1> DEFINE e == Head(todo)
<1>1. CASE Crash
  BY <1>1, CrashKeeps
<1>2. CASE ~Crash
  <2>1. /\ Readable(dst, e) /\ (e.name # Dot => HasRoom(dst))
        /\ dst' = ReadOne(dst, e) /\ todo' = Tail(todo)
        /\ UNCHANGED <<fs, reply>>
    BY <1>2 DEF ReadEntry
  <2>2. dst # NoFs /\ todo # <<>>
    BY DEF ReadEntry, Ready
  <2>3. Sound(dst) /\ IsTree(dst) /\ todo \in Seq(CpioNodes)
    BY <2>2 DEF IInv, Sound
  <2>4. /\ e \in CpioNodes /\ Tail(todo) \in Seq(CpioNodes)
        /\ NoBackslash => Plain(e.name) /\ PlainEntries(Tail(todo))
    BY <2>2, <2>3, PlainTail DEF IInv
  <2> HIDE DEF e
  <2>5. ASSUME e.name = Dot PROVE Sound(ReadOne(dst, e))
    <3> DEFINE r == [dst.item[Root] EXCEPT !.mode = e.mode, !.user = e.user,
                                           !.group = e.group]
    <3>1. Root \in DOMAIN dst.item /\ dst.item[Root] \in Items
      BY <2>3, TreeParts
    <3>2. r \in Items /\ r.name = dst.item[Root].name /\ r.kind = dst.item[Root].kind
      BY <2>4, <3>1 DEF Items, CpioNodes
    <3>3. ReadOne(dst, e) = [dst EXCEPT !.item[Root] = r]
      BY <2>5, <3>1, <2>3 DEF ReadOne, IsTree, Heaps, Items
    <3> HIDE DEF r
    <3>4. Sound([dst EXCEPT !.item[Root] = r])
      BY <2>3, <3>1, <3>2, UpdateSound
    <3> QED
      BY <3>3, <3>4
  <2>6. ASSUME e.name # Dot PROVE Sound(ReadOne(dst, e))
    <3>1. e \in Items /\ e.name \in Names
      BY <2>1, <2>4, <2>6 DEF Readable, CpioNodes, Items
    <3>2. /\ GetParentDirectory(dst, e.name) \in DOMAIN dst.item
          /\ NamedByPlace(dst, GetParentDirectory(dst, e.name), Strip(e.name))
      BY <2>1, <2>3, <2>6, <3>1, ParentFound DEF Readable
    <3>3. Sound(AddItem(dst, GetParentDirectory(dst, e.name), e))
      BY <2>1, <2>3, <2>4, <2>6, <3>1, <3>2, AddItemSound
    <3> QED
      BY <2>6, <3>3 DEF ReadOne
  <2>7. Sound(dst')
    BY <2>5, <2>6, <2>1
  <2>8. dst' # NoFs
    BY <2>7, FsAssumption DEF Sound, IsTree
  <2> QED
    BY <2>1, <2>4, <2>7, <2>8, LoadingKeeps
<1> QED
  BY <1>1, <1>2

LEMMA EndLoadKeeps ==
  ASSUME IInv, EndLoad
  PROVE  IInv'
<1>1. fs' = fs \/ fs' = dst
  BY DEF EndLoad
<1>2. dst # NoFs /\ dst' = NoFs /\ todo' = <<>> /\ reply' \in Statuses
  BY DEF EndLoad, Ready, Statuses
<1>3. fs' = NoFs \/ Sound(fs')
  BY <1>1, <1>2 DEF IInv
<1> QED
  BY <1>2, <1>3, EmptySeq, SoundNext, PlainNext, NothingPlain DEF IInv

\* rm, and the content of a file.
LEMMA RmKeeps ==
  ASSUME IInv, NEW p \in Names, Rm(p)
  PROVE  IInv'
<1> DEFINE d == GetParentDirectory(fs, p)
<1>1. CASE Refuse("Error") \/ Refuse("Warning")
  BY <1>1, RefuseKeeps DEF Statuses
<1>2. CASE Crash
  BY <1>2, CrashKeeps
<1>3. CASE fs # NoFs /\ d \notin {Throw, Null} /\ \E t \in RemoveAll(fs, d, p) : Change(t)
  <2>1. PICK t \in RemoveAll(fs, d, p) : Change(t)
    BY <1>3
  <2>2. Sound(fs) /\ IsTree(fs)
    BY <1>3 DEF IInv, Sound
  <2>3. d \in DOMAIN fs.item
    BY <1>3, <2>2, ParentFound
  <2> HIDE DEF d
  <2>4. Sound(t)
    BY <2>1, <2>2, <2>3, RemoveAllSound
  <2> QED
    BY <2>1, <2>4, ChangeKeeps
<1> QED
  BY <1>1, <1>2, <1>3 DEF Rm

LEMMA FileContentKeeps ==
  ASSUME IInv, NEW p \in Names, NEW c \in Contents \cup {NoFile}, FileContent(p, c)
  PROVE  IInv'
<1>1. CASE Refuse("Error")
  BY <1>1, RefuseKeeps DEF Statuses
<1>2. CASE Crash
  BY <1>2, CrashKeeps
<1>3. CASE fs # NoFs /\ c # NoFile /\ Exists(fs, p) /\ Put(p, [At(p) EXCEPT !.data = c])
  <2>1. At(p) \in Items
    BY <1>3, AtItem
  <2>2. /\ [At(p) EXCEPT !.data = c] \in Items
        /\ [At(p) EXCEPT !.data = c].name = At(p).name
        /\ [At(p) EXCEPT !.data = c].kind = At(p).kind
    BY <1>3, <2>1 DEF Items, Data
  <2> QED
    BY <1>3, <2>2, PutKeeps
<1> QED
  BY <1>1, <1>2, <1>3 DEF FileContent

LEMMA StepKeeps ==
  ASSUME IInv, [Next]_vars
  PROVE  IInv'
<1>1. CASE UNCHANGED vars
  <2>1. (fs = NoFs \/ Sound(fs))' /\ (dst = NoFs \/ Sound(dst))'
    BY <1>1, SoundNext DEF IInv, vars
  <2> QED
    BY <1>1, <2>1, PlainNext DEF IInv, vars
<1>2. ASSUME NEW a \in Archives, BeginLoad(a) PROVE IInv'
  BY <1>2, BeginLoadKeeps
<1>3. CASE ReadEntry
  BY <1>3, ReadEntryKeeps
<1>4. CASE EndLoad
  BY <1>4, EndLoadKeeps
<1>5. CASE Store
  <2>1. Refuse("Ok") \/ Refuse("Error")
    BY <1>5 DEF Store
  <2> QED
    BY <2>1, RefuseKeeps DEF Statuses
<1>6. ASSUME NEW p \in FsPaths, NEW m \in Modes, NEW u \in Owners, NEW g \in Owners
      PROVE  /\ Dir(p, m, u, g) => IInv'
             /\ \A c \in Contents \cup {NoFile} : File(p, c, m, u, g) => IInv'
             /\ \A c \in Targets : SLink(p, c, m, u, g) => IInv'
  <2>1. p \in Names /\ (NoBackslash => Plain(p))
    BY FsAssumption DEF NoBackslash
  <2>2. ASSUME NEW k \in Kinds, NEW c \in Data
        PROVE  Item(p, k, m, u, g, c) \in Items /\ Item(p, k, m, u, g, c).name = p
    BY <2>1, <1>6 DEF Item, Items
  <2>3. ASSUME NEW k \in Kinds, NEW c \in Data, fs # NoFs,
               AddOrUpdate(p, Item(p, k, m, u, g, c))
        PROVE  IInv'
    BY <2>1, <2>2, <2>3, AddOrUpdateKeeps
  <2>4. Refuse("Error") => IInv'
    BY RefuseKeeps DEF Statuses
  <2>5. "dir" \in Kinds /\ "file" \in Kinds /\ "link" \in Kinds
    BY DEF Kinds
  <2>6. /\ NoData \in Data
        /\ \A c \in Contents \cup {NoFile} : c # NoFile => c \in Data
        /\ \A c \in Targets : c \in Data
    BY DEF Data
  <2>7. Dir(p, m, u, g) => IInv'
    BY <2>3, <2>4, <2>5, <2>6 DEF Dir
  <2>8. ASSUME NEW c \in Contents \cup {NoFile}, File(p, c, m, u, g) PROVE IInv'
    BY <2>3, <2>4, <2>5, <2>6, <2>8 DEF File
  <2>9. ASSUME NEW c \in Targets, SLink(p, c, m, u, g) PROVE IInv'
    BY <2>3, <2>4, <2>5, <2>6, <2>9 DEF SLink
  <2> QED
    BY <2>7, <2>8, <2>9
<1>7. ASSUME NEW p \in FsPaths
      PROVE  /\ \A c \in Contents \cup {NoFile} : FileContent(p, c) => IInv'
             /\ Rm(p) => IInv'
             /\ \A m \in Modes : ChMod(p, m) => IInv'
             /\ \A u \in Owners : /\ ChOwnUser(p, u) => IInv'
                                  /\ \A g \in Owners : ChOwn(p, u, g) => IInv'
  <2>1. p \in Names
    BY FsAssumption
  <2>2. fs # NoFs /\ Exists(fs, p) => At(p) \in Items
    BY AtItem
  <2>3. ASSUME NEW c \in Contents \cup {NoFile}, FileContent(p, c) PROVE IInv'
    BY <2>1, <2>3, FileContentKeeps
  <2>4. Rm(p) => IInv'
    BY <2>1, RmKeeps
  <2>5. ASSUME NEW m \in Modes, ChMod(p, m) PROVE IInv'
    BY <2>2, <2>5, UpdateKeeps DEF ChMod, Items
  <2>6. ASSUME NEW u \in Owners, ChOwnUser(p, u) PROVE IInv'
    BY <2>2, <2>6, UpdateKeeps DEF ChOwnUser, Items
  <2>7. ASSUME NEW u \in Owners, NEW g \in Owners, ChOwn(p, u, g) PROVE IInv'
    BY <2>2, <2>7, UpdateKeeps DEF ChOwn, Items
  <2> QED
    BY <2>3, <2>4, <2>5, <2>6, <2>7
<1> QED
  BY <1>1, <1>2, <1>3, <1>4, <1>5, <1>6, <1>7 DEF Next

----------------------------------------------------------------------------
(* Theorems *)

LEMMA Invariance == Spec => []IInv
<1>1. Init => IInv
  BY EmptySeq, NothingPlain DEF Init, IInv, Statuses
<1>2. IInv /\ [Next]_vars => IInv'
  BY StepKeeps
<1> QED
  BY <1>1, <1>2, PTL DEF Spec

\* The slot and the tree a load is filling are always well-formed heaps: every
\* list holds only objects that are there, Root stays a directory, and a load
\* that failed leaves no entries behind.
THEOREM TypeCorrect == Spec => []TypeOK
<1>1. IInv => TypeOK
  BY IInvMeaning
<1> QED
  BY <1>1, Invariance, PTL

\* Whatever archives are loaded and whatever the script does, the full path an
\* item carries as its name agrees with the directory that lists it, if no path
\* begins with a backslash (FilesystemItem.cs:13): an item made as "\a/b" is named
\* a/b and stands in the directory \a.
THEOREM NamesAgree ==
  ASSUME NoBackslash
  PROVE  Spec => []NamesFollowPlaces
<1>1. IInv => NamesFollowPlaces
  BY IInvMeaning
<1> QED
  BY <1>1, Invariance, PTL

----------------------------------------------------------------------------
(* Induction, over sets of numbers *)

LEMMA AllNumbers ==
  ASSUME NEW S, 0 \in S, \A n \in Nat : n \in S => n + 1 \in S
  PROVE  \A n \in Nat : n \in S
<1> DEFINE T == {n \in Nat : n \notin S}
<1>1. SUFFICES ASSUME T # {} PROVE FALSE
  OBVIOUS
<1>2. PICK m \in T : \A j \in T : m <= j
  BY <1>1, FirstPosition
<1>3. m \in Nat /\ m \notin S /\ m # 0
  BY <1>2
<1>4. m - 1 \in Nat /\ m - 1 + 1 = m /\ ~(m <= m - 1)
  BY <1>3
<1>5. m - 1 \in S
  BY <1>2, <1>4
<1> QED
  BY <1>3, <1>4, <1>5

\* All numbers, when each is in S that has all smaller ones in S.
LEMMA AllLengths ==
  ASSUME NEW S, \A n \in Nat : (\A m \in Nat : m < n => m \in S) => n \in S
  PROVE  \A n \in Nat : n \in S
<1> DEFINE T == {n \in Nat : n \notin S}
<1>1. SUFFICES ASSUME T # {} PROVE FALSE
  OBVIOUS
<1>2. PICK m \in T : \A j \in T : m <= j
  BY <1>1, FirstPosition
<1>3. \A j \in Nat : j < m => j \in S
  BY <1>2
<1> QED
  BY <1>2, <1>3

----------------------------------------------------------------------------
(* The walk from Root *)

\* One step of the walk: the directory of name n in the directory b.
Below(t, b, n) ==
  LET i == Child(t, b, n)
  IN  IF i # Throw /\ IsDir(t, i) THEN i ELSE Throw

\* f is the walk along the first n components of q.
Walk(t, q, f, n) ==
  f = [k \in 0 .. n |-> IF k = 0 THEN Root
                        ELSE Below(t, f[k - 1], SubSeq(q, 1, k))]

LEMMA WalkExists ==
  ASSUME NEW t, NEW q
  PROVE  \A n \in Nat : \E f : Walk(t, q, f, n)
<1> DEFINE S == {n \in Nat : \E f : Walk(t, q, f, n)}
<1>1. 0 \in S
  <2> DEFINE f == [k \in 0 .. 0 |-> Root]
  <2>1. Walk(t, q, f, 0)
    BY DEF Walk
  <2> QED
    BY <2>1
<1>2. ASSUME NEW n \in Nat, n \in S PROVE n + 1 \in S
  <2>1. PICK f : Walk(t, q, f, n)
    BY <1>2
  <2> DEFINE g == [k \in 0 .. n + 1 |-> IF k = n + 1 THEN Below(t, f[n], SubSeq(q, 1, n + 1))
                                        ELSE f[k]]
  <2>2. \A k \in 0 .. n : f[k] = IF k = 0 THEN Root ELSE Below(t, f[k - 1], SubSeq(q, 1, k))
    BY <2>1 DEF Walk
  <2>3. \A k \in 0 .. n + 1 : g[k] = IF k = 0 THEN Root ELSE Below(t, g[k - 1], SubSeq(q, 1, k))
    BY <2>2
  <2>4. g = [k \in 0 .. n + 1 |-> g[k]]
    OBVIOUS
  <2>5. Walk(t, q, g, n + 1)
    BY <2>3, <2>4 DEF Walk
  <2> QED
    BY <2>5
<1>3. \A n \in Nat : n \in S
  BY <1>1, <1>2, AllNumbers
<1> QED
  BY <1>3

\* Base is where the walk along all components but the last ends.
LEMMA BaseOfWalk ==
  ASSUME NEW t, NEW q, Len(q) - 1 \in Nat
  PROVE  \E f : Walk(t, q, f, Len(q) - 1) /\ Base(t, q) = f[Len(q) - 1]
<1> DEFINE n == Len(q) - 1
           at == CHOOSE f : Walk(t, q, f, n)
<1>1. Walk(t, q, at, n)
  BY WalkExists
<1>2. Base(t, q) = at[n]
  BY DEF Base, Walk, Below
<1> QED
  BY <1>1, <1>2

\* What a walk consists of.
LEMMA WalkParts ==
  ASSUME NEW t, NEW q, NEW n \in Nat, NEW f, Walk(t, q, f, n)
  PROVE  /\ f[0] = Root
         /\ \A k \in 1 .. n : f[k] = Below(t, f[k - 1], SubSeq(q, 1, k))
BY DEF Walk

\* Two walks that agree on each next step, when they agree so far, agree.
LEMMA WalksAgree ==
  ASSUME NEW f, NEW g, NEW n \in Nat, f[0] = g[0],
         \A k \in 1 .. n : f[k - 1] = g[k - 1] => f[k] = g[k]
  PROVE  \A k \in 0 .. n : f[k] = g[k]
<1> DEFINE S == {k \in Nat : k <= n => f[k] = g[k]}
<1>1. 0 \in S
  OBVIOUS
<1>2. ASSUME NEW k \in Nat, k \in S PROVE k + 1 \in S
  <2>1. k + 1 - 1 = k
    OBVIOUS
  <2>2. k + 1 <= n => f[k] = g[k] /\ k + 1 \in 1 .. n
    BY <1>2
  <2>3. k + 1 <= n => f[k + 1] = g[k + 1]
    BY <2>1, <2>2
  <2> QED
    BY <2>3
<1>3. \A k \in Nat : k \in S
  BY <1>1, <1>2, AllNumbers
<1> QED
  BY <1>3

\* The start of a path.
LEMMA PathParts ==
  ASSUME NEW q \in Names
  PROVE  q \in Seq(Components) /\ Len(q) \in Nat /\ Len(q) > 0 /\ Head(q) = q[1]
BY EmptySeq DEF Names

LEMMA StartOfParent ==
  ASSUME NEW q \in Names, Len(q) > 1, NEW k \in 1 .. Len(q) - 1
  PROVE  SubSeq(ParentPath(q), 1, k) = SubSeq(q, 1, k)
<1>1. q \in Seq(Components) /\ Len(q) \in Nat
  BY PathParts
<1>2. /\ ParentPath(q) \in Seq(Components) /\ Len(ParentPath(q)) = Len(q) - 1
      /\ \A i \in 1 .. Len(q) - 1 : ParentPath(q)[i] = q[i]
  BY ParentComponents
<1>3. \A i \in 1 .. k : q[i] \in Components /\ ParentPath(q)[i] \in Components
  BY <1>1, <1>2
<1>4. /\ SubSeq(q, 1, k) \in Seq(Components) /\ Len(SubSeq(q, 1, k)) = k
      /\ \A i \in 1 .. k : SubSeq(q, 1, k)[i] = q[i]
  BY <1>1, <1>3, SubSeqProperties
<1>5. /\ SubSeq(ParentPath(q), 1, k) \in Seq(Components)
      /\ Len(SubSeq(ParentPath(q), 1, k)) = k
      /\ \A i \in 1 .. k : SubSeq(ParentPath(q), 1, k)[i] = ParentPath(q)[i]
  BY <1>1, <1>2, <1>3, SubSeqProperties
<1>6. \A i \in 1 .. k : SubSeq(ParentPath(q), 1, k)[i] = SubSeq(q, 1, k)[i]
  BY <1>2, <1>4, <1>5
<1> QED
  BY <1>4, <1>5, <1>6, SeqEqual

\* A path of one component is looked up in Root, a longer one in what stands at
\* its parent.
LEMMA BaseOfOne ==
  ASSUME NEW t, NEW q \in Names, Len(q) = 1
  PROVE  Base(t, q) = Root
<1>1. Len(q) - 1 = 0 /\ 0 \in Nat
  OBVIOUS
<1>2. PICK f : Walk(t, q, f, 0) /\ Base(t, q) = f[0]
  BY <1>1, BaseOfWalk
<1> QED
  BY <1>2, WalkParts

LEMMA BaseOfMore ==
  ASSUME NEW t, NEW q \in Names, Len(q) > 1
  PROVE  Base(t, q) = Below(t, Base(t, ParentPath(q)), ParentPath(q))
<1> DEFINE r == ParentPath(q)
           n == Len(r) - 1
<1>1. /\ Len(q) \in Nat /\ r \in Seq(Components) /\ Len(r) = Len(q) - 1
      /\ n \in Nat /\ Len(q) - 1 = n + 1 /\ Len(r) = n + 1
  BY PathParts, ParentComponents
<1>2. ParentPath(q) = SubSeq(q, 1, Len(q) - 1)
  BY PathParts, OneOrMore DEF ParentPath
<1>0. n \in Nat /\ n + 1 \in Nat
  BY <1>1
<1> HIDE DEF r, n
<1>3. PICK f : Walk(t, q, f, n + 1) /\ Base(t, q) = f[n + 1]
  BY <1>1, BaseOfWalk
<1>4. PICK g : Walk(t, r, g, n) /\ Base(t, r) = g[n]
  BY <1>1, BaseOfWalk DEF n
<1>5. f[0] = Root /\ \A k \in 1 .. n + 1 : f[k] = Below(t, f[k - 1], SubSeq(q, 1, k))
  <2>1. ASSUME NEW m \in Nat, Walk(t, q, f, m)
        PROVE  f[0] = Root /\ \A k \in 1 .. m : f[k] = Below(t, f[k - 1], SubSeq(q, 1, k))
    BY <2>1, WalkParts
  <2> QED
    BY <1>0, <1>3, <2>1
<1>6. g[0] = Root /\ \A k \in 1 .. n : g[k] = Below(t, g[k - 1], SubSeq(r, 1, k))
  BY <1>0, <1>4, WalkParts
<1>7. \A k \in 1 .. n : SubSeq(r, 1, k) = SubSeq(q, 1, k)
  BY <1>1, StartOfParent DEF r
<1>8. \A k \in 1 .. n : k \in 1 .. n + 1
  BY <1>1
<1>9. \A k \in 1 .. n : f[k - 1] = g[k - 1] => f[k] = g[k]
  BY <1>5, <1>6, <1>7, <1>8
<1>10. f[n] = g[n]
  <2>1. f[0] = g[0]
    BY <1>5, <1>6
  <2>2. \A k \in 0 .. n : f[k] = g[k]
    BY <1>0, <2>1, <1>9, WalksAgree
  <2>3. n \in 0 .. n
    BY <1>0
  <2> QED
    BY <2>2, <2>3
<1>11. n + 1 \in 1 .. n + 1 /\ (n + 1) - 1 = n
  BY <1>0
<1>12. f[n + 1] = Below(t, f[n], SubSeq(q, 1, n + 1))
  <2>1. f[n + 1] = Below(t, f[(n + 1) - 1], SubSeq(q, 1, n + 1))
    BY <1>5, <1>11
  <2> QED
    BY <2>1, <1>11
<1> QED
  BY <1>1, <1>2, <1>3, <1>4, <1>10, <1>12 DEF r

----------------------------------------------------------------------------
(* What a search of a directory finds *)

\* The first item of its name.
IsFirst(t, d, k) ==
  /\ d \in DOMAIN t.item /\ k \in DOMAIN t.kids[d]
  /\ \A j \in DOMAIN t.kids[d] :
       t.item[t.kids[d][j]].name = t.item[t.kids[d][k]].name => k <= j

LEMMA ChildIsFirst ==
  ASSUME NEW t, IsTree(t), NEW d, NEW n, Child(t, d, n) # Throw
  PROVE  \E k \in Nat : /\ IsFirst(t, d, k) /\ t.kids[d][k] = Child(t, d, n)
                        /\ t.item[t.kids[d][k]].name = n
<1> DEFINE places == {k \in DOMAIN t.kids[d] : t.item[t.kids[d][k]].name = n}
<1>1. d \in DOMAIN t.kids /\ places # {}
  BY DEF Child
<1>2. d \in DOMAIN t.item /\ t.kids[d] \in Seq(DOMAIN t.item \ {Root})
  BY <1>1, TreeParts
<1>3. places \in SUBSET Nat
  BY <1>2
<1>4. PICK k \in places : \A j \in places : k <= j
  BY <1>1, <1>3, FirstPosition
<1> DEFINE c == CHOOSE m \in places : \A j \in places : m <= j
<1>5. c \in places /\ \A j \in places : c <= j
  BY <1>4
<1>6. Child(t, d, n) = t.kids[d][c]
  BY <1>1 DEF Child
<1> HIDE DEF c
<1>7. c \in DOMAIN t.kids[d] /\ t.item[t.kids[d][c]].name = n
  BY <1>5
<1>8. IsFirst(t, d, c)
  BY <1>2, <1>5, <1>7 DEF IsFirst
<1>9. c \in Nat
  BY <1>3, <1>5
<1> QED
  BY <1>6, <1>7, <1>8, <1>9

LEMMA FirstIsChild ==
  ASSUME NEW t, IsTree(t), NEW d, NEW k, IsFirst(t, d, k)
  PROVE  Child(t, d, t.item[t.kids[d][k]].name) = t.kids[d][k]
<1> DEFINE n == t.item[t.kids[d][k]].name
           places == {j \in DOMAIN t.kids[d] : t.item[t.kids[d][j]].name = n}
           c == CHOOSE m \in places : \A j \in places : m <= j
<1>1. d \in DOMAIN t.kids /\ k \in places /\ \A j \in places : k <= j
  BY TreeParts DEF IsFirst
<1>2. t.kids[d] \in Seq(DOMAIN t.item \ {Root})
  BY TreeParts DEF IsFirst
<1>3. places \subseteq Nat
  BY <1>2
<1>4. c \in places /\ \A j \in places : c <= j
  BY <1>1
<1>5. Child(t, d, n) = t.kids[d][c]
  BY <1>1 DEF Child
<1> HIDE DEF c, places, n
<1>6. c <= k /\ k <= c /\ c \in Nat /\ k \in Nat
  BY <1>1, <1>3, <1>4
<1>7. c = k
  BY <1>6
<1> QED
  BY <1>5, <1>7 DEF n

\* A directory that has an item of a name does not answer that it has none.
LEMMA ListedIsFound ==
  ASSUME NEW t, IsTree(t), NEW d \in DOMAIN t.item, NEW k \in DOMAIN t.kids[d]
  PROVE  Child(t, d, t.item[t.kids[d][k]].name) # Throw
<1> DEFINE n == t.item[t.kids[d][k]].name
           places == {j \in DOMAIN t.kids[d] : t.item[t.kids[d][j]].name = n}
<1>1. t.kids[d] \in Seq(DOMAIN t.item \ {Root}) /\ DOMAIN t.kids = DOMAIN t.item
  BY TreeParts
<1>2. places \in SUBSET Nat /\ places # {}
  BY <1>1
<1>3. PICK c \in places : \A j \in places : c <= j
  BY <1>2, FirstPosition
<1>4. t.item[t.kids[d][c]].name = n /\ c \in DOMAIN t.kids[d]
  BY <1>3
<1>5. IsFirst(t, d, c)
  BY <1>3, <1>4 DEF IsFirst
<1> HIDE DEF n, places
<1>6. Child(t, d, n) = t.kids[d][c]
  BY <1>4, <1>5, FirstIsChild
<1>7. t.kids[d][c] \in DOMAIN t.item
  BY <1>1, <1>4
<1> QED
  BY <1>6, <1>7, TreeParts DEF n

----------------------------------------------------------------------------
(* The names an item can have *)

\* A path that is neither "." nor begins with a slash.
Proper(n) == n \in Names /\ n[1] # Blank /\ n # Dot

ProperNames(t) == /\ t.item[Root].name = Dot
                  /\ \A i \in DOMAIN t.item \ {Root} : Proper(t.item[i].name)

LEMMA DotParts == Dot \in Names /\ Len(Dot) = 1 /\ Dot[1] = DotName /\ Strip(Dot) = Dot
<1>1. DotName \in Components
  BY ComponentsAssumption
<1>2. Dot \in Seq(Components) /\ Dot # <<>> /\ Len(Dot) = 1 /\ Dot[1] = DotName
  BY <1>1 DEF Dot
<1> QED
  BY <1>2 DEF Names, Strip

LEMMA EmptyParts == Empty \in Names /\ Len(Empty) = 1 /\ Empty[1] = Blank
<1>1. Blank \in Components
  BY ComponentsAssumption
<1>2. Empty \in Seq(Components) /\ Empty # <<>> /\ Len(Empty) = 1 /\ Empty[1] = Blank
  BY <1>1 DEF Empty
<1> QED
  BY <1>2 DEF Names

\* It has no slash to drop, and is looked up as it is.
LEMMA ProperLookup ==
  ASSUME NEW n, Proper(n)
  PROVE  /\ Strip(n) = n /\ n # Empty
         /\ \A t : GetElement(t, n) = Child(t, Base(t, n), n)
<1>1. Head(n) = n[1]
  BY PathParts DEF Proper
<1>2. Strip(n) = n
  BY <1>1 DEF Strip, Proper
<1>3. n # Empty /\ n # Dot
  BY EmptyParts DEF Proper
<1> QED
  BY <1>2, <1>3 DEF GetElement

\* A leading slash makes no difference to GetElement.
LEMMA SameElement ==
  ASSUME NEW t, NEW p \in Names, p # Dot, p # Empty, Proper(Strip(p))
  PROVE  GetElement(t, p) = GetElement(t, Strip(p))
BY ProperLookup DEF GetElement

\* A path with a slash leads through the directory that stands at its parent.
LEMMA ThroughParent ==
  ASSUME NEW t, IsTree(t), ProperNames(t), NEW q, Proper(q), Len(q) > 1,
         Base(t, q) # Throw
  PROVE  /\ Proper(ParentPath(q))
         /\ Base(t, q) = GetElement(t, ParentPath(q))
         /\ Base(t, q) \in DOMAIN t.item \ {Root}
         /\ IsDir(t, Base(t, q))
         /\ t.item[Base(t, q)].name = ParentPath(q)
<1> DEFINE r == ParentPath(q)
           i == Child(t, Base(t, r), r)
<1>1. q \in Names
  BY DEF Proper
<1>2. Base(t, q) = i /\ i # Throw /\ IsDir(t, i)
  BY <1>1, BaseOfMore DEF Below
<1>3. i \in DOMAIN t.item \ {Root} /\ t.item[i].name = r
  BY <1>2, ChildFound
<1>4. Proper(r)
  BY <1>3 DEF ProperNames
<1>5. GetElement(t, r) = i
  BY <1>4, ProperLookup
<1> QED
  BY <1>2, <1>3, <1>4, <1>5

\* The other way round.
LEMMA ThroughDirectory ==
  ASSUME NEW t, NEW q \in Names, Len(q) > 1, Proper(ParentPath(q)),
         GetElement(t, ParentPath(q)) # Throw,
         IsDir(t, GetElement(t, ParentPath(q)))
  PROVE  Base(t, q) = GetElement(t, ParentPath(q))
BY BaseOfMore, ProperLookup DEF Below

----------------------------------------------------------------------------
(* A lookup finds what it found before *)

\* u has the directories of t, and every search of one of them that finds an
\* item finds it in u.
FindsAsBefore(t, u) ==
  \A d \in DOMAIN t.item :
    /\ d \in DOMAIN u.item
    /\ IsDir(t, d) => IsDir(u, d)
    /\ \A n : Child(t, d, n) # Throw => Child(u, d, n) = Child(t, d, n)

LEMMA SameBase ==
  ASSUME NEW t, IsTree(t), NEW u, FindsAsBefore(t, u)
  PROVE  \A q \in Names : Base(t, q) # Throw => /\ Base(t, q) \in DOMAIN t.item
                                                /\ Base(u, q) = Base(t, q)
<1> DEFINE S == {n \in Nat : \A q \in Names : Len(q) = n /\ Base(t, q) # Throw =>
                               Base(t, q) \in DOMAIN t.item /\ Base(u, q) = Base(t, q)}
<1>1. ASSUME NEW n \in Nat, \A m \in Nat : m < n => m \in S
      PROVE  n \in S
  <2>1. ASSUME NEW q \in Names, Len(q) = n, Base(t, q) # Throw
        PROVE  Base(t, q) \in DOMAIN t.item /\ Base(u, q) = Base(t, q)
    <3>1. CASE n = 1
      BY <2>1, <3>1, BaseOfOne, TreeParts
    <3>2. CASE n > 1
      <4> DEFINE r == ParentPath(q)
                 i == Child(t, Base(t, r), r)
      <4>1. r \in Names /\ Len(r) = n - 1
        BY <2>1, <3>2, PathTypes, ParentComponents
      <4>2. Base(t, q) = i /\ i # Throw /\ IsDir(t, i)
        BY <2>1, <3>2, BaseOfMore DEF Below
      <4>3. Base(t, r) # Throw
        <5>1. Throw \notin DOMAIN t.kids
          BY TreeParts
        <5> QED
          BY <4>2, <5>1 DEF Child
      <4>4. n - 1 \in S
        BY <1>1, <3>2
      <4>5. Base(t, r) \in DOMAIN t.item /\ Base(u, r) = Base(t, r)
        BY <4>1, <4>3, <4>4
      <4>6. Child(u, Base(u, r), r) = i
        BY <4>2, <4>5 DEF FindsAsBefore
      <4>7. i \in DOMAIN t.item
        BY <4>2, ChildFound
      <4>8. IsDir(u, i)
        BY <4>2, <4>7 DEF FindsAsBefore
      <4>9. Base(u, q) = Below(u, Base(u, r), r)
        BY <2>1, <3>2, BaseOfMore
      <4> QED
        BY <4>2, <4>6, <4>7, <4>8, <4>9 DEF Below
    <3> QED
      BY <2>1, <3>1, <3>2, PathParts, OneOrMore
  <2> QED
    BY <2>1
<1> HIDE DEF S
<1>2. \A n \in Nat : n \in S
  BY <1>1, AllLengths
<1>3. \A q \in Names : Len(q) \in S
  BY <1>2, PathParts
<1> QED
  BY <1>3 DEF S

LEMMA SameFind ==
  ASSUME NEW t, IsTree(t), NEW u, FindsAsBefore(t, u),
         NEW p \in Names, GetElement(t, p) # Throw
  PROVE  GetElement(u, p) = GetElement(t, p)
<1>1. CASE p = Dot
  BY <1>1 DEF GetElement
<1>2. CASE p # Dot
  <2> DEFINE q == Strip(p)
  <2>1. /\ p # Empty /\ q \in Names
        /\ GetElement(t, p) = Child(t, Base(t, q), q)
        /\ GetElement(u, p) = Child(u, Base(u, q), q)
    BY <1>2, PathTypes DEF GetElement
  <2>2. Base(t, q) # Throw
    <3>1. Throw \notin DOMAIN t.kids
      BY TreeParts
    <3> QED
      BY <2>1, <3>1 DEF Child
  <2>3. Base(t, q) \in DOMAIN t.item /\ Base(u, q) = Base(t, q)
    BY <2>1, <2>2, SameBase
  <2> HIDE DEF q
  <2>4. Child(u, Base(t, q), q) = Child(t, Base(t, q), q)
    BY <2>1, <2>3 DEF FindsAsBefore
  <2> QED
    BY <2>1, <2>3, <2>4
<1> QED
  BY <1>1, <1>2

\* Neither new attributes of an item nor a new item hide one that was found.
LEMMA UpdateFinds ==
  ASSUME NEW t, IsTree(t), NEW e \in DOMAIN t.item, NEW x,
         x.name = t.item[e].name, x.kind = t.item[e].kind
  PROVE  FindsAsBefore(t, [t EXCEPT !.item[e] = x])
<1> DEFINE u == [t EXCEPT !.item[e] = x]
           D == DOMAIN t.item
<1>1. t \in [item : [D -> Items], kids : [D -> Seq(D \ {Root})]]
  BY DEF IsTree, Heaps
<1>2. DOMAIN u.item = D /\ u.kids = t.kids /\ u.item = [t.item EXCEPT ![e] = x]
  BY <1>1
<1>3. \A i \in D : u.item[i].name = t.item[i].name /\ u.item[i].kind = t.item[i].kind
  BY <1>1, <1>2
<1> HIDE DEF u
<1>4. ASSUME NEW d \in D, NEW n PROVE Child(u, d, n) = Child(t, d, n)
  <2>1. \A k \in DOMAIN t.kids[d] : t.kids[d][k] \in D
    BY <1>1
  <2> DEFINE places(v) == {k \in DOMAIN v.kids[d] : v.item[v.kids[d][k]].name = n}
             first(s, P) == s[CHOOSE k \in P : \A j \in P : k <= j]
  <2>2. places(u) = places(t)
    BY <1>2, <1>3, <2>1
  <2>3. Child(u, d, n) = IF d \notin DOMAIN u.kids \/ places(u) = {} THEN Throw
                         ELSE first(u.kids[d], places(u))
    BY DEF Child
  <2>4. Child(t, d, n) = IF d \notin DOMAIN t.kids \/ places(t) = {} THEN Throw
                         ELSE first(t.kids[d], places(t))
    BY DEF Child
  <2> HIDE DEF places, first
  <2> QED
    BY <1>2, <2>2, <2>3, <2>4
<1>5. FindsAsBefore(t, u)
  BY <1>2, <1>3, <1>4 DEF FindsAsBefore, IsDir
<1> QED
  BY <1>5 DEF u

\* The object a new item gets.
Fresh(t) == CHOOSE n \in Ids : n \notin DOMAIN t.item

LEMMA AddItemParts ==
  ASSUME NEW t, IsTree(t), HasRoom(t), NEW d \in DOMAIN t.item, NEW x \in Items
  PROVE  /\ Fresh(t) \in Ids /\ Fresh(t) \notin DOMAIN t.item /\ Fresh(t) # Root
         /\ DOMAIN AddItem(t, d, x).item = DOMAIN t.item \cup {Fresh(t)}
         /\ Plain(x.name) => AddItem(t, d, x).item[Fresh(t)].name = Strip(x.name)
         /\ AddItem(t, d, x).item[Fresh(t)].kind = x.kind
         /\ AddItem(t, d, x).item[Fresh(t)].mode = x.mode
         /\ AddItem(t, d, x).item[Fresh(t)].user = x.user
         /\ AddItem(t, d, x).item[Fresh(t)].group = x.group
         /\ AddItem(t, d, x).item[Fresh(t)].data = x.data
         /\ AddItem(t, d, x).kids[Fresh(t)] = <<>>
         /\ AddItem(t, d, x).kids[d] = Append(t.kids[d], Fresh(t))
         /\ \A n \in DOMAIN t.item : AddItem(t, d, x).item[n] = t.item[n]
         /\ \A n \in DOMAIN t.item \ {d} : AddItem(t, d, x).kids[n] = t.kids[n]
<1> DEFINE i == Fresh(t)
           E == DOMAIN t.item \cup {i}
           y == [x EXCEPT !.name = PreprocessFilename(@)]
           u == AddItem(t, d, x)
<1>1. i \in Ids /\ i \notin DOMAIN t.item
  BY DEF HasRoom, Fresh
<1>2. u = [item |-> [n \in E |-> IF n = i THEN y ELSE t.item[n]],
           kids |-> [n \in E |-> IF n = i THEN <<>>
                                 ELSE IF n = d THEN Append(t.kids[d], i)
                                 ELSE t.kids[n]]]
  BY DEF AddItem, Fresh
<1>3. /\ Plain(x.name) => y.name = Strip(x.name)
      /\ y.kind = x.kind /\ y.mode = x.mode
      /\ y.user = x.user /\ y.group = x.group /\ y.data = x.data
  BY PlainNames DEF Items
<1>4. i # Root
  BY <1>1, IdsAssumption
<1> HIDE DEF i, y, u
<1>5. /\ DOMAIN u.item = E /\ u.item[i] = y
      /\ u.kids[i] = <<>> /\ u.kids[d] = Append(t.kids[d], i)
      /\ \A n \in DOMAIN t.item : u.item[n] = t.item[n]
      /\ \A n \in DOMAIN t.item \ {d} : u.kids[n] = t.kids[n]
  BY <1>1, <1>2
<1> QED
  BY <1>1, <1>3, <1>4, <1>5 DEF i, y, u

\* The places of the lists of a tree with a new item.
LEMMA AddItemPlaces ==
  ASSUME NEW t, IsTree(t), HasRoom(t), NEW d \in DOMAIN t.item, NEW x \in Items,
         NEW c \in DOMAIN t.item
  PROVE  LET u == AddItem(t, d, x)
         IN  /\ \A k \in DOMAIN t.kids[c] : k \in DOMAIN u.kids[c] /\ u.kids[c][k] = t.kids[c][k]
             /\ \A k \in DOMAIN u.kids[c] :
                  \/ k \in DOMAIN t.kids[c]
                  \/ /\ c = d /\ k = Len(t.kids[d]) + 1 /\ u.kids[c][k] = Fresh(t)
                     /\ \A j \in DOMAIN t.kids[c] : j < k
             /\ c = d => /\ Len(t.kids[d]) + 1 \in DOMAIN u.kids[d]
                         /\ u.kids[d][Len(t.kids[d]) + 1] = Fresh(t)
<1> DEFINE u == AddItem(t, d, x)
           s == t.kids[c]
<1>1. s \in Seq(DOMAIN t.item \ {Root})
  BY TreeParts
<1>2. CASE c # d
  <2>1. u.kids[c] = s
    BY <1>2, AddItemParts
  <2> QED
    BY <1>2, <2>1
<1>3. CASE c = d
  <2>1. u.kids[c] = Append(s, Fresh(t))
    BY <1>3, AddItemParts
  <2> HIDE DEF u, s
  <2>2. /\ Len(s) \in Nat /\ DOMAIN s = 1 .. Len(s)
        /\ DOMAIN Append(s, Fresh(t)) = 1 .. Len(s) + 1
        /\ Append(s, Fresh(t))[Len(s) + 1] = Fresh(t)
        /\ \A k \in 1 .. Len(s) : Append(s, Fresh(t))[k] = s[k]
    <3>1. s \in Seq((DOMAIN t.item \ {Root}) \cup {Fresh(t)})
      BY <1>1, SeqMonotonic
    <3>2. Fresh(t) \in (DOMAIN t.item \ {Root}) \cup {Fresh(t)}
      OBVIOUS
    <3> QED
      BY <3>1, <3>2, AppendProperties
  <2>3. \A k \in 1 .. Len(s) : k \in 1 .. Len(s) + 1
    BY <2>2
  <2>4. \A k \in 1 .. Len(s) + 1 :
          k \in 1 .. Len(s) \/ (k = Len(s) + 1 /\ \A j \in 1 .. Len(s) : j < k)
    BY <2>2
  <2>5. Len(s) + 1 \in 1 .. Len(s) + 1
    BY <2>2
  <2>6. \A k \in DOMAIN s : k \in DOMAIN u.kids[c] /\ u.kids[c][k] = s[k]
    BY <2>1, <2>2, <2>3
  <2>7. \A k \in DOMAIN u.kids[c] :
          \/ k \in DOMAIN s
          \/ /\ k = Len(s) + 1 /\ u.kids[c][k] = Fresh(t)
             /\ \A j \in DOMAIN s : j < k
    BY <2>1, <2>2, <2>4
  <2>8. Len(s) + 1 \in DOMAIN u.kids[c] /\ u.kids[c][Len(s) + 1] = Fresh(t)
    BY <2>1, <2>2, <2>5
  <2> QED
    BY <1>3, <2>6, <2>7, <2>8 DEF u, s
<1> QED
  BY <1>2, <1>3

LEMMA AddFinds ==
  ASSUME NEW t, IsTree(t), HasRoom(t), NEW d \in DOMAIN t.item, NEW x \in Items,
         IsTree(AddItem(t, d, x))
  PROVE  FindsAsBefore(t, AddItem(t, d, x))
<1> DEFINE u == AddItem(t, d, x)
           D == DOMAIN t.item
<1>1. DOMAIN u.item = D \cup {Fresh(t)} /\ \A i \in D : u.item[i] = t.item[i]
  BY AddItemParts
<1>2. ASSUME NEW c \in D, NEW n, Child(t, c, n) # Throw
      PROVE  Child(u, c, n) = Child(t, c, n)
  <2>1. PICK k \in Nat : /\ IsFirst(t, c, k) /\ t.kids[c][k] = Child(t, c, n)
                         /\ t.item[t.kids[c][k]].name = n
    BY <1>2, ChildIsFirst
  <2>2. /\ \A j \in DOMAIN t.kids[c] : j \in DOMAIN u.kids[c] /\ u.kids[c][j] = t.kids[c][j]
        /\ \A j \in DOMAIN u.kids[c] : j \in DOMAIN t.kids[c]
                                       \/ \A l \in DOMAIN t.kids[c] : l < j
    BY AddItemPlaces
  <2>3. \A j \in DOMAIN t.kids[c] : /\ j \in Nat /\ t.kids[c][j] \in D
    <3>1. t.kids[c] \in Seq(D \ {Root})
      BY TreeParts
    <3> QED
      BY <3>1
  <2> HIDE DEF u, D
  <2>4. k \in DOMAIN t.kids[c] /\ k \in DOMAIN u.kids[c] /\ u.kids[c][k] = t.kids[c][k]
    BY <2>1, <2>2 DEF IsFirst
  <2>5. u.item[u.kids[c][k]].name = n /\ c \in DOMAIN u.item
    BY <1>1, <2>1, <2>3, <2>4
  <2>6. ASSUME NEW j \in DOMAIN u.kids[c], u.item[u.kids[c][j]].name = n
        PROVE  k <= j
    <3>1. CASE j \in DOMAIN t.kids[c]
      <4>1. t.item[t.kids[c][j]].name = n
        BY <1>1, <2>2, <2>3, <2>6, <3>1
      <4> QED
        BY <2>1, <3>1, <4>1 DEF IsFirst
    <3>2. CASE k < j
      <4>1. j \in Nat
        <5>1. u.kids[c] \in Seq(DOMAIN u.item \ {Root})
          BY <2>5, TreeParts DEF u
        <5> QED
          BY <5>1
      <4> QED
        BY <3>2, <4>1
    <3> QED
      BY <2>2, <2>4, <3>1, <3>2
  <2>7. IsFirst(u, c, k)
    BY <2>4, <2>5, <2>6 DEF IsFirst
  <2> QED
    BY <2>1, <2>4, <2>5, <2>7, FirstIsChild DEF u
<1> QED
  BY <1>1, <1>2 DEF FindsAsBefore, IsDir

\* The new item is found where no other of its name was.
LEMMA AddedIsFound ==
  ASSUME NEW t, IsTree(t), HasRoom(t), NEW d \in DOMAIN t.item, NEW x \in Items,
         IsTree(AddItem(t, d, x)), Plain(x.name), Child(t, d, Strip(x.name)) = Throw
  PROVE  Child(AddItem(t, d, x), d, Strip(x.name)) = Fresh(t)
<1> DEFINE u == AddItem(t, d, x)
           l == Len(t.kids[d]) + 1
<1>1. /\ DOMAIN u.item = DOMAIN t.item \cup {Fresh(t)}
      /\ \A i \in DOMAIN t.item : u.item[i] = t.item[i]
      /\ u.item[Fresh(t)].name = Strip(x.name)
  BY AddItemParts
<1>2. /\ l \in DOMAIN u.kids[d] /\ u.kids[d][l] = Fresh(t)
      /\ \A k \in DOMAIN t.kids[d] : u.kids[d][k] = t.kids[d][k]
      /\ \A k \in DOMAIN u.kids[d] : k \in DOMAIN t.kids[d] \/ k = l
  BY AddItemPlaces
<1>3. \A k \in DOMAIN t.kids[d] : t.kids[d][k] \in DOMAIN t.item
  <2>1. t.kids[d] \in Seq(DOMAIN t.item \ {Root})
    BY TreeParts
  <2> QED
    BY <2>1
<1>4. \A k \in DOMAIN t.kids[d] : t.item[t.kids[d][k]].name # Strip(x.name)
  BY ListedIsFound
<1>5. l \in Nat
  <2>1. t.kids[d] \in Seq(DOMAIN t.item \ {Root})
    BY TreeParts
  <2> QED
    BY <2>1
<1> HIDE DEF u, l
<1>6. \A k \in DOMAIN u.kids[d] :
        u.item[u.kids[d][k]].name = u.item[u.kids[d][l]].name => l <= k
  BY <1>1, <1>2, <1>3, <1>4, <1>5
<1>7. IsFirst(u, d, l)
  BY <1>1, <1>2, <1>6 DEF IsFirst
<1> QED
  BY <1>1, <1>2, <1>7, FirstIsChild DEF u

----------------------------------------------------------------------------
(* The shape of a tree *)

OnlyDirsList(t) == \A d \in DOMAIN t.item : ~IsDir(t, d) => t.kids[d] = <<>>

\* No object is listed at two places, and none but Root is listed nowhere.
OnePlace(t) ==
  \A d, e \in DOMAIN t.item : \A k \in DOMAIN t.kids[d], j \in DOMAIN t.kids[e] :
    t.kids[d][k] = t.kids[e][j] => d = e /\ k = j

EachListed(t) ==
  \A i \in DOMAIN t.item \ {Root} :
    \E d \in DOMAIN t.item : \E k \in DOMAIN t.kids[d] : t.kids[d][k] = i

\* What is not found under its own name has no items.
HiddenEmpty(t) ==
  \A i \in DOMAIN t.item \ {Root} :
    GetElement(t, t.item[i].name) # i => t.kids[i] = <<>>

Tidy(t) == /\ OnlyDirsList(t) /\ OnePlace(t) /\ EachListed(t)
           /\ NoBackslash => ProperNames(t) /\ HiddenEmpty(t)

Neat(t) == Sound(t) /\ Tidy(t)

LEMMA EmptyTreeNeat ==
  ASSUME NEW x \in Items, x.kind = "dir", x.name = Dot
  PROVE  Neat(EmptyTree(x))
<1> DEFINE t == EmptyTree(x)
<1>1. /\ DOMAIN t.item = {Root} /\ DOMAIN t.kids = {Root}
      /\ t.item[Root] = x /\ t.kids[Root] = <<>>
  BY DEF EmptyTree
<1>2. DOMAIN t.kids[Root] = {}
  BY <1>1, EmptySeq
<1> HIDE DEF t
<1>3. Tidy(t)
  BY <1>1, <1>2
  DEF Tidy, OnlyDirsList, OnePlace, EachListed, ProperNames, HiddenEmpty
<1> QED
  BY <1>3, EmptyTreeSound DEF Neat, t

LEMMA UpdateNeat ==
  ASSUME NEW t, Neat(t), NEW e \in DOMAIN t.item, NEW x \in Items,
         x.name = t.item[e].name, x.kind = t.item[e].kind
  PROVE  Neat([t EXCEPT !.item[e] = x])
<1> DEFINE u == [t EXCEPT !.item[e] = x]
           D == DOMAIN t.item
<1>1. IsTree(t) /\ Sound(t) /\ Tidy(t)
  BY DEF Neat, Sound
<1>2. t \in [item : [D -> Items], kids : [D -> Seq(D \ {Root})]]
  BY <1>1 DEF IsTree, Heaps
<1>3. DOMAIN u.item = D /\ u.kids = t.kids /\ u.item = [t.item EXCEPT ![e] = x]
  BY <1>2
<1>4. \A i \in D : u.item[i].name = t.item[i].name /\ u.item[i].kind = t.item[i].kind
  BY <1>2, <1>3
<1>5. FindsAsBefore(t, u)
  BY <1>1, UpdateFinds
<1>6. Sound(u)
  BY <1>1, UpdateSound
<1> HIDE DEF u
<1>7. /\ OnlyDirsList(u) /\ OnePlace(u) /\ EachListed(u)
      /\ NoBackslash => ProperNames(u)
  BY <1>1, <1>3, <1>4
  DEF Tidy, OnlyDirsList, OnePlace, EachListed, ProperNames, IsDir
<1>8. ASSUME NoBackslash, NEW i \in D \ {Root}, GetElement(u, u.item[i].name) # i
      PROVE  u.kids[i] = <<>>
  <2>1. u.item[i].name = t.item[i].name /\ t.item[i].name \in Names /\ i # Throw
    BY <1>1, <1>4, <1>8, TreeParts DEF Tidy, ProperNames, Proper
  <2>2. GetElement(t, t.item[i].name) # i
    BY <1>1, <1>5, <1>8, <2>1, SameFind
  <2> QED
    BY <1>1, <1>3, <1>8, <2>2 DEF Tidy, HiddenEmpty
<1>9. NoBackslash => HiddenEmpty(u)
  BY <1>3, <1>8 DEF HiddenEmpty
<1> QED
  BY <1>6, <1>7, <1>9 DEF Neat, Tidy, u

\* The name of a new item: its parent was found under a proper name, or it is
\* an item of Root.
LEMMA NewNameProper ==
  ASSUME NEW t, IsTree(t), ProperNames(t), NEW p \in Names,
         GetParentDirectory(t, p) \notin {Throw, Null}
  PROVE  Proper(Strip(p)) /\ p # Dot /\ p # Empty
<1> DEFINE q == ParentPath(p)
           d == GetParentDirectory(t, p)
<1>1. p # Dot /\ p # Empty /\ d = GetElement(t, q) /\ d # Throw
  BY DEF GetParentDirectory
<1>2. q \in Names /\ Strip(p) \in Names /\ Strip(q) \in Names
  BY PathTypes
<1>3. CASE q = Dot
  <2>1. Strip(p) = p /\ (Len(p) = 1 \/ (Len(p) = 2 /\ p[1] = DotName))
    BY <1>3, NameBelowRoot
  <2>2. CASE Len(p) = 1
    <3>1. p = <<p[1]>>
      BY <2>2, PathParts
    <3>2. p[1] # Blank
      BY <1>1, <3>1 DEF Empty
    <3> QED
      BY <1>1, <1>2, <2>1, <3>2 DEF Proper
  <2>3. CASE Len(p) = 2 /\ p[1] = DotName
    <3>1. p[1] # Blank
      BY <2>3, ComponentsAssumption
    <3> QED
      BY <1>1, <1>2, <2>1, <3>1 DEF Proper
  <2> QED
    BY <2>1, <2>2, <2>3
<1>4. CASE q # Dot
  <2>1. d \in DOMAIN t.item /\ d # Root /\ q # Empty /\ t.item[d].name = Strip(q)
    BY <1>1, <1>4, ElementFound
  <2>2. Proper(Strip(q))
    BY <2>1 DEF ProperNames
  <2>3. Strip(p) = Append(Strip(q), Strip(p)[Len(Strip(p))])
    BY <1>4, <2>1, NameBelowParent
  <2>4. Strip(q) \in Seq(Components) /\ Len(Strip(q)) \in Nat /\ Len(Strip(q)) > 0
    BY <1>2, PathParts
  <2>5. Strip(p)[Len(Strip(p))] \in Components
    <3>1. Strip(p) \in Seq(Components) /\ Len(Strip(p)) \in Nat /\ Len(Strip(p)) > 0
      BY <1>2, PathParts
    <3>2. Len(Strip(p)) \in 1 .. Len(Strip(p))
      BY <3>1
    <3> QED
      BY <3>1, <3>2
  <2>6. /\ Len(Append(Strip(q), Strip(p)[Len(Strip(p))])) = Len(Strip(q)) + 1
        /\ Append(Strip(q), Strip(p)[Len(Strip(p))])[1] = Strip(q)[1]
    BY <2>4, <2>5, AppendProperties
  <2>7. Strip(p)[1] = Strip(q)[1] /\ Len(Strip(p)) = Len(Strip(q)) + 1
    BY <2>3, <2>6
  <2>8. Strip(p) # Dot
    BY <2>4, <2>7, DotParts
  <2> QED
    BY <1>1, <1>2, <2>2, <2>7, <2>8 DEF Proper
<1> QED
  BY <1>3, <1>4

LEMMA AddItemNeat ==
  ASSUME NEW t, Neat(t), HasRoom(t), NEW p \in Names,
         GetParentDirectory(t, p) \notin {Throw, Null},
         NEW x \in Items, x.name = p, NoBackslash => Plain(p)
  PROVE  Neat(AddItem(t, GetParentDirectory(t, p), x))
<1> DEFINE d == GetParentDirectory(t, p)
           q == ParentPath(p)
           u == AddItem(t, d, x)
           D == DOMAIN t.item
           i == Fresh(t)
<1>1. Sound(t) /\ IsTree(t) /\ Tidy(t)
  BY DEF Neat, Sound
<1>2. d \in D /\ NamedByPlace(t, d, Strip(p))
  BY <1>1, ParentFound
<1>3. d = GetElement(t, q) /\ d # Throw /\ IsDir(t, d) /\ q \in Names
  BY PathTypes DEF GetParentDirectory
<1>4. NoBackslash => Proper(Strip(p))
  BY <1>1, NewNameProper DEF Tidy
<1> HIDE DEF d, q, u, i
<1>5. Sound(u) /\ IsTree(u)
  BY <1>1, <1>2, AddItemSound DEF Sound, u
<1>6. /\ i \notin D /\ i # Root /\ DOMAIN u.item = D \cup {i}
      /\ NoBackslash => u.item[i].name = Strip(p)
      /\ u.kids[i] = <<>>
      /\ \A n \in D : u.item[n] = t.item[n]
      /\ \A n \in D \ {d} : u.kids[n] = t.kids[n]
  BY <1>1, <1>2, AddItemParts DEF u, i
<1>7. \A c \in D :
        /\ \A k \in DOMAIN t.kids[c] : k \in DOMAIN u.kids[c] /\ u.kids[c][k] = t.kids[c][k]
        /\ \A k \in DOMAIN u.kids[c] :
             \/ k \in DOMAIN t.kids[c]
             \/ c = d /\ k = Len(t.kids[d]) + 1 /\ u.kids[c][k] = i
  BY <1>1, <1>2, AddItemPlaces DEF u, i
<1>8. Len(t.kids[d]) + 1 \in DOMAIN u.kids[d] /\ u.kids[d][Len(t.kids[d]) + 1] = i
  BY <1>1, <1>2, AddItemPlaces DEF u, i
<1>9. \A c \in D : \A k \in DOMAIN t.kids[c] : t.kids[c][k] \in D
  <2>1. \A c \in D : t.kids[c] \in Seq(D \ {Root})
    BY <1>1, TreeParts
  <2> QED
    BY <2>1
<1>10. DOMAIN u.kids[i] = {}
  BY <1>6, EmptySeq
<1>11. FindsAsBefore(t, u)
  BY <1>1, <1>2, <1>5, AddFinds DEF u
<1>12. OnlyDirsList(u)
  BY <1>1, <1>3, <1>6 DEF OnlyDirsList, Tidy, IsDir
<1>13. OnePlace(u)
  <2>1. ASSUME NEW c \in D \cup {i}, NEW e \in D \cup {i},
               NEW k \in DOMAIN u.kids[c], NEW j \in DOMAIN u.kids[e],
               u.kids[c][k] = u.kids[e][j]
        PROVE  c = e /\ k = j
    <3>1. c \in D /\ e \in D
      BY <1>10, <2>1
    <3>2. CASE k \in DOMAIN t.kids[c] /\ j \in DOMAIN t.kids[e]
      <4>1. t.kids[c][k] = t.kids[e][j]
        BY <1>7, <2>1, <3>1, <3>2
      <4> QED
        BY <1>1, <3>1, <3>2, <4>1 DEF Tidy, OnePlace
    <3>3. CASE k \in DOMAIN t.kids[c] /\ j \notin DOMAIN t.kids[e]
      BY <1>6, <1>7, <1>9, <2>1, <3>1, <3>3
    <3>4. CASE k \notin DOMAIN t.kids[c] /\ j \in DOMAIN t.kids[e]
      BY <1>6, <1>7, <1>9, <2>1, <3>1, <3>4
    <3>5. CASE k \notin DOMAIN t.kids[c] /\ j \notin DOMAIN t.kids[e]
      BY <1>7, <2>1, <3>1, <3>5
    <3> QED
      BY <3>2, <3>3, <3>4, <3>5
  <2> QED
    BY <1>6, <2>1 DEF OnePlace
<1>14. EachListed(u)
  <2>1. ASSUME NEW n \in D \ {Root}
        PROVE  \E c \in D : \E k \in DOMAIN u.kids[c] : u.kids[c][k] = n
    <3>1. PICK c \in D : \E k \in DOMAIN t.kids[c] : t.kids[c][k] = n
      BY <1>1 DEF Tidy, EachListed
    <3> QED
      BY <1>7, <3>1
  <2> QED
    BY <1>2, <1>6, <1>8, <2>1 DEF EachListed
<1>15. NoBackslash => ProperNames(u)
  <2>1. Root \in D
    BY <1>1, TreeParts
  <2> QED
    BY <1>1, <1>4, <1>6, <2>1 DEF Tidy, ProperNames
<1>16. ASSUME NoBackslash, NEW n \in D \ {Root}, GetElement(t, t.item[n].name) = n
       PROVE  GetElement(u, t.item[n].name) = n
  <2>1. n # Throw /\ t.item[n].name \in Names
    BY <1>1, <1>16, TreeParts DEF Tidy, ProperNames, Proper
  <2> QED
    BY <1>1, <1>11, <1>16, <2>1, SameFind
<1>17. NoBackslash /\ d # Root => GetElement(t, t.item[d].name) = d
  <2> SUFFICES ASSUME NoBackslash, d # Root PROVE GetElement(t, t.item[d].name) = d
    OBVIOUS
  <2>1. q # Dot
    BY <1>1, <1>3, ElementFound
  <2>2. q # Empty /\ t.item[d].name = Strip(q)
    BY <1>1, <1>3, <2>1, ElementFound
  <2>3. Proper(Strip(q))
    BY <1>1, <1>2, <2>2 DEF Tidy, ProperNames
  <2> QED
    BY <1>3, <2>1, <2>2, <2>3, SameElement
<1>18. NoBackslash => HiddenEmpty(u)
  <2>1. ASSUME NoBackslash, NEW n \in (D \cup {i}) \ {Root},
               GetElement(u, u.item[n].name) # n
        PROVE  u.kids[n] = <<>>
    <3>1. CASE n = i
      BY <1>6, <3>1
    <3>2. CASE n # i
      <4>1. n \in D \ {Root} /\ u.item[n] = t.item[n]
        BY <1>6, <3>2
      <4>2. GetElement(t, t.item[n].name) # n
        BY <1>16, <2>1, <4>1
      <4>3. t.kids[n] = <<>> /\ n # d
        BY <1>1, <1>17, <2>1, <4>1, <4>2 DEF Tidy, HiddenEmpty
      <4> QED
        BY <1>6, <4>1, <4>3
    <3> QED
      BY <3>1, <3>2
  <2> QED
    BY <1>6, <2>1 DEF HiddenEmpty
<1> QED
  BY <1>5, <1>12, <1>13, <1>14, <1>15, <1>18 DEF Neat, Tidy, u, d

----------------------------------------------------------------------------
(* Removing *)

\* r is s without some of its elements: f says where each was.
Embeds(f, r, s) ==
  /\ \A k \in DOMAIN r : f[k] \in DOMAIN s /\ r[k] = s[f[k]]
  /\ \A j, k \in DOMAIN r : j < k => f[j] < f[k]

\* u is t without some of its objects and some elements of its lists.
Thinned(t, u) ==
  /\ IsTree(t) /\ IsTree(u)
  /\ DOMAIN u.item \subseteq DOMAIN t.item
  /\ \A d \in DOMAIN u.item : /\ u.item[d] = t.item[d]
                              /\ \E f : Embeds(f, u.kids[d], t.kids[d])

\* What the first item of a name is it stays when it is not removed.
LEMMA ThinnedChild ==
  ASSUME NEW t, NEW u, Thinned(t, u), OnePlace(t),
         NEW d \in DOMAIN u.item, NEW n, Child(t, d, n) # Throw,
         NEW e \in DOMAIN u.item, NEW j \in DOMAIN u.kids[e],
         u.kids[e][j] = Child(t, d, n)
  PROVE  Child(u, d, n) = Child(t, d, n)
<1> DEFINE i == Child(t, d, n)
<1>1. /\ IsTree(t) /\ IsTree(u) /\ d \in DOMAIN t.item /\ e \in DOMAIN t.item
      /\ \A c \in DOMAIN u.item : u.item[c] = t.item[c]
  BY DEF Thinned
<1>2. PICK k \in Nat : IsFirst(t, d, k) /\ t.kids[d][k] = i /\ t.item[i].name = n
  BY <1>1, ChildIsFirst
<1>3. PICK f : Embeds(f, u.kids[e], t.kids[e])
  BY DEF Thinned
<1>4. f[j] \in DOMAIN t.kids[e] /\ t.kids[e][f[j]] = i
  BY <1>3 DEF Embeds
<1>5. k \in DOMAIN t.kids[d]
  BY <1>2 DEF IsFirst
<1>6. e = d /\ f[j] = k
  BY <1>1, <1>2, <1>4, <1>5 DEF OnePlace
<1> HIDE DEF i
<1>7. ASSUME NEW l \in DOMAIN u.kids[d], u.item[u.kids[d][l]].name = n
      PROVE  j <= l
  <2>1. u.kids[d] \in Seq(DOMAIN u.item \ {Root})
    BY <1>1, TreeParts
  <2>2. u.kids[d][l] \in DOMAIN u.item /\ l \in Nat /\ j \in Nat
    BY <1>6, <2>1
  <2>3. f[l] \in DOMAIN t.kids[d] /\ u.kids[d][l] = t.kids[d][f[l]]
    BY <1>3, <1>6 DEF Embeds
  <2>4. t.item[t.kids[d][f[l]]].name = n
    BY <1>1, <1>7, <2>2, <2>3
  <2>5. k <= f[l]
    BY <1>2, <2>3, <2>4 DEF IsFirst
  <2>6. f[l] \in Nat
    <3>1. t.kids[d] \in Seq(DOMAIN t.item \ {Root})
      BY <1>1, TreeParts
    <3> QED
      BY <2>3, <3>1
  <2>7. l < j => f[l] < f[j]
    BY <1>3, <1>6 DEF Embeds
  <2>8. ~(l < j)
    BY <1>2, <1>6, <2>5, <2>6, <2>7
  <2> QED
    BY <2>2, <2>8
<1>8. u.kids[d][j] = i
  BY <1>6 DEF i
<1>9. u.item[i].name = n
  <2>1. u.kids[d] \in Seq(DOMAIN u.item \ {Root})
    BY <1>1, TreeParts
  <2>2. i \in DOMAIN u.item
    BY <1>6, <1>8, <2>1
  <2> QED
    BY <1>1, <1>2, <2>2
<1>10. IsFirst(u, d, j)
  BY <1>6, <1>7, <1>8, <1>9 DEF IsFirst
<1>11. Child(u, d, n) = i
  BY <1>1, <1>8, <1>9, <1>10, FirstIsChild
<1> QED
  BY <1>11 DEF i

\* So what is found and not removed is found as before.
LEMMA ThinnedFind ==
  ASSUME NEW t, NEW u, Thinned(t, u), OnePlace(t), EachListed(u), ProperNames(t)
  PROVE  \A q : Proper(q) /\ GetElement(t, q) \in DOMAIN u.item =>
           GetElement(u, q) = GetElement(t, q)
<1> DEFINE S == {n \in Nat : \A q : Proper(q) /\ Len(q) = n
                                    /\ GetElement(t, q) \in DOMAIN u.item =>
                                  GetElement(u, q) = GetElement(t, q)}
<1>0. /\ IsTree(t) /\ IsTree(u) /\ DOMAIN u.item \subseteq DOMAIN t.item
      /\ \A c \in DOMAIN u.item : u.item[c] = t.item[c]
  BY DEF Thinned
<1>1. ASSUME NEW n \in Nat, \A m \in Nat : m < n => m \in S
      PROVE  n \in S
  <2>1. ASSUME NEW q, Proper(q), Len(q) = n, GetElement(t, q) \in DOMAIN u.item
        PROVE  GetElement(u, q) = GetElement(t, q)
    <3> DEFINE b == Base(t, q)
               i == Child(t, b, q)
    <3>1. /\ q \in Names /\ GetElement(t, q) = i /\ i \in DOMAIN u.item
          /\ GetElement(u, q) = Child(u, Base(u, q), q)
      BY <2>1, ProperLookup DEF Proper
    <3>2. i # Throw /\ i \in DOMAIN t.item
      BY <1>0, <3>1, TreeParts
    <3>3. PICK k \in Nat : IsFirst(t, b, k) /\ t.kids[b][k] = i
      BY <1>0, <3>2, ChildIsFirst
    <3>4. i # Root
      BY <1>0, <3>2, ChildFound
    <3> HIDE DEF b, i
    <3>5. PICK e \in DOMAIN u.item : \E j \in DOMAIN u.kids[e] : u.kids[e][j] = i
      BY <3>1, <3>4 DEF EachListed
    <3>6. PICK j \in DOMAIN u.kids[e] : u.kids[e][j] = i
      BY <3>5
    <3>7. e = b
      <4>1. PICK f : Embeds(f, u.kids[e], t.kids[e])
        BY DEF Thinned
      <4>2. f[j] \in DOMAIN t.kids[e] /\ t.kids[e][f[j]] = i
        BY <3>6, <4>1 DEF Embeds
      <4>3. b \in DOMAIN t.item /\ k \in DOMAIN t.kids[b] /\ e \in DOMAIN t.item
        BY <1>0, <3>3 DEF IsFirst
      <4> QED
        BY <3>3, <4>2, <4>3 DEF OnePlace
    <3>8. Base(u, q) = b
      <4>1. CASE Len(q) = 1
        BY <3>1, <4>1, BaseOfOne DEF b
      <4>2. CASE Len(q) > 1
        <5> DEFINE r == ParentPath(q)
        <5>1. b # Throw
          BY <1>0, <3>5, <3>7, TreeParts
        <5>2. Proper(r) /\ b = GetElement(t, r) /\ IsDir(t, b)
          BY <1>0, <2>1, <4>2, <5>1, ThroughParent DEF b
        <5>3. Len(r) = n - 1 /\ n - 1 \in Nat /\ n - 1 < n
          BY <2>1, <3>1, <4>2, ParentComponents
        <5>4. GetElement(u, r) = b
          <6>1. n - 1 \in S
            BY <1>1, <5>3
          <6> QED
            BY <3>7, <5>2, <5>3, <6>1
        <5>5. IsDir(u, b)
          BY <1>0, <3>7, <5>2 DEF IsDir
        <5> QED
          BY <3>1, <4>2, <5>1, <5>2, <5>4, <5>5, ThroughDirectory
      <4> QED
        BY <3>1, <4>1, <4>2, PathParts, OneOrMore
    <3>9. Child(u, b, q) = i
      BY <3>2, <3>6, <3>7, ThinnedChild DEF i
    <3> QED
      BY <3>1, <3>8, <3>9
  <2> QED
    BY <2>1
<1> HIDE DEF S
<1>2. \A n \in Nat : n \in S
  BY <1>1, AllLengths
<1>3. \A q : Proper(q) => Len(q) \in S
  BY <1>2, PathParts DEF Proper
<1> QED
  BY <1>3 DEF S

LEMMA ThinnedNeat ==
  ASSUME NEW t, NEW u, Neat(t), Sound(u), Thinned(t, u), EachListed(u)
  PROVE  Neat(u)
<1>1. /\ IsTree(t) /\ IsTree(u) /\ DOMAIN u.item \subseteq DOMAIN t.item
      /\ \A d \in DOMAIN u.item : /\ u.item[d] = t.item[d]
                                  /\ \E f : Embeds(f, u.kids[d], t.kids[d])
  BY DEF Thinned
<1>2. Tidy(t)
  BY DEF Neat
<1>3. ASSUME NEW d \in DOMAIN u.item, t.kids[d] = <<>> PROVE u.kids[d] = <<>>
  <2>1. PICK f : Embeds(f, u.kids[d], t.kids[d])
    BY <1>1
  <2>2. DOMAIN t.kids[d] = {}
    BY <1>3, EmptySeq
  <2>3. DOMAIN u.kids[d] = {}
    BY <2>1, <2>2 DEF Embeds
  <2>4. u.kids[d] \in Seq(DOMAIN u.item \ {Root})
    BY <1>1, TreeParts
  <2>5. Len(u.kids[d]) = 0
    <3>1. Len(u.kids[d]) \in Nat /\ DOMAIN u.kids[d] = 1 .. Len(u.kids[d])
      BY <2>4
    <3>2. \A n \in Nat : 1 .. n = {} => n = 0
      <4>1. \A n \in Nat : n # 0 => 1 \in 1 .. n
        OBVIOUS
      <4> QED
        BY <4>1
    <3> QED
      BY <2>3, <3>1, <3>2
  <2> QED
    BY <2>4, <2>5, EmptySeq
<1>4. OnlyDirsList(u)
  BY <1>1, <1>2, <1>3 DEF Tidy, OnlyDirsList, IsDir
<1>5. OnePlace(u)
  <2>1. ASSUME NEW d \in DOMAIN u.item, NEW e \in DOMAIN u.item,
               NEW k \in DOMAIN u.kids[d], NEW j \in DOMAIN u.kids[e],
               u.kids[d][k] = u.kids[e][j]
        PROVE  d = e /\ k = j
    <3>1. PICK f : Embeds(f, u.kids[d], t.kids[d])
      BY <1>1
    <3>2. PICK g : Embeds(g, u.kids[e], t.kids[e])
      BY <1>1
    <3>3. /\ f[k] \in DOMAIN t.kids[d] /\ t.kids[d][f[k]] = u.kids[d][k]
          /\ g[j] \in DOMAIN t.kids[e] /\ t.kids[e][g[j]] = u.kids[e][j]
      BY <3>1, <3>2 DEF Embeds
    <3>4. d = e /\ f[k] = g[j]
      BY <1>1, <1>2, <2>1, <3>3 DEF Tidy, OnePlace
    <3>6. /\ f[j] \in DOMAIN t.kids[d] /\ t.kids[d][f[j]] = t.kids[d][f[k]]
          /\ k \in DOMAIN u.kids[d] /\ j \in DOMAIN u.kids[d]
      BY <2>1, <3>1, <3>3, <3>4 DEF Embeds
    <3>7. f[j] = f[k]
      BY <1>1, <1>2, <3>3, <3>6 DEF Tidy, OnePlace
    <3>8. (j < k => f[j] < f[k]) /\ (k < j => f[k] < f[j])
      BY <3>1, <3>6 DEF Embeds
    <3>9. f[k] \in Nat /\ j \in Nat /\ k \in Nat
      <4>1. t.kids[d] \in Seq(DOMAIN t.item \ {Root}) /\ u.kids[d] \in Seq(DOMAIN u.item \ {Root})
        BY <1>1, TreeParts
      <4> QED
        BY <3>3, <3>6, <4>1
    <3>10. ~(j < k) /\ ~(k < j)
      BY <3>7, <3>8, <3>9
    <3> QED
      BY <3>4, <3>9, <3>10
  <2> QED
    BY <2>1 DEF OnePlace
<1>6. NoBackslash => ProperNames(u)
  <2>1. Root \in DOMAIN u.item
    BY <1>1, TreeParts
  <2> QED
    BY <1>1, <1>2, <2>1 DEF Tidy, ProperNames
<1>7. ASSUME NoBackslash, NEW i \in DOMAIN u.item \ {Root},
             GetElement(u, u.item[i].name) # i
      PROVE  u.kids[i] = <<>>
  <2>1. Proper(t.item[i].name) /\ u.item[i] = t.item[i]
    BY <1>1, <1>2, <1>7 DEF Tidy, ProperNames
  <2>2. GetElement(t, t.item[i].name) # i
    BY <1>2, <1>7, <2>1, ThinnedFind DEF Tidy
  <2>3. t.kids[i] = <<>>
    BY <1>1, <1>2, <1>7, <2>2 DEF Tidy, HiddenEmpty
  <2> QED
    BY <1>3, <2>3
<1>8. NoBackslash => HiddenEmpty(u)
  BY <1>7 DEF HiddenEmpty
<1> QED
  BY <1>4, <1>5, <1>6, <1>8 DEF Neat, Tidy

\* What RemoveAll keeps of a list it keeps in order.
LEMMA SelectionEmbeds ==
  ASSUME NEW S, NEW s \in Seq(S), NEW K \in SUBSET DOMAIN s,
         NEW r \in Selections(s, K)
  PROVE  \E f : /\ Embeds(f, r, s)
                /\ f \in [1 .. Cardinality(K) -> K]
                /\ DOMAIN r = 1 .. Cardinality(K)
<1>1. PICK f \in [1 .. Cardinality(K) -> K] :
        /\ \A i, j \in DOMAIN f : i < j => f[i] < f[j]
        /\ r = [k \in DOMAIN f |-> s[f[k]]]
  BY DEF Selections
<1>2. DOMAIN r = 1 .. Cardinality(K) /\ DOMAIN f = 1 .. Cardinality(K)
  BY <1>1
<1>3. \A k \in DOMAIN r : f[k] \in DOMAIN s /\ r[k] = s[f[k]]
  BY <1>1, <1>2
<1>4. Embeds(f, r, s)
  BY <1>1, <1>2, <1>3 DEF Embeds
<1> QED
  BY <1>2, <1>4

\* What is left after garbage has gone is listed by something that is left.
LEMMA ReachableListed ==
  ASSUME NEW t, IsTree(t), NEW i \in Reachable(t) \ {Root}
  PROVE  \E d \in Reachable(t) : \E k \in DOMAIN t.kids[d] : t.kids[d][k] = i
<1> DEFINE S == Reachable(t) \ {i}
<1>1. /\ Reachable(t) \subseteq DOMAIN t.item /\ Root \in Reachable(t)
      /\ \A d \in Reachable(t) : t.kids[d] \in Seq(Reachable(t) \ {Root})
  BY ReachableClosed
<1>2. SUFFICES ASSUME \A d \in Reachable(t) : \A k \in DOMAIN t.kids[d] : t.kids[d][k] # i
               PROVE  FALSE
  OBVIOUS
<1>3. \A d \in S : ToSet(t.kids[d]) \subseteq S
  <2>1. ASSUME NEW d \in S, NEW x \in ToSet(t.kids[d]) PROVE x \in S
    <3>1. PICK k \in DOMAIN t.kids[d] : x = t.kids[d][k]
      BY <2>1 DEF ToSet
    <3>2. x \in Reachable(t)
      <4>1. t.kids[d] \in Seq(Reachable(t) \ {Root})
        BY <1>1
      <4> QED
        BY <3>1, <4>1
    <3> QED
      BY <1>2, <3>1, <3>2
  <2> QED
    BY <2>1
<1>4. Root \in S /\ S \in SUBSET DOMAIN t.item /\ i \notin S
  BY <1>1
<1>5. i \in {j \in DOMAIN t.item :
               \A T \in SUBSET DOMAIN t.item :
                  (Root \in T /\ \A d \in T : ToSet(t.kids[d]) \subseteq T) => j \in T}
  BY DEF Reachable
<1> HIDE DEF S
<1> QED
  BY <1>3, <1>4, <1>5

\* The tree after rm.
LEMMA RemoveAllThinned ==
  ASSUME NEW t, Neat(t), NEW d \in DOMAIN t.item, NEW n,
         NEW u \in RemoveAll(t, d, n)
  PROVE  Thinned(t, u) /\ EachListed(u)
<1> DEFINE D == DOMAIN t.item
           kept == {k \in DOMAIN t.kids[d] : t.item[t.kids[d][k]].name # n}
<1>1. IsTree(t) /\ Sound(t)
  BY DEF Neat, Sound
<1>2. PICK s \in Selections(t.kids[d], kept) : u = Collect([t EXCEPT !.kids[d] = s])
  BY DEF RemoveAll
<1> DEFINE v == [t EXCEPT !.kids[d] = s]
<1>3. t.kids[d] \in Seq(D \ {Root})
  BY <1>1, TreeParts
<1>4. kept \in SUBSET DOMAIN t.kids[d]
  OBVIOUS
<1> HIDE DEF kept
<1>5. s \in Seq(D \ {Root})
  BY <1>2, <1>3, <1>4, SelectionFromList
<1>6. PICK f : Embeds(f, s, t.kids[d])
  BY <1>2, <1>3, <1>4, SelectionEmbeds
<1>7. t \in [item : [D -> Items], kids : [D -> Seq(D \ {Root})]]
  BY <1>1 DEF IsTree, Heaps
<1>8. v \in [item : [D -> Items], kids : [D -> Seq(D \ {Root})]]
  BY <1>5, <1>7
<1>9. v.item = t.item /\ v.kids = [t.kids EXCEPT ![d] = s]
  BY <1>7
<1>10. u = Collect(v)
  BY <1>2
<1> HIDE DEF v
<1>11. IsTree(v)
  BY <1>1, <1>8, <1>9 DEF IsTree, Heaps
<1> DEFINE R == Reachable(v)
<1>12. u = [item |-> [i \in R |-> v.item[i]], kids |-> [i \in R |-> v.kids[i]]]
  BY <1>10 DEF Collect
<1>13. R \subseteq D
  BY <1>9, <1>11, ReachableClosed
<1>14. \A i \in R \ {Root} : \E e \in R : \E k \in DOMAIN v.kids[e] : v.kids[e][k] = i
  BY <1>11, ReachableListed
<1> HIDE DEF R
<1>15. DOMAIN u.item = R /\ \A i \in R : u.item[i] = t.item[i] /\ u.kids[i] = v.kids[i]
  BY <1>9, <1>12
<1>16. EachListed(u)
  BY <1>14, <1>15 DEF EachListed
<1>17. ASSUME NEW e \in R PROVE \E g : Embeds(g, u.kids[e], t.kids[e])
  <2>1. CASE e = d
    <3>1. u.kids[e] = s
      BY <1>7, <1>9, <1>15, <2>1
    <3> QED
      BY <1>6, <2>1, <3>1
  <2>2. CASE e # d
    <3>1. u.kids[e] = t.kids[e]
      BY <1>7, <1>9, <1>13, <1>15, <2>2
    <3>2. t.kids[e] \in Seq(D \ {Root})
      BY <1>1, <1>13, TreeParts
    <3> DEFINE g == [k \in DOMAIN t.kids[e] |-> k]
    <3>3. Embeds(g, t.kids[e], t.kids[e])
      BY <3>2 DEF Embeds
    <3> QED
      BY <3>1, <3>3
  <2> QED
    BY <2>1, <2>2
<1>18. IsTree(u)
  <2>1. Sound(u)
    BY <1>1, RemoveAllSound
  <2> QED
    BY <2>1 DEF Sound
<1>19. Thinned(t, u)
  BY <1>1, <1>13, <1>15, <1>17, <1>18 DEF Thinned
<1> QED
  BY <1>16, <1>19

LEMMA RemoveAllNeat ==
  ASSUME NEW t, Neat(t), NEW d \in DOMAIN t.item, NEW n,
         NEW u \in RemoveAll(t, d, n)
  PROVE  Neat(u)
BY RemoveAllThinned, RemoveAllSound, ThinnedNeat DEF Neat

----------------------------------------------------------------------------
(* Steps *)

\* The three ways to change a tree, by the path they are given.
Amended(t, u, p) ==
  /\ GetElement(t, p) # Throw
  /\ \E x \in Items : /\ x.name = t.item[GetElement(t, p)].name
                      /\ x.kind = t.item[GetElement(t, p)].kind
                      /\ u = [t EXCEPT !.item[GetElement(t, p)] = x]

Added(t, u, p) ==
  /\ GetParentDirectory(t, p) \notin {Throw, Null} /\ HasRoom(t)
  /\ NoBackslash => Plain(p)
  /\ \E x \in Items : x.name = p /\ u = AddItem(t, GetParentDirectory(t, p), x)

Removed(t, u, p) ==
  /\ GetElement(t, p) # Throw
  /\ GetParentDirectory(t, p) \notin {Throw, Null}
  /\ u \in RemoveAll(t, GetParentDirectory(t, p), p)

\* What a step of the script does to the slot.
SlotChanged ==
  \E p \in FsPaths : \/ Amended(fs, fs', p)
                     \/ GetElement(fs, p) = Throw /\ Added(fs, fs', p)
                     \/ Removed(fs, fs', p)

SlotStep == \/ fs' = fs
            \/ fs' = NoFs
            \/ ~Ready /\ EndLoad /\ fs' = dst
            \/ Ready /\ fs # NoFs /\ SlotChanged

\* What a step does to the tree a load is filling.
LoadStep ==
  \/ dst' = dst
  \/ dst' = NoFs
  \/ dst' = EmptyTree(NewRoot)
  \/ dst # NoFs /\ \E p \in Names : Amended(dst, dst', p) \/ Added(dst, dst', p)

LEMMA NeatFromChange ==
  ASSUME NEW t, Neat(t), NEW u, NEW p \in Names,
         Amended(t, u, p) \/ Added(t, u, p) \/ Removed(t, u, p)
  PROVE  Neat(u)
<1>1. IsTree(t)
  BY DEF Neat, Sound
<1>2. CASE Amended(t, u, p)
  BY <1>1, <1>2, ElementFound, UpdateNeat DEF Amended
<1>3. CASE Added(t, u, p)
  BY <1>3, AddItemNeat DEF Added
<1>4. CASE Removed(t, u, p)
  BY <1>1, <1>4, ParentFound, RemoveAllNeat DEF Removed
<1> QED
  BY <1>2, <1>3, <1>4

LEMMA PutAmends ==
  ASSUME IInv, fs # NoFs, NEW p, Exists(fs, p), NEW x \in Items,
         x.name = At(p).name, x.kind = At(p).kind, Put(p, x)
  PROVE  Amended(fs, fs', p)
BY DEF Exists, Put, Change, At, Amended

LEMMA AddOrUpdateChanges ==
  ASSUME IInv, Ready, fs # NoFs, NEW p \in FsPaths, NEW x \in Items, x.name = p,
         AddOrUpdate(p, x)
  PROVE  SlotStep
<1>1. CASE Exists(fs, p) /\ At(p).kind = x.kind /\ Put(p, Overwrite(At(p), x))
  <2>1. /\ Overwrite(At(p), x) \in Items
        /\ Overwrite(At(p), x).name = At(p).name
        /\ Overwrite(At(p), x).kind = At(p).kind
    BY <1>1, AtItem DEF Overwrite, Items
  <2>2. Amended(fs, fs', p)
    BY <1>1, <2>1, PutAmends
  <2> QED
    BY <2>2 DEF SlotStep, SlotChanged
<1>2. CASE Refuse("Error")
  BY <1>2 DEF Refuse, SlotStep
<1>3. CASE Crash
  BY <1>3 DEF Crash, SlotStep
<1>4. CASE /\ ~Exists(fs, p) /\ GetParentDirectory(fs, p) \notin {Throw, Null}
           /\ HasRoom(fs) /\ Change(AddItem(fs, GetParentDirectory(fs, p), x))
  <2>1. GetElement(fs, p) = Throw /\ Added(fs, fs', p)
    BY <1>4 DEF Exists, Added, Change, NoBackslash
  <2> QED
    BY <2>1 DEF SlotStep, SlotChanged
<1> QED
  BY <1>1, <1>2, <1>3, <1>4 DEF AddOrUpdate

LEMMA UpdateChanges ==
  ASSUME IInv, NEW p \in FsPaths, NEW x, Update(p, x),
         fs # NoFs /\ Exists(fs, p) =>
           x \in Items /\ x.name = At(p).name /\ x.kind = At(p).kind
  PROVE  SlotStep
<1>1. CASE Refuse("Error") \/ Refuse("Warning")
  BY <1>1 DEF Refuse, SlotStep
<1>2. CASE fs # NoFs /\ Exists(fs, p) /\ Put(p, x)
  BY <1>2, PutAmends DEF SlotStep, SlotChanged, Update
<1> QED
  BY <1>1, <1>2 DEF Update

LEMMA RmChanges ==
  ASSUME NEW p \in FsPaths, Rm(p)
  PROVE  SlotStep
<1> DEFINE d == GetParentDirectory(fs, p)
<1>1. CASE Refuse("Error") \/ Refuse("Warning")
  BY <1>1 DEF Refuse, SlotStep
<1>2. CASE Crash
  BY <1>2 DEF Crash, SlotStep
<1>3. CASE /\ fs # NoFs /\ Exists(fs, p) /\ d \notin {Throw, Null}
           /\ \E t \in RemoveAll(fs, d, p) : Change(t)
  <2>1. Removed(fs, fs', p)
    BY <1>3 DEF Change, Exists, Removed
  <2> QED
    BY <1>3, <2>1 DEF SlotStep, SlotChanged, Rm
<1> QED
  BY <1>1, <1>2, <1>3 DEF Rm

LEMMA FileContentChanges ==
  ASSUME IInv, NEW p \in FsPaths, NEW c \in Contents \cup {NoFile}, FileContent(p, c)
  PROVE  SlotStep
<1>1. CASE Refuse("Error")
  BY <1>1 DEF Refuse, SlotStep
<1>2. CASE Crash
  BY <1>2 DEF Crash, SlotStep
<1>3. CASE fs # NoFs /\ c # NoFile /\ Exists(fs, p) /\ Put(p, [At(p) EXCEPT !.data = c])
  <2>1. At(p) \in Items
    BY <1>3, AtItem
  <2>2. /\ [At(p) EXCEPT !.data = c] \in Items
        /\ [At(p) EXCEPT !.data = c].name = At(p).name
        /\ [At(p) EXCEPT !.data = c].kind = At(p).kind
    BY <1>3, <2>1 DEF Items, Data
  <2> QED
    BY <1>3, <2>2, PutAmends DEF SlotStep, SlotChanged, FileContent
<1> QED
  BY <1>1, <1>2, <1>3 DEF FileContent

LEMMA EveryStepOfTheSlot ==
  ASSUME IInv, [Next]_vars
  PROVE  SlotStep
<1>1. CASE UNCHANGED vars
  BY <1>1 DEF vars, SlotStep
<1>2. ASSUME NEW a \in Archives, BeginLoad(a) PROVE SlotStep
  BY <1>2 DEF BeginLoad, SlotStep
<1>3. CASE ReadEntry
  BY <1>3 DEF ReadEntry, Crash, SlotStep
<1>4. CASE EndLoad
  BY <1>4 DEF EndLoad, SlotStep
<1>5. CASE Store
  BY <1>5 DEF Store, Refuse, SlotStep
<1>6. ASSUME NEW p \in FsPaths, NEW m \in Modes, NEW u \in Owners, NEW g \in Owners
      PROVE  /\ Dir(p, m, u, g) => SlotStep
             /\ \A c \in Contents \cup {NoFile} : File(p, c, m, u, g) => SlotStep
             /\ \A c \in Targets : SLink(p, c, m, u, g) => SlotStep
  <2>1. p \in Names
    BY FsAssumption
  <2>2. ASSUME NEW k \in Kinds, NEW c \in Data
        PROVE  Item(p, k, m, u, g, c) \in Items /\ Item(p, k, m, u, g, c).name = p
    BY <2>1, <1>6 DEF Item, Items
  <2>3. ASSUME NEW k \in Kinds, NEW c \in Data, Ready, fs # NoFs,
               AddOrUpdate(p, Item(p, k, m, u, g, c))
        PROVE  SlotStep
    BY <2>2, <2>3, AddOrUpdateChanges
  <2>4. Refuse("Error") => SlotStep
    BY DEF Refuse, SlotStep
  <2>5. "dir" \in Kinds /\ "file" \in Kinds /\ "link" \in Kinds
    BY DEF Kinds
  <2>6. /\ NoData \in Data
        /\ \A c \in Contents \cup {NoFile} : c # NoFile => c \in Data
        /\ \A c \in Targets : c \in Data
    BY DEF Data
  <2>7. Dir(p, m, u, g) => SlotStep
    BY <2>3, <2>4, <2>5, <2>6 DEF Dir
  <2>8. ASSUME NEW c \in Contents \cup {NoFile}, File(p, c, m, u, g) PROVE SlotStep
    BY <2>3, <2>4, <2>5, <2>6, <2>8 DEF File
  <2>9. ASSUME NEW c \in Targets, SLink(p, c, m, u, g) PROVE SlotStep
    BY <2>3, <2>4, <2>5, <2>6, <2>9 DEF SLink
  <2> QED
    BY <2>7, <2>8, <2>9
<1>7. ASSUME NEW p \in FsPaths
      PROVE  /\ \A c \in Contents \cup {NoFile} : FileContent(p, c) => SlotStep
             /\ Rm(p) => SlotStep
             /\ \A m \in Modes : ChMod(p, m) => SlotStep
             /\ \A u \in Owners : /\ ChOwnUser(p, u) => SlotStep
                                  /\ \A g \in Owners : ChOwn(p, u, g) => SlotStep
  <2>1. fs # NoFs /\ Exists(fs, p) => At(p) \in Items
    BY AtItem
  <2>2. ASSUME NEW c \in Contents \cup {NoFile}, FileContent(p, c) PROVE SlotStep
    BY <2>2, FileContentChanges
  <2>3. Rm(p) => SlotStep
    BY RmChanges
  <2>4. ASSUME NEW m \in Modes, ChMod(p, m) PROVE SlotStep
    BY <2>1, <2>4, UpdateChanges DEF ChMod, Items
  <2>5. ASSUME NEW u \in Owners, ChOwnUser(p, u) PROVE SlotStep
    BY <2>1, <2>5, UpdateChanges DEF ChOwnUser, Items
  <2>6. ASSUME NEW u \in Owners, NEW g \in Owners, ChOwn(p, u, g) PROVE SlotStep
    BY <2>1, <2>6, UpdateChanges DEF ChOwn, Items
  <2> QED
    BY <2>2, <2>3, <2>4, <2>5, <2>6
<1> QED
  BY <1>1, <1>2, <1>3, <1>4, <1>5, <1>6, <1>7 DEF Next

\* An entry of an archive: new attributes for Root, or a new item.
LEMMA EntryChanges ==
  ASSUME NEW t, IsTree(t), NEW e \in CpioNodes, Readable(t, e),
         e.name # Dot => HasRoom(t), NoBackslash => Plain(e.name)
  PROVE  /\ e.name = Dot => Amended(t, ReadOne(t, e), Dot)
         /\ e.name # Dot => Added(t, ReadOne(t, e), e.name)
<1>1. ASSUME e.name = Dot PROVE Amended(t, ReadOne(t, e), Dot)
  <2> DEFINE r == [t.item[Root] EXCEPT !.mode = e.mode, !.user = e.user,
                                       !.group = e.group]
  <2>1. Root \in DOMAIN t.item /\ t.item[Root] \in Items /\ Root # Throw
    BY TreeParts
  <2>2. r \in Items /\ r.name = t.item[Root].name /\ r.kind = t.item[Root].kind
    BY <2>1 DEF Items, CpioNodes
  <2>3. ReadOne(t, e) = [t EXCEPT !.item[Root] = r]
    BY <1>1, <2>1 DEF ReadOne, IsTree, Heaps, Items
  <2> HIDE DEF r
  <2>4. GetElement(t, Dot) = Root
    BY DEF GetElement
  <2> QED
    BY <2>1, <2>2, <2>3, <2>4 DEF Amended
<1>2. ASSUME e.name # Dot PROVE Added(t, ReadOne(t, e), e.name)
  <2>1. e \in Items
    BY <1>2 DEF Readable, CpioNodes, Items
  <2>2. ReadOne(t, e) = AddItem(t, GetParentDirectory(t, e.name), e)
    BY <1>2 DEF ReadOne
  <2> QED
    BY <1>2, <2>1, <2>2 DEF Readable, Added
<1> QED
  BY <1>1, <1>2

LEMMA EveryStepOfTheLoad ==
  ASSUME IInv, [Next]_vars
  PROVE  LoadStep
<1>1. CASE UNCHANGED vars
  BY <1>1 DEF vars, LoadStep
<1>2. ASSUME NEW a \in Archives, BeginLoad(a) PROVE LoadStep
  BY <1>2 DEF BeginLoad, LoadStep
<1>3. CASE ReadEntry
  <2>1. CASE Crash
    BY <2>1 DEF Crash, LoadStep
  <2>2. CASE ~Crash
    <3> DEFINE e == Head(todo)
    <3>1. /\ Readable(dst, e) /\ (e.name # Dot => HasRoom(dst))
          /\ dst' = ReadOne(dst, e)
      BY <1>3, <2>2 DEF ReadEntry
    <3>2. dst # NoFs /\ todo # <<>>
      BY <1>3 DEF ReadEntry, Ready
    <3>3. IsTree(dst) /\ todo \in Seq(CpioNodes)
      BY <3>2 DEF IInv, Sound
    <3>4. e \in CpioNodes /\ (NoBackslash => Plain(e.name))
      BY <3>2, <3>3, PlainTail DEF IInv
    <3> HIDE DEF e
    <3>5. \E p \in Names : Amended(dst, dst', p) \/ Added(dst, dst', p)
      <4>1. e.name \in Names
        BY <3>4 DEF CpioNodes
      <4> QED
        BY <3>1, <3>3, <3>4, <4>1, EntryChanges, DotParts
    <3> QED
      BY <3>2, <3>5 DEF LoadStep
  <2> QED
    BY <2>1, <2>2
<1>4. CASE EndLoad
  BY <1>4 DEF EndLoad, LoadStep
<1>5. CASE UNCHANGED dst
  BY <1>5 DEF LoadStep
<1>6. CASE Crash
  BY <1>6 DEF Crash, LoadStep
<1>7. CASE Store
  BY <1>5, <1>7 DEF Store, Refuse
<1>8. ASSUME NEW p, NEW x PROVE /\ Update(p, x) => LoadStep
                                /\ AddOrUpdate(p, x) => LoadStep
  <2>1. \A s : Refuse(s) => UNCHANGED dst
    BY DEF Refuse
  <2>2. \A t : Change(t) => UNCHANGED dst
    BY DEF Change
  <2> QED
    BY <1>5, <1>6, <2>1, <2>2 DEF Update, AddOrUpdate, Put
<1>9. ASSUME NEW p, NEW m, NEW u, NEW g
      PROVE  /\ Dir(p, m, u, g) => LoadStep
             /\ \A c : File(p, c, m, u, g) => LoadStep
             /\ \A c : SLink(p, c, m, u, g) => LoadStep
             /\ \A c : FileContent(p, c) => LoadStep
             /\ Rm(p) => LoadStep
             /\ ChMod(p, m) => LoadStep
             /\ ChOwnUser(p, u) => LoadStep
             /\ ChOwn(p, u, g) => LoadStep
  <2>1. \A s : Refuse(s) => LoadStep
    BY <1>5 DEF Refuse
  <2>2. \A t : Change(t) => LoadStep
    BY <1>5 DEF Change
  <2>3. Dir(p, m, u, g) => LoadStep
    BY <1>8, <2>1 DEF Dir
  <2>4. \A c : File(p, c, m, u, g) => LoadStep
    BY <1>8, <2>1 DEF File
  <2>5. \A c : SLink(p, c, m, u, g) => LoadStep
    BY <1>8, <2>1 DEF SLink
  <2>6. \A c : FileContent(p, c) => LoadStep
    BY <1>6, <2>1, <2>2 DEF FileContent, Put
  <2>7. Rm(p) => LoadStep
    BY <1>6, <2>1, <2>2 DEF Rm
  <2>8. ChMod(p, m) => LoadStep
    BY <1>8 DEF ChMod
  <2>9. ChOwnUser(p, u) => LoadStep
    BY <1>8 DEF ChOwnUser
  <2>10. ChOwn(p, u, g) => LoadStep
    BY <1>8 DEF ChOwn
  <2> QED
    BY <2>3, <2>4, <2>5, <2>6, <2>7, <2>8, <2>9, <2>10
<1> QED
  BY <1>1, <1>2, <1>3, <1>4, <1>7, <1>9 DEF Next

----------------------------------------------------------------------------
(* What a neat tree answers *)

LEMMA ParentOfAppend ==
  ASSUME NEW m \in Names, NEW n \in Names, NEW c, n = Append(m, c)
  PROVE  Len(n) > 1 /\ ParentPath(n) = m
<1>1. /\ m \in Seq(Components) /\ Len(m) \in Nat /\ Len(m) > 0
      /\ n \in Seq(Components) /\ Len(n) \in Nat
  BY PathParts
<1>2. m \in Seq(Components \cup {c}) /\ c \in Components \cup {c}
  BY <1>1, SeqMonotonic
<1>3. Len(n) = Len(m) + 1 /\ \A i \in 1 .. Len(m) : n[i] = m[i]
  BY <1>2, AppendProperties
<1>4. Len(n) > 1 /\ Len(n) - 1 = Len(m)
  BY <1>1, <1>3
<1>5. /\ ParentPath(n) \in Seq(Components) /\ Len(ParentPath(n)) = Len(m)
      /\ \A i \in 1 .. Len(m) : ParentPath(n)[i] = n[i]
  BY <1>4, ParentComponents
<1>6. \A i \in 1 .. Len(m) : ParentPath(n)[i] = m[i]
  BY <1>3, <1>5
<1>7. ParentPath(n) = m
  BY <1>1, <1>5, <1>6, SeqEqual
<1> QED
  BY <1>4, <1>7

\* The directory that lists an item is where its name leads.
LEMMA PlaceIsBase ==
  ASSUME NoBackslash, NEW t, Neat(t), NEW d \in DOMAIN t.item, NEW k \in DOMAIN t.kids[d],
         Lookable(t.item[t.kids[d][k]].name)
  PROVE  Base(t, t.item[t.kids[d][k]].name) = d
<1> DEFINE n == t.item[t.kids[d][k]].name
<1>1. IsTree(t) /\ Named(t) /\ Tidy(t)
  BY DEF Neat, Sound
<1>2. t.kids[d] \in Seq(DOMAIN t.item \ {Root})
  BY <1>1, TreeParts
<1>3. t.kids[d][k] \in DOMAIN t.item \ {Root}
  BY <1>2
<1>4. Proper(n) /\ n \in Names
  BY <1>1, <1>3 DEF Tidy, ProperNames, Proper
<1>5. NamedByPlace(t, d, n) /\ n[1] # DotName
  BY <1>1 DEF Named, Lookable
<1> HIDE DEF n
<1>6. CASE d = Root
  <2>1. Len(n) = 1
    BY <1>5, <1>6 DEF NamedByPlace
  <2> QED
    BY <1>4, <1>6, <2>1, BaseOfOne DEF n
<1>7. CASE d # Root
  <2> DEFINE m == t.item[d].name
  <2>1. Proper(m) /\ m \in Names
    BY <1>1, <1>7 DEF Tidy, ProperNames, Proper
  <2>2. n = Append(m, n[Len(n)])
    BY <1>5, <1>7 DEF NamedByPlace
  <2>3. Len(n) > 1 /\ ParentPath(n) = m
    BY <1>4, <2>1, <2>2, ParentOfAppend
  <2>4. t.kids[d] # <<>>
    BY EmptySeq
  <2>5. GetElement(t, m) = d /\ IsDir(t, d) /\ d # Throw
    BY <1>1, <1>7, <2>4, TreeParts DEF Tidy, HiddenEmpty, OnlyDirsList
  <2> QED
    BY <1>4, <2>1, <2>3, <2>5, ThroughDirectory DEF n
<1> QED
  BY <1>6, <1>7

LEMMA EveryItemFound ==
  ASSUME NoBackslash, NEW t, Neat(t), NEW i \in DOMAIN t.item \ {Root},
         Lookable(t.item[i].name)
  PROVE  /\ GetElement(t, t.item[i].name) \in DOMAIN t.item \ {Root, Throw}
         /\ t.item[GetElement(t, t.item[i].name)].name = t.item[i].name
         /\ GetElement(t, t.item[i].name) # i => t.kids[i] = <<>>
<1> DEFINE n == t.item[i].name
<1>1. IsTree(t) /\ Tidy(t)
  BY DEF Neat, Sound
<1>2. Proper(n)
  BY <1>1 DEF Tidy, ProperNames
<1>3. PICK d \in DOMAIN t.item : \E k \in DOMAIN t.kids[d] : t.kids[d][k] = i
  BY <1>1 DEF Tidy, EachListed
<1>4. PICK k \in DOMAIN t.kids[d] : t.kids[d][k] = i
  BY <1>3
<1>5. Base(t, n) = d
  BY <1>4, PlaceIsBase
<1>6. GetElement(t, n) = Child(t, d, n)
  BY <1>2, <1>5, ProperLookup
<1>7. Child(t, d, n) # Throw
  BY <1>1, <1>4, ListedIsFound
<1>8. GetElement(t, n) # i => t.kids[i] = <<>>
  BY <1>1 DEF Tidy, HiddenEmpty
<1> QED
  BY <1>1, <1>6, <1>7, <1>8, ChildFound

LEMMA OneHomeOfNeat ==
  ASSUME NEW t, Neat(t), NEW i \in DOMAIN t.item \ {Root}
  PROVE  LET homes == {h \in UNION {{d} \X DOMAIN t.kids[d] : d \in DOMAIN t.kids} :
                         t.kids[h[1]][h[2]] = i}
         IN  \E h \in homes : homes = {h}
<1> DEFINE homes == {h \in UNION {{d} \X DOMAIN t.kids[d] : d \in DOMAIN t.kids} :
                       t.kids[h[1]][h[2]] = i}
<1>1. IsTree(t) /\ Tidy(t) /\ DOMAIN t.kids = DOMAIN t.item
  BY TreeParts DEF Neat, Sound
<1>2. PICK d \in DOMAIN t.item : \E k \in DOMAIN t.kids[d] : t.kids[d][k] = i
  BY <1>1 DEF Tidy, EachListed
<1>3. PICK k \in DOMAIN t.kids[d] : t.kids[d][k] = i
  BY <1>2
<1>4. <<d, k>> \in homes
  BY <1>1, <1>3
<1>5. ASSUME NEW h \in homes PROVE h = <<d, k>>
  <2>1. PICK e \in DOMAIN t.kids : h \in {e} \X DOMAIN t.kids[e]
    BY <1>5
  <2>2. h = <<h[1], h[2]>> /\ h[1] = e /\ h[2] \in DOMAIN t.kids[e] /\ t.kids[e][h[2]] = i
    BY <1>5, <2>1
  <2>3. e = d /\ h[2] = k
    BY <1>1, <1>3, <2>2 DEF Tidy, OnePlace
  <2> QED
    BY <2>2, <2>3
<1>6. homes = {<<d, k>>}
  BY <1>4, <1>5
<1> QED
  BY <1>4, <1>6

----------------------------------------------------------------------------
(* The inductive invariant: both trees are neat. OneHome alone is not enough, *)
(* and neither is EveryNameIsFound: that a new item is found needs its parent *)
(* to be found, that the parent is found needs every directory with items to  *)
(* be found, and that rm takes away what it says and nothing else needs every *)
(* item to have one place.                                                    *)

NeatInv == /\ IInv
           /\ fs = NoFs \/ Neat(fs)
           /\ dst = NoFs \/ Neat(dst)

LEMMA NewRootNeat == Neat(EmptyTree(NewRoot))
<1>1. NewRoot.kind \in Kinds
  BY DEF NewRoot, Kinds
<1>2. NewRoot \in Items /\ NewRoot.kind = "dir" /\ NewRoot.name = Dot
  BY <1>1, DotParts, FsAssumption DEF NewRoot, Items, Data
<1> QED
  BY <1>2, EmptyTreeNeat

LEMMA NeatStep ==
  ASSUME NeatInv, [Next]_vars
  PROVE  NeatInv'
<1>1. IInv
  BY DEF NeatInv
<1>2. IInv'
  BY <1>1, StepKeeps
<1>3. fs' = NoFs \/ Neat(fs')
  <2>1. SlotStep
    BY <1>1, EveryStepOfTheSlot
  <2>2. CASE fs' = fs \/ fs' = NoFs
    BY <2>2 DEF NeatInv
  <2>3. CASE fs' = dst
    BY <2>3 DEF NeatInv
  <2>4. CASE fs # NoFs /\ SlotChanged
    <3>1. PICK p \in FsPaths : \/ Amended(fs, fs', p) \/ Added(fs, fs', p)
                               \/ Removed(fs, fs', p)
      BY <2>4 DEF SlotChanged
    <3>2. p \in Names /\ Neat(fs)
      BY <2>4, FsAssumption DEF NeatInv
    <3> QED
      BY <3>1, <3>2, NeatFromChange
  <2> QED
    BY <2>1, <2>2, <2>3, <2>4 DEF SlotStep
<1>4. dst' = NoFs \/ Neat(dst')
  <2>1. LoadStep
    BY <1>1, EveryStepOfTheLoad
  <2>2. CASE dst' = dst \/ dst' = NoFs
    BY <2>2 DEF NeatInv
  <2>3. CASE dst' = EmptyTree(NewRoot)
    BY <2>3, NewRootNeat
  <2>4. CASE dst # NoFs /\ \E p \in Names : Amended(dst, dst', p) \/ Added(dst, dst', p)
    <3>1. PICK p \in Names : Amended(dst, dst', p) \/ Added(dst, dst', p)
      BY <2>4
    <3>2. Neat(dst)
      BY <2>4 DEF NeatInv
    <3> QED
      BY <3>1, <3>2, NeatFromChange
  <2> QED
    BY <2>1, <2>2, <2>3, <2>4 DEF LoadStep
<1>5. (fs = NoFs \/ Neat(fs))'
  BY <1>3 DEF Neat, Sound, Named, NamedByPlace, IsTree, Tidy, OnlyDirsList, OnePlace,
              EachListed, ProperNames, HiddenEmpty, IsDir, NoBackslash, Plain
<1>6. (dst = NoFs \/ Neat(dst))'
  BY <1>4 DEF Neat, Sound, Named, NamedByPlace, IsTree, Tidy, OnlyDirsList, OnePlace,
              EachListed, ProperNames, HiddenEmpty, IsDir, NoBackslash, Plain
<1> QED
  BY <1>2, <1>5, <1>6 DEF NeatInv

LEMMA NeatInvariance == Spec => []NeatInv
<1>1. Init => NeatInv
  BY EmptySeq, NothingPlain DEF Init, NeatInv, IInv, Statuses
<1>2. NeatInv /\ [Next]_vars => NeatInv'
  BY NeatStep
<1> QED
  BY <1>1, <1>2, PTL DEF Spec

\* The Items lists form a tree: whatever archives are loaded, whatever is added
\* and removed, every object but Root is listed once, and only by a directory.
THEOREM ListsFormATree == Spec => []OneHome
<1>1. NeatInv => OneHome
  <2> SUFFICES ASSUME NeatInv, NEW t \in Trees
               PROVE  /\ \A d \in DOMAIN t.item : ~IsDir(t, d) => t.kids[d] = <<>>
                      /\ \A i \in DOMAIN t.item \ {Root} :
                           LET homes == {h \in UNION {{d} \X DOMAIN t.kids[d] :
                                                        d \in DOMAIN t.kids} :
                                           t.kids[h[1]][h[2]] = i}
                           IN  \E h \in homes : homes = {h}
    BY DEF OneHome
  <2>1. Neat(t)
    BY DEF NeatInv, Trees
  <2>2. \A d \in DOMAIN t.item : ~IsDir(t, d) => t.kids[d] = <<>>
    BY <2>1 DEF Neat, Tidy, OnlyDirsList
  <2> QED
    BY <2>1, <2>2, OneHomeOfNeat
<1> QED
  BY <1>1, NeatInvariance, PTL

\* No item is out of reach, if no path begins with a backslash: GetElement finds
\* each one under its own name, or an earlier namesake, and then the hidden one has
\* no items of its own.
THEOREM NothingIsOutOfReach ==
  ASSUME NoBackslash
  PROVE  Spec => []EveryNameIsFound
<1>1. NeatInv => EveryNameIsFound
  <2> SUFFICES ASSUME NeatInv, NEW t \in Trees, NEW i \in DOMAIN t.item \ {Root},
                      Lookable(t.item[i].name)
               PROVE  /\ GetElement(t, t.item[i].name) # Throw
                      /\ t.item[GetElement(t, t.item[i].name)].name = t.item[i].name
                      /\ GetElement(t, t.item[i].name) # i => t.kids[i] = <<>>
    BY DEF EveryNameIsFound
  <2>1. Neat(t)
    BY DEF NeatInv, Trees
  <2> QED
    BY <2>1, EveryItemFound
<1> QED
  BY <1>1, NeatInvariance, PTL
=============================================================================
