--------------------------- MODULE FsPromise_proofs ----------------------------
(***************************************************************************)
(* Proofs about the steps of a script on the filesystem tree: no command    *)
(* makes a second item of a name, an answer Ok means that the step has done *)
(* what it says, and every step is one change of the map from paths to      *)
(* entries that the tree stands for, or none.                               *)
(***************************************************************************)
EXTENDS FsCommands_proofs

----------------------------------------------------------------------------
(* Names *)

LEMMA DotIsNotLookable ==
  ASSUME NoBackslash, NEW t, Neat(t)
  PROVE  ~Lookable(t.item[Root].name)
BY DotParts DEF Neat, Tidy, ProperNames, Lookable

\* Where nothing is found, no item has the name.
LEMMA NoneOfTheName ==
  ASSUME NoBackslash, NEW t, Neat(t), NEW p \in Names, GetElement(t, p) = Throw,
         GetParentDirectory(t, p) \notin {Throw, Null},
         NEW j \in DOMAIN t.item, Lookable(t.item[j].name)
  PROVE  t.item[j].name # Strip(p)
<1>1. IsTree(t) /\ Tidy(t)
  BY DEF Neat, Sound
<1>2. Proper(Strip(p)) /\ p # Dot /\ p # Empty
  BY <1>1, NewNameProper DEF Tidy
<1>3. GetElement(t, Strip(p)) = Throw
  BY <1>2, SameElement
<1>4. j # Root
  BY DotIsNotLookable
<1>5. GetElement(t, t.item[j].name) # Throw
  BY <1>4, EveryItemFound
<1> QED
  BY <1>3, <1>5

LEMMA AddedNamesakes ==
  ASSUME NoBackslash, NEW t, Neat(t), NEW p \in Names, GetElement(t, p) = Throw,
         NEW u, Added(t, u, p), Namesakes(u)
  PROVE  Namesakes(t)
<1> DEFINE d == GetParentDirectory(t, p)
<1>1. IsTree(t)
  BY DEF Neat, Sound
<1>2. PICK x \in Items : x.name = p /\ u = AddItem(t, d, x)
  BY DEF Added
<1>3. d \notin {Throw, Null} /\ HasRoom(t) /\ d \in DOMAIN t.item
  BY <1>1, ParentFound DEF Added
<1>4. /\ DOMAIN u.item = DOMAIN t.item \cup {Fresh(t)}
      /\ u.item[Fresh(t)].name = Strip(p)
      /\ \A n \in DOMAIN t.item : u.item[n] = t.item[n]
  BY <1>1, <1>2, <1>3, AddItemParts DEF Added
<1>5. PICK i, j \in DOMAIN u.item : /\ i # j /\ u.item[i].name = u.item[j].name
                                    /\ Lookable(u.item[i].name)
  BY DEF Namesakes
<1>6. ASSUME NEW n \in DOMAIN t.item, Lookable(t.item[n].name)
      PROVE  t.item[n].name # Strip(p)
  BY <1>3, <1>6, NoneOfTheName
<1> HIDE DEF d
<1>7. i \in DOMAIN t.item /\ j \in DOMAIN t.item
  BY <1>4, <1>5, <1>6
<1> QED
  BY <1>4, <1>5, <1>7 DEF Namesakes

\* Each command asks whether something is there before it adds an item, so only
\* an archive that has two entries of one path brings two items of a name. It asks
\* for the path as it was written: "dir a ..." and "dir \a ..." make two items a.
THEOREM CommandsAddNoNamesakes ==
  ASSUME NoBackslash
  PROVE  Spec => NoNamesakes
<1>1. NeatInv /\ [Next]_vars =>
        (Ready /\ NoFs \notin {fs, fs'} /\ ~Namesakes(fs) => ~Namesakes(fs'))
  <2> SUFFICES ASSUME NeatInv, [Next]_vars, Ready, NoFs \notin {fs, fs'},
                      ~Namesakes(fs)
               PROVE  ~Namesakes(fs')
    OBVIOUS
  <2>1. SlotStep /\ Neat(fs) /\ IsTree(fs)
    BY EveryStepOfTheSlot DEF NeatInv, Neat, Sound
  <2>2. CASE fs' = fs
    BY <2>2
  <2>3. CASE SlotChanged
    <3>1. PICK p \in FsPaths : \/ Amended(fs, fs', p)
                               \/ GetElement(fs, p) = Throw /\ Added(fs, fs', p)
                               \/ Removed(fs, fs', p)
      BY <2>3 DEF SlotChanged
    <3>2. p \in Names
      BY FsAssumption
    <3>3. CASE GetElement(fs, p) = Throw /\ Added(fs, fs', p)
      BY <2>1, <3>2, <3>3, AddedNamesakes
    <3>4. ASSUME DOMAIN fs'.item \subseteq DOMAIN fs.item,
                 \A i \in DOMAIN fs'.item : fs'.item[i].name = fs.item[i].name
          PROVE  ~Namesakes(fs')
      BY <3>4 DEF Namesakes
    <3>5. CASE Amended(fs, fs', p)
      <4> DEFINE e == GetElement(fs, p)
      <4>1. PICK x \in Items : x.name = fs.item[e].name /\ fs' = [fs EXCEPT !.item[e] = x]
        BY <3>5 DEF Amended
      <4>2. fs \in [item : [DOMAIN fs.item -> Items],
                    kids : [DOMAIN fs.item -> Seq(DOMAIN fs.item \ {Root})]]
        BY <2>1 DEF IsTree, Heaps
      <4>3. fs'.item = [fs.item EXCEPT ![e] = x]
        BY <4>1, <4>2
      <4> HIDE DEF e
      <4>4. /\ DOMAIN fs'.item = DOMAIN fs.item
            /\ \A i \in DOMAIN fs'.item : fs'.item[i].name = fs.item[i].name
        BY <4>1, <4>2, <4>3
      <4> QED
        BY <3>4, <4>4
    <3>6. CASE Removed(fs, fs', p)
      <4>1. Thinned(fs, fs')
        BY <2>1, <3>2, <3>6, ParentFound, RemoveAllThinned DEF Removed
      <4> QED
        BY <3>4, <4>1 DEF Thinned
    <3> QED
      BY <3>1, <3>3, <3>5, <3>6
  <2> QED
    BY <2>1, <2>2, <2>3 DEF SlotStep
<1> QED
  BY <1>1, NeatInvariance, PTL DEF Spec, NoNamesakes


----------------------------------------------------------------------------
(* What a step leaves at the path it was given *)

\* The parent a command asks for is the directory a lookup goes through.
LEMMA ParentIsBase ==
  ASSUME NoBackslash, NEW t, Neat(t), NEW p \in Names, Lookable(p),
         GetParentDirectory(t, p) \notin {Throw, Null}
  PROVE  Base(t, Strip(p)) = GetParentDirectory(t, p)
<1> DEFINE d == GetParentDirectory(t, p)
           q == ParentPath(p)
           n == Strip(p)
<1>1. IsTree(t) /\ Tidy(t)
  BY DEF Neat, Sound
<1>2. d = GetElement(t, q) /\ d # Throw /\ IsDir(t, d)
  BY DEF GetParentDirectory
<1>3. n \in Names /\ q \in Names /\ Strip(q) \in Names
  BY PathTypes
<1>4. CASE q = Dot
  <2>1. n = p /\ Len(p) = 1
    BY <1>4, NameBelowRoot DEF Lookable
  <2>2. d = Root
    BY <1>2, <1>4 DEF GetElement
  <2> HIDE DEF d, n
  <2> QED
    BY <2>1, <2>2, BaseOfOne DEF d, n
<1>5. CASE q # Dot
  <2>1. d \in DOMAIN t.item /\ d # Root /\ q # Empty /\ t.item[d].name = Strip(q)
    BY <1>1, <1>2, <1>5, ElementFound
  <2>2. Proper(Strip(q))
    BY <1>1, <2>1 DEF Tidy, ProperNames
  <2>3. n = Append(Strip(q), n[Len(n)])
    BY <1>5, <2>1, NameBelowParent
  <2> HIDE DEF n, q, d
  <2>4. Len(n) > 1 /\ ParentPath(n) = Strip(q)
    BY <1>3, <2>3, ParentOfAppend
  <2>5. GetElement(t, Strip(q)) = d
    BY <1>2, <1>3, <1>5, <2>1, <2>2, SameElement
  <2> QED
    BY <1>2, <1>3, <2>2, <2>4, <2>5, ThroughDirectory DEF n, d
<1> QED
  BY <1>4, <1>5

LEMMA AddedFound ==
  ASSUME NoBackslash, NEW t, Neat(t), NEW p \in Names, Plain(p), Lookable(p),
         GetElement(t, p) = Throw, GetParentDirectory(t, p) \notin {Throw, Null},
         HasRoom(t), NEW x \in Items, x.name = p
  PROVE  GetElement(AddItem(t, GetParentDirectory(t, p), x), p) = Fresh(t)
<1> DEFINE d == GetParentDirectory(t, p)
           n == Strip(p)
           u == AddItem(t, d, x)
<1>1. IsTree(t) /\ Sound(t) /\ Tidy(t) /\ Neat(u)
  BY AddItemNeat DEF Neat, Sound
<1>2. IsTree(u)
  BY <1>1 DEF Neat, Sound
<1>3. d \in DOMAIN t.item /\ d # Throw
  BY <1>1, ParentFound
<1>4. n \in Names /\ p # Dot /\ p # Empty
  BY <1>1, NewNameProper, PathTypes DEF Tidy
<1>5. Base(t, n) = d
  BY ParentIsBase
<1>6. Child(t, d, n) = Throw
  BY <1>4, <1>5 DEF GetElement
<1>7. FindsAsBefore(t, u)
  BY <1>1, <1>2, <1>3, AddFinds
<1>8. GetElement(u, p) = Child(u, Base(u, n), n)
  BY <1>4 DEF GetElement
<1> HIDE DEF d, n
<1>9. Base(u, n) = d
  BY <1>1, <1>3, <1>4, <1>5, <1>7, SameBase
<1>10. Child(u, d, n) = Fresh(t)
  BY <1>1, <1>2, <1>3, <1>6, AddedIsFound DEF n
<1> QED
  BY <1>8, <1>9, <1>10 DEF d

\* After a change of what stands at p the same object stands at p.
LEMMA AmendedFound ==
  ASSUME NEW t, IsTree(t), NEW p \in Names, GetElement(t, p) # Throw, NEW x,
         x.name = t.item[GetElement(t, p)].name, x.kind = t.item[GetElement(t, p)].kind
  PROVE  LET u == [t EXCEPT !.item[GetElement(t, p)] = x]
         IN  GetElement(u, p) = GetElement(t, p) /\ u.item[GetElement(t, p)] = x
<1> DEFINE e == GetElement(t, p)
           u == [t EXCEPT !.item[e] = x]
           D == DOMAIN t.item
<1>1. e \in D
  BY ElementFound
<1>2. t \in [item : [D -> Items], kids : [D -> Seq(D \ {Root})]]
  BY DEF IsTree, Heaps
<1>3. FindsAsBefore(t, u)
  BY <1>1, UpdateFinds
<1>4. GetElement(u, p) = e
  BY <1>3, SameFind
<1>5. u.item[e] = x
  BY <1>1, <1>2
<1> QED
  BY <1>4, <1>5

\* Ok from a command that changes what is there.
LEMMA PutDone ==
  ASSUME NoBackslash, NeatInv, fs # NoFs, NEW p \in Names, Exists(fs, p), NEW x,
         x.name = At(p).name, x.kind = At(p).kind, Put(p, x)
  PROVE  GetElement(fs', p) # Throw /\ fs'.item[GetElement(fs', p)] = x
<1>1. IsTree(fs)
  BY DEF NeatInv, Neat, Sound
<1>2. fs' = [fs EXCEPT !.item[GetElement(fs, p)] = x]
  BY DEF Put, Change
<1>3. GetElement(fs, p) # Throw
  BY DEF Exists
<1>4. /\ x.name = fs.item[GetElement(fs, p)].name
      /\ x.kind = fs.item[GetElement(fs, p)].kind
  BY DEF At
<1>5. GetElement(fs', p) = GetElement(fs, p) /\ fs'.item[GetElement(fs, p)] = x
  BY <1>1, <1>2, <1>3, <1>4, AmendedFound
<1> QED
  BY <1>3, <1>5

LEMMA UpdateDone ==
  ASSUME NoBackslash, NeatInv, NEW p \in Names, NEW x, Update(p, x), reply' = "Ok",
         fs # NoFs /\ Exists(fs, p) => x.name = At(p).name /\ x.kind = At(p).kind
  PROVE  /\ fs # NoFs /\ Exists(fs, p)
         /\ GetElement(fs', p) # Throw /\ fs'.item[GetElement(fs', p)] = x
<1>1. ~Refuse("Error") /\ ~Refuse("Warning")
  BY DEF Refuse
<1>2. fs # NoFs /\ Exists(fs, p) /\ Put(p, x)
  BY <1>1 DEF Update
<1> QED
  BY <1>2, PutDone

\* Ok from dir, file and slink.
LEMMA AddOrUpdateDone ==
  ASSUME NoBackslash, NeatInv, fs # NoFs, NEW p \in Names, Plain(p), Lookable(p),
         NEW x \in Items, x.name = p,
         AddOrUpdate(p, x), reply' = "Ok"
  PROVE  LET e == GetElement(fs', p)
             y == fs'.item[e]
         IN  e # Throw /\ y = Item(y.name, x.kind, x.mode, x.user, x.group, x.data)
<1> DEFINE d == GetParentDirectory(fs, p)
           y == fs'.item[GetElement(fs', p)]
<1>1. ~Refuse("Error") /\ ~Crash
  BY DEF Refuse, Crash
<1>2. Neat(fs) /\ IsTree(fs)
  BY DEF NeatInv, Neat, Sound
<1>3. CASE Exists(fs, p) /\ At(p).kind = x.kind /\ Put(p, Overwrite(At(p), x))
  <2>1. At(p) \in Items
    BY <1>3, AtItem DEF NeatInv
  <2>2. /\ Overwrite(At(p), x).name = At(p).name
        /\ Overwrite(At(p), x).kind = At(p).kind
        /\ Overwrite(At(p), x) = Item(At(p).name, x.kind, x.mode, x.user, x.group, x.data)
    BY <1>3, <2>1 DEF Overwrite, Items, Item
  <2>3. GetElement(fs', p) # Throw /\ y = Overwrite(At(p), x)
    BY <1>3, <2>2, PutDone
  <2> QED
    BY <2>2, <2>3 DEF Item
<1>4. CASE /\ ~Exists(fs, p) /\ d \notin {Throw, Null} /\ HasRoom(fs)
           /\ Change(AddItem(fs, d, x))
  <2>1. fs' = AddItem(fs, d, x) /\ GetElement(fs, p) = Throw
    BY <1>4 DEF Change, Exists
  <2>2. GetElement(fs', p) = Fresh(fs)
    BY <1>2, <1>4, <2>1, AddedFound
  <2>3. d \in DOMAIN fs.item
    BY <1>2, <1>4, ParentFound
  <2>4. Neat(fs') /\ IsTree(fs')
    <3>1. Neat(AddItem(fs, d, x))
      BY <1>2, <1>4, AddItemNeat
    <3> QED
      BY <2>1, <3>1 DEF Neat, Sound
  <2> HIDE DEF d
  <2>5. /\ Fresh(fs) \in DOMAIN fs'.item /\ Fresh(fs) \in Ids
        /\ fs'.item[Fresh(fs)].kind = x.kind /\ fs'.item[Fresh(fs)].mode = x.mode
        /\ fs'.item[Fresh(fs)].user = x.user /\ fs'.item[Fresh(fs)].group = x.group
        /\ fs'.item[Fresh(fs)].data = x.data
    BY <1>2, <1>4, <2>1, <2>3, AddItemParts
  <2>6. fs'.item[Fresh(fs)] \in Items /\ Fresh(fs) # Throw
    BY <2>4, <2>5, TreeParts
  <2>7. \A z \in Items : z = Item(z.name, z.kind, z.mode, z.user, z.group, z.data)
    BY DEF Items, Item
  <2> QED
    BY <2>2, <2>5, <2>6, <2>7
<1> QED
  BY <1>1, <1>3, <1>4 DEF AddOrUpdate

\* What a step that answers Ok has done, for a path the lookup can resolve.
LEMMA DoneStep ==
  ASSUME NoBackslash, NeatInv, NEW p \in FsPaths, reply' = "Ok", Lookable(p),
         NEW m \in Modes, NEW u \in Owners, NEW g \in Owners
  PROVE  LET e == GetElement(fs', p)
             x == fs'.item[e]
         IN  /\ ChMod(p, m) => e # Throw /\ x.mode = m
             /\ ChOwnUser(p, u) => e # Throw /\ x.user = u
             /\ Dir(p, m, u, g) =>
                  e # Throw /\ x = Item(x.name, "dir", m, u, g, NoData)
             /\ \A c \in Contents : File(p, c, m, u, g) =>
                  e # Throw /\ x = Item(x.name, "file", m, u, g, c)
             /\ \A c \in Targets : SLink(p, c, m, u, g) =>
                  e # Throw /\ x = Item(x.name, "link", m, u, g, c)
<1> DEFINE e == GetElement(fs', p)
           x == fs'.item[e]
<1>1. p \in Names /\ IInv
  BY FsAssumption DEF NeatInv
<1>2. ~Refuse("Error")
  BY DEF Refuse
<1>3. fs # NoFs /\ Exists(fs, p) => At(p) \in Items
  BY <1>1, AtItem
<1>4. ASSUME NEW k \in Kinds, NEW c \in Data, fs # NoFs,
             AddOrUpdate(p, Item(p, k, m, u, g, c))
      PROVE  e # Throw /\ x = Item(x.name, k, m, u, g, c)
  <2> DEFINE i == Item(p, k, m, u, g, c)
  <2>1. i \in Items
    BY <1>1 DEF Item, Items
  <2>2. /\ i.name = p /\ i.kind = k /\ i.mode = m /\ i.user = u
        /\ i.group = g /\ i.data = c
    BY DEF Item
  <2> HIDE DEF i
  <2>3. AddOrUpdate(p, i)
    BY <1>4 DEF i
  <2>4. e # Throw /\ x = Item(x.name, i.kind, i.mode, i.user, i.group, i.data)
    BY <1>1, <1>4, <2>1, <2>2, <2>3, AddOrUpdateDone DEF NoBackslash
  <2> QED
    BY <2>2, <2>4
<1>5. /\ "dir" \in Kinds /\ "file" \in Kinds /\ "link" \in Kinds /\ NoData \in Data
      /\ Contents \subseteq Data /\ Targets \subseteq Data
  BY DEF Kinds, Data
<1>6. ASSUME ChMod(p, m) PROVE e # Throw /\ x.mode = m
  <2> DEFINE y == [At(p) EXCEPT !.mode = m]
  <2>1. fs # NoFs /\ Exists(fs, p) => y.name = At(p).name /\ y.kind = At(p).kind /\ y.mode = m
    BY <1>3 DEF Items
  <2>2. Update(p, y)
    BY <1>6 DEF ChMod
  <2> HIDE DEF y
  <2>3. fs # NoFs /\ Exists(fs, p) /\ e # Throw /\ x = y
    BY <1>1, <2>1, <2>2, UpdateDone
  <2> QED
    BY <2>1, <2>3
<1>7. ASSUME ChOwnUser(p, u) PROVE e # Throw /\ x.user = u
  <2> DEFINE y == [At(p) EXCEPT !.user = u]
  <2>1. fs # NoFs /\ Exists(fs, p) => y.name = At(p).name /\ y.kind = At(p).kind /\ y.user = u
    BY <1>3 DEF Items
  <2>2. Update(p, y)
    BY <1>7 DEF ChOwnUser
  <2> HIDE DEF y
  <2>3. fs # NoFs /\ Exists(fs, p) /\ e # Throw /\ x = y
    BY <1>1, <2>1, <2>2, UpdateDone
  <2> QED
    BY <2>1, <2>3
<1> HIDE DEF e, x
<1>8. Dir(p, m, u, g) => e # Throw /\ x = Item(x.name, "dir", m, u, g, NoData)
  BY <1>2, <1>4, <1>5 DEF Dir
<1>9. \A c \in Contents : File(p, c, m, u, g) =>
        e # Throw /\ x = Item(x.name, "file", m, u, g, c)
  BY <1>2, <1>4, <1>5 DEF File
<1>10. \A c \in Targets : SLink(p, c, m, u, g) =>
         e # Throw /\ x = Item(x.name, "link", m, u, g, c)
  BY <1>2, <1>4, <1>5 DEF SLink
<1> QED
  BY <1>6, <1>7, <1>8, <1>9, <1>10 DEF e, x

\* A step that answers Ok did what its text says: under the path it was given,
\* slash or no slash in front, stands an item with the attributes it was given. No
\* path begins with a backslash.
THEOREM OkIsNoLie ==
  ASSUME NoBackslash
  PROVE  Spec => OkMeansDone
<1>1. NeatInv /\ [Next]_vars =>
        \A p \in FsPaths : reply' = "Ok" /\ Lookable(p) /\ fs' # NoFs =>
          LET e == GetElement(fs', p)
              x == fs'.item[e]
          IN  \A m \in Modes, u, g \in Owners :
                /\ ChMod(p, m) => e # Throw /\ x.mode = m
                /\ ChOwnUser(p, u) => e # Throw /\ x.user = u
                /\ Dir(p, m, u, g) =>
                     e # Throw /\ x = Item(x.name, "dir", m, u, g, NoData)
                /\ \A c \in Contents : File(p, c, m, u, g) =>
                     e # Throw /\ x = Item(x.name, "file", m, u, g, c)
                /\ \A c \in Targets : SLink(p, c, m, u, g) =>
                     e # Throw /\ x = Item(x.name, "link", m, u, g, c)
  BY DoneStep
<1> QED
  BY <1>1, NeatInvariance, PTL DEF Spec, OkMeansDone

----------------------------------------------------------------------------
(* The map a tree stands for *)

\* The paths under which something is found.
Seen(t, n) == n = Dot \/ (Proper(n) /\ GetElement(t, n) # Throw)

EntryOf(x) == [kind |-> x.kind, mode |-> x.mode, user |-> x.user,
               group |-> x.group, data |-> x.data]

LEMMA SeenElement ==
  ASSUME NoBackslash, NEW t, Neat(t), NEW n, Seen(t, n)
  PROVE  /\ n \in Names
         /\ GetElement(t, n) \in DOMAIN t.item
         /\ t.item[GetElement(t, n)].name = n
         /\ n # Dot => GetElement(t, n) # Root
<1>1. IsTree(t) /\ Tidy(t) /\ Root \in DOMAIN t.item
  BY TreeParts DEF Neat, Sound
<1>2. CASE n = Dot
  BY <1>1, <1>2, DotParts DEF GetElement, Tidy, ProperNames
<1>3. CASE n # Dot /\ Proper(n) /\ GetElement(t, n) # Throw
  BY <1>1, <1>3, ElementFound, ProperLookup DEF Proper
<1> QED
  BY <1>2, <1>3 DEF Seen

\* The map gives each of these paths the attributes of what is found there.
LEMMA ViewHolds ==
  ASSUME NoBackslash, NEW t, Neat(t)
  PROVE  /\ View(t) = [n \in DOMAIN View(t) |-> View(t)[n]]
         /\ \A n : n \in DOMAIN View(t) <=> Seen(t, n)
         /\ \A n : Seen(t, n) => View(t)[n] = EntryOf(t.item[GetElement(t, n)])
<1> DEFINE D == {t.item[i].name : i \in {j \in DOMAIN t.item :
                                     GetElement(t, t.item[j].name) = j}}
           f == [n \in D |-> EntryOf(t.item[GetElement(t, n)])]
<1>1. View(t) = f
  BY DEF View, EntryOf
<1>2. ASSUME NEW n, Seen(t, n) PROVE n \in D
  BY <1>2, SeenElement
<1>3. ASSUME NEW n \in D PROVE Seen(t, n)
  <2>1. PICK i \in DOMAIN t.item : n = t.item[i].name /\ GetElement(t, n) = i
    BY <1>3
  <2>2. IsTree(t) /\ Tidy(t)
    BY DEF Neat, Sound
  <2>3. i # Throw
    BY <2>2, TreeParts
  <2>4. i # Root => Proper(n)
    BY <2>1, <2>2 DEF Tidy, ProperNames
  <2>5. i = Root => n = Dot
    BY <2>1, <2>2 DEF Tidy, ProperNames
  <2> QED
    BY <2>1, <2>3, <2>4, <2>5 DEF Seen
<1> HIDE DEF D
<1>4. DOMAIN View(t) = D /\ View(t) = [n \in D |-> View(t)[n]]
  BY <1>1
<1>5. \A n : n \in DOMAIN View(t) <=> Seen(t, n)
  BY <1>2, <1>3, <1>4
<1>6. \A n \in D : View(t)[n] = EntryOf(t.item[GetElement(t, n)])
  BY <1>1
<1> QED
  BY <1>2, <1>4, <1>5, <1>6

\* Two trees with the same paths and the same attributes stand for one map.
LEMMA ViewsEqual ==
  ASSUME NoBackslash, NEW t, Neat(t), NEW m, m = [n \in DOMAIN m |-> m[n]],
         \A n : n \in DOMAIN m <=> Seen(t, n),
         \A n : Seen(t, n) => m[n] = EntryOf(t.item[GetElement(t, n)])
  PROVE  View(t) = m
<1>1. DOMAIN View(t) = DOMAIN m
  BY ViewHolds
<1>2. \A n \in DOMAIN m : View(t)[n] = m[n]
  BY ViewHolds
<1>3. View(t) = [n \in DOMAIN m |-> m[n]]
  BY <1>1, <1>2, ViewHolds
<1> QED
  BY <1>3

\* A path that begins with "." leads nowhere: no item is listed as ".".
LEMMA NothingBelowDot ==
  ASSUME NoBackslash, NEW t, Neat(t)
  PROVE  \A n : Proper(n) /\ ~Lookable(n) => GetElement(t, n) = Throw
<1> DEFINE S == {k \in Nat : \A n : Proper(n) /\ ~Lookable(n) /\ Len(n) = k =>
                               GetElement(t, n) = Throw}
<1>0. IsTree(t) /\ ProperNames(t)
  BY DEF Neat, Sound, Tidy
<1>1. ASSUME NEW k \in Nat, \A m \in Nat : m < k => m \in S
      PROVE  k \in S
  <2>1. ASSUME NEW n, Proper(n), ~Lookable(n), Len(n) = k,
               GetElement(t, n) # Throw
        PROVE  FALSE
    <3>1. n \in Names /\ n # Dot /\ n[1] = DotName
      BY <2>1 DEF Proper, Lookable
    <3>2. CASE Len(n) = 1
      <4>1. n = <<n[1]>>
        BY <3>1, <3>2, PathParts
      <4> QED
        BY <3>1, <4>1 DEF Dot
    <3>3. CASE Len(n) > 1
      <4> DEFINE r == ParentPath(n)
      <4>1. Base(t, n) # Throw
        <5>1. GetElement(t, n) = Child(t, Base(t, n), n) /\ Throw \notin DOMAIN t.kids
          BY <1>0, <2>1, ProperLookup, TreeParts
        <5> QED
          BY <2>1, <5>1 DEF Child
      <4>2. Proper(r) /\ Base(t, n) = GetElement(t, r)
        BY <1>0, <2>1, <3>3, <4>1, ThroughParent
      <4>3. Len(r) = k - 1 /\ k - 1 \in Nat /\ k - 1 < k /\ r[1] = n[1]
        <5>1. /\ Len(r) = Len(n) - 1 /\ Len(n) \in Nat
              /\ \A i \in 1 .. Len(n) - 1 : r[i] = n[i]
          BY <3>1, <3>3, ParentComponents, PathParts
        <5>2. 1 \in 1 .. Len(n) - 1
          BY <3>3, <5>1
        <5> QED
          BY <2>1, <3>3, <5>1, <5>2
      <4>4. ~Lookable(r)
        BY <3>1, <4>3 DEF Lookable
      <4>5. k - 1 \in S
        BY <1>1, <4>3
      <4> QED
        BY <4>1, <4>2, <4>3, <4>4, <4>5
    <3> QED
      BY <3>1, <3>2, <3>3, PathParts, OneOrMore
  <2> QED
    BY <2>1
<1> HIDE DEF S
<1>2. \A k \in Nat : k \in S
  BY <1>1, AllLengths
<1>3. \A n : Proper(n) => Len(n) \in S
  BY <1>2, PathParts DEF Proper
<1> QED
  BY <1>3 DEF S

----------------------------------------------------------------------------
(* Every change of the tree is a change of the map, or none *)

Paths == {PreprocessFilename(p) : p \in FsPaths}
         \cup {PreprocessFilename(e.name) : e \in UNION {ToSet(a) : a \in Archives}}

LEMMA PathsOfScripts ==
  ASSUME NoBackslash, NEW p \in FsPaths
  PROVE  Plain(p) /\ Strip(p) \in Paths
<1>1. Plain(p)
  BY DEF NoBackslash
<1>2. PreprocessFilename(p) \in Paths
  BY DEF Paths
<1> QED
  BY <1>1, <1>2, PlainNames

Entries == [kind : Kinds, mode : Modes, user : Owners, group : Owners, data : Data]

LEMMA MapNotEmpty ==
  ASSUME NoBackslash, NEW t, Neat(t)
  PROVE  View(t) # <<>>
<1>1. Dot \in DOMAIN View(t)
  BY ViewHolds DEF Seen
<1>2. DOMAIN <<>> = {}
  BY EmptySeq
<1> QED
  BY <1>1, <1>2

LEMMA EntryOfItem ==
  ASSUME NoBackslash, NEW t, Neat(t), NEW n, Seen(t, n)
  PROVE  View(t)[n] \in Entries
<1>1. t.item[GetElement(t, n)] \in Items
  BY SeenElement, TreeParts DEF Neat, Sound
<1>2. \A x \in Items : EntryOf(x) \in Entries
  BY DEF Items, EntryOf, Entries
<1> QED
  BY <1>1, <1>2, ViewHolds

\* Where the map is extended by n[p], or n[p] is all that differs.
LEMMA SetHolds ==
  ASSUME NoBackslash, NEW t, Neat(t), NEW u, Neat(u), NEW p, Seen(u, p),
         \A n : Seen(u, n) <=> Seen(t, n) \/ n = p,
         \A n : Seen(t, n) /\ n # p => View(u)[n] = View(t)[n]
  PROVE  Promise!Set(View(t), View(u), p)
<1>1. View(t) # <<>> /\ View(u) # <<>>
  BY MapNotEmpty
<1>2. p \in DOMAIN View(u) /\ View(u)[p] \in Entries
  BY ViewHolds, EntryOfItem
<1>3. DOMAIN View(u) = DOMAIN View(t) \cup {p}
  BY ViewHolds
<1>4. \A n \in DOMAIN View(u) : View(u)[n] = IF n = p THEN View(u)[p] ELSE View(t)[n]
  BY ViewHolds
<1>5. View(u) = [n \in DOMAIN View(t) \cup {p} |-> IF n = p THEN View(u)[p] ELSE View(t)[n]]
  BY <1>3, <1>4, ViewHolds
<1> QED
  BY <1>1, <1>2, <1>5 DEF Promise!Set, Entries

LEMMA AmendedMoves ==
  ASSUME NoBackslash, NEW t, Neat(t), NEW p \in FsPaths, NEW u, Amended(t, u, p)
  PROVE  Promise!Step(View(t), View(u))
<1> DEFINE e == GetElement(t, p)
           n == Strip(p)
           D == DOMAIN t.item
<1>1. IsTree(t) /\ Tidy(t) /\ p \in Names
  BY FsAssumption DEF Neat, Sound
<1>2. Neat(u) /\ IsTree(u)
  <2>1. Neat(u)
    BY <1>1, NeatFromChange
  <2> QED
    BY <2>1 DEF Neat, Sound
<1>3. e # Throw /\ e \in D
  BY <1>1, ElementFound DEF Amended
<1>4. PICK x \in Items : /\ x.name = t.item[e].name /\ x.kind = t.item[e].kind
                         /\ u = [t EXCEPT !.item[e] = x]
  BY DEF Amended
<1>5. t \in [item : [D -> Items], kids : [D -> Seq(D \ {Root})]]
  BY <1>1 DEF IsTree, Heaps
<1>6. u \in [item : [D -> Items], kids : [D -> Seq(D \ {Root})]]
  BY <1>4, <1>5
<1>7. /\ u.kids = t.kids /\ DOMAIN u.item = D
      /\ u.item[e] = x /\ \A i \in D \ {e} : u.item[i] = t.item[i]
  BY <1>3, <1>4, <1>5
<1>8. FindsAsBefore(t, u)
  BY <1>1, <1>3, <1>4, UpdateFinds
<1>9. FindsAsBefore(u, t)
  <2>1. t = [u EXCEPT !.item[e] = t.item[e]]
    BY <1>3, <1>4, <1>5
  <2>2. t.item[e].name = u.item[e].name /\ t.item[e].kind = u.item[e].kind
    BY <1>4, <1>7
  <2>3. FindsAsBefore(u, [u EXCEPT !.item[e] = t.item[e]])
    BY <1>2, <1>3, <1>7, <2>2, UpdateFinds
  <2> QED
    BY <2>1, <2>3
<1> HIDE DEF e, n, D
<1>10. n = Dot \/ Proper(n)
  <2>1. CASE p = Dot
    BY <2>1, DotParts DEF n
  <2>2. CASE p # Dot
    BY <1>1, <1>3, <2>2, ElementFound DEF n, e, D, Tidy, ProperNames
  <2> QED
    BY <2>1, <2>2
<1>11. GetElement(t, n) = e
  <2>1. CASE p = Dot
    BY <2>1, DotParts DEF n, e
  <2>2. CASE p # Dot
    <3>1. p # Empty /\ Proper(n)
      BY <1>1, <1>3, <2>2, ElementFound DEF n, e, D, Tidy, ProperNames
    <3> QED
      BY <1>1, <2>2, <3>1, SameElement DEF n, e
  <2> QED
    BY <2>1, <2>2
<1>12. Seen(t, n)
  BY <1>3, <1>10, <1>11 DEF Seen
<1>13. ASSUME NEW q \in Names PROVE GetElement(u, q) = GetElement(t, q)
  BY <1>1, <1>2, <1>8, <1>9, SameFind
<1>14. \A q : Seen(u, q) <=> Seen(t, q)
  BY <1>13, DotParts DEF Seen, Proper
<1>15. ASSUME NEW q, Seen(t, q), q # n PROVE View(u)[q] = View(t)[q]
  <2>1. q \in Names /\ GetElement(t, q) \in D /\ t.item[GetElement(t, q)].name = q
    BY <1>15, SeenElement DEF D
  <2>2. t.item[e].name = n
    BY <1>11, <1>12, SeenElement
  <2>3. GetElement(t, q) # e
    BY <1>15, <2>1, <2>2
  <2>4. u.item[GetElement(u, q)] = t.item[GetElement(t, q)]
    BY <1>7, <1>13, <2>1, <2>3
  <2> QED
    BY <1>2, <1>14, <1>15, <2>4, ViewHolds
<1>16. Promise!Set(View(t), View(u), n)
  BY <1>2, <1>12, <1>14, <1>15, SetHolds
<1>17. View(u)[n].kind = View(t)[n].kind
  <2>1. View(t)[n] = EntryOf(t.item[e])
    BY <1>11, <1>12, ViewHolds
  <2>2. View(u)[n] = EntryOf(u.item[e])
    BY <1>2, <1>10, <1>11, <1>12, <1>13, <1>14, ViewHolds, SeenElement
  <2> QED
    BY <1>4, <1>7, <2>1, <2>2 DEF EntryOf
<1>18. n \in DOMAIN View(t)
  BY <1>12, ViewHolds
<1>19. Promise!Amend(View(t), View(u), n)
  BY <1>16, <1>17, <1>18 DEF Promise!Amend
<1>20. n \in Paths
  BY PathsOfScripts DEF n
<1> QED
  BY <1>19, <1>20 DEF Promise!Step, Paths

LEMMA TopIsDirectory ==
  ASSUME NoBackslash, NEW t, Neat(t)
  PROVE  Promise!IsDirectory(View(t), Dot)
<1>1. IsTree(t)
  BY DEF Neat, Sound
<1>2. Seen(t, Dot) /\ GetElement(t, Dot) = Root
  BY DEF Seen, GetElement
<1>3. View(t)[Dot].kind = "dir"
  <2>1. View(t)[Dot] = EntryOf(t.item[Root])
    BY <1>2, ViewHolds
  <2>2. t.item[Root].kind = "dir"
    BY <1>1, TreeParts
  <2> QED
    BY <2>1, <2>2 DEF EntryOf
<1> QED
  BY <1>2, <1>3, ViewHolds DEF Promise!IsDirectory

\* The parent of a path that is looked up in a directory is in the map.
LEMMA ParentIsDirectory ==
  ASSUME NoBackslash, NEW t, Neat(t), NEW n, Proper(n), Base(t, n) # Throw
  PROVE  Promise!IsDirectory(View(t), Promise!Parent(n))
<1>1. IsTree(t) /\ ProperNames(t) /\ n \in Names
  BY DEF Neat, Sound, Tidy, Proper
<1>2. CASE Len(n) = 1
  <2>1. Promise!Parent(n) = Dot
    BY <1>2 DEF Promise!Parent, Promise!Top, Dot, DotName
  <2> QED
    BY <2>1, TopIsDirectory
<1>3. CASE Len(n) > 1
  <2> DEFINE r == ParentPath(n)
  <2>1. Promise!Parent(n) = r
    BY <1>1, <1>3, PathParts, OneOrMore DEF Promise!Parent, ParentPath
  <2>2. /\ Proper(r) /\ GetElement(t, r) # Throw
        /\ IsDir(t, GetElement(t, r))
    BY <1>1, <1>3, ThroughParent
  <2> HIDE DEF r
  <2>3. Seen(t, r)
    BY <2>2 DEF Seen
  <2>4. View(t)[r].kind = "dir"
    <3>1. View(t)[r] = EntryOf(t.item[GetElement(t, r)])
      BY <2>3, ViewHolds
    <3> QED
      BY <2>2, <3>1 DEF EntryOf, IsDir
  <2> QED
    BY <2>1, <2>3, <2>4, ViewHolds DEF Promise!IsDirectory
<1> QED
  BY <1>1, <1>2, <1>3, PathParts, OneOrMore

LEMMA AddedMoves ==
  ASSUME NoBackslash, NEW t, Neat(t), NEW p \in FsPaths, GetElement(t, p) = Throw,
         NEW u, Added(t, u, p)
  PROVE  Promise!Step(View(t), View(u)) \/ View(u) = View(t)
<1> DEFINE d == GetParentDirectory(t, p)
           n == Strip(p)
           D == DOMAIN t.item
<1>1. IsTree(t) /\ Tidy(t) /\ p \in Names
  BY FsAssumption DEF Neat, Sound
<1>2. Neat(u) /\ IsTree(u)
  <2>1. Neat(u)
    BY <1>1, NeatFromChange
  <2> QED
    BY <2>1 DEF Neat, Sound
<1>3. PICK x \in Items : x.name = p /\ u = AddItem(t, d, x)
  BY DEF Added
<1>4. d \notin {Throw, Null} /\ HasRoom(t) /\ d \in D
  BY <1>1, ParentFound DEF Added
<1>5. Proper(n) /\ p # Dot /\ p # Empty
  BY <1>1, <1>4, NewNameProper DEF Tidy
<1>6. /\ Fresh(t) \notin D /\ DOMAIN u.item = D \cup {Fresh(t)}
      /\ u.item[Fresh(t)].name = n
      /\ \A i \in D : u.item[i] = t.item[i]
  BY <1>1, <1>3, <1>4, AddItemParts, PathsOfScripts
<1>7. FindsAsBefore(t, u)
  BY <1>1, <1>2, <1>3, <1>4, AddFinds
<1>8. GetElement(t, n) = Throw
  BY <1>1, <1>5, SameElement
<1>9. n \in Names /\ n # Dot
  BY <1>5 DEF Proper
<1>10. Lookable(p) => GetElement(u, p) = Fresh(t)
  BY <1>1, <1>3, <1>4, AddedFound, PathsOfScripts
<1>11. Base(t, n) # Throw \/ ~Lookable(p)
  <2>1. d # Throw
    BY <1>4
  <2> HIDE DEF d
  <2>2. Lookable(p) => Base(t, n) = d
    BY <1>1, <1>4, ParentIsBase DEF d
  <2> QED
    BY <2>1, <2>2
<1>12. Lookable(p) \/ ~Lookable(n)
  <2>1. ASSUME ~Lookable(p) PROVE n = p
    <3>1. Head(p) = p[1] /\ p[1] # Blank
      BY <1>1, <2>1, PathParts, ComponentsAssumption DEF Lookable
    <3> QED
      BY <3>1 DEF Strip
  <2> QED
    BY <2>1
<1> HIDE DEF d, n, D
<1>13. ASSUME NEW q, Seen(t, q)
       PROVE  Seen(u, q) /\ q # n /\ View(u)[q] = View(t)[q]
  <2>1. q \in Names /\ GetElement(t, q) \in D /\ GetElement(t, q) # Throw
    BY <1>1, <1>13, SeenElement, TreeParts DEF D
  <2>2. GetElement(u, q) = GetElement(t, q)
    BY <1>1, <1>7, <2>1, SameFind
  <2>3. Seen(u, q)
    BY <1>13, <2>1, <2>2 DEF Seen
  <2>4. u.item[GetElement(u, q)] = t.item[GetElement(t, q)]
    BY <1>6, <2>1, <2>2
  <2> QED
    BY <1>2, <1>8, <1>13, <2>1, <2>3, <2>4, ViewHolds
<1>14. ASSUME NEW q, Seen(u, q), q # n
       PROVE  Seen(t, q)
  <2>1. CASE q = Dot
    BY <2>1 DEF Seen
  <2>2. CASE q # Dot
    <3>1. /\ Proper(q) /\ GetElement(u, q) \in DOMAIN u.item \ {Root}
          /\ u.item[GetElement(u, q)].name = q
      BY <1>2, <1>14, <2>2, SeenElement DEF Seen
    <3>2. Lookable(q)
      BY <1>1, <1>2, <1>14, <2>2, NothingBelowDot DEF Seen
    <3>3. GetElement(u, q) \in D \ {Root} /\ t.item[GetElement(u, q)].name = q
      BY <1>6, <1>14, <3>1
    <3>4. GetElement(t, q) # Throw
      BY <3>2, <3>3, EveryItemFound DEF D
    <3> QED
      BY <3>1, <3>4 DEF Seen
  <2> QED
    BY <2>1, <2>2
<1>15. CASE Lookable(p)
  <2>1. GetElement(u, n) = Fresh(t) /\ Fresh(t) # Throw
    <3>1. GetElement(u, n) = GetElement(u, p)
      BY <1>1, <1>5, SameElement DEF n
    <3>2. Fresh(t) \in DOMAIN u.item
      BY <1>6
    <3> QED
      BY <1>2, <1>10, <1>15, <3>1, <3>2, TreeParts
  <2>2. Seen(u, n)
    BY <1>5, <2>1 DEF Seen
  <2>3. Promise!Set(View(t), View(u), n)
    <3>1. \A q : Seen(u, q) <=> Seen(t, q) \/ q = n
      BY <1>13, <1>14, <2>2
    <3>2. \A q : Seen(t, q) /\ q # n => View(u)[q] = View(t)[q]
      BY <1>13
    <3> QED
      BY <1>2, <2>2, <3>1, <3>2, SetHolds
  <2>4. n \notin DOMAIN View(t)
    BY <1>13, ViewHolds
  <2>5. Promise!IsDirectory(View(t), Promise!Parent(n))
    BY <1>5, <1>11, <1>15, ParentIsDirectory
  <2>6. Promise!Create(View(t), View(u), n)
    BY <2>3, <2>4, <2>5 DEF Promise!Create
  <2>7. n \in Paths
    BY PathsOfScripts DEF n
  <2> QED
    BY <2>6, <2>7 DEF Promise!Step, Paths
<1>16. CASE ~Lookable(p)
  <2>1. ~Seen(u, n)
    BY <1>2, <1>5, <1>9, <1>12, <1>16, NothingBelowDot DEF Seen
  <2>2. \A q : Seen(u, q) <=> Seen(t, q)
    BY <1>13, <1>14, <2>1
  <2>3. \A q : q \in DOMAIN View(u) <=> Seen(t, q)
    BY <1>2, <2>2, ViewHolds
  <2>4. \A q : Seen(t, q) => View(u)[q] = EntryOf(t.item[GetElement(t, q)])
    BY <1>13, ViewHolds
  <2>5. View(u) = [q \in DOMAIN View(u) |-> View(u)[q]]
    BY <1>2, ViewHolds
  <2>6. View(t) = View(u)
    BY <2>3, <2>4, <2>5, ViewsEqual
  <2> QED
    BY <2>6
<1> QED
  BY <1>15, <1>16

\* RemoveAll keeps every element it does not remove.
LEMMA SelectionKeepsAll ==
  ASSUME NEW S, NEW s \in Seq(S), NEW K \in SUBSET DOMAIN s,
         NEW r \in Selections(s, K), NEW j \in K
  PROVE  \E k \in DOMAIN r : r[k] = s[j]
<1> DEFINE c == Cardinality(K)
<1>1. IsFiniteSet(K) /\ c \in Nat
  <2>1. DOMAIN s = 1 .. Len(s) /\ Len(s) \in Nat
    OBVIOUS
  <2>2. IsFiniteSet(1 .. Len(s))
    BY <2>1, FS_Interval
  <2> QED
    BY <2>1, <2>2, FS_Subset, FS_CardinalityType
<1>2. PICK f \in [1 .. c -> K] :
        /\ \A i, k \in DOMAIN f : i < k => f[i] < f[k]
        /\ r = [k \in DOMAIN f |-> s[f[k]]]
  BY DEF Selections
<1> HIDE DEF c
<1>3. ASSUME NEW i \in 1 .. c, NEW k \in 1 .. c, f[i] = f[k]
      PROVE  i = k
  <2>1. f[i] \in Nat /\ f[k] \in Nat
    BY <1>2
  <2>2. (i < k => f[i] < f[k]) /\ (k < i => f[k] < f[i])
    BY <1>2
  <2>3. ~(i < k) /\ ~(k < i)
    BY <1>3, <2>1, <2>2
  <2> QED
    BY <1>1, <2>3
<1>4. f \in Injection(1 .. c, K)
  BY <1>2, <1>3 DEF Injection, IsInjective
<1>5. Cardinality(1 .. c) = c
  BY <1>1, FS_Interval
<1>6. f \in Surjection(1 .. c, K)
  BY <1>1, <1>4, <1>5, FS_Injection DEF c
<1>7. PICK k \in 1 .. c : f[k] = j
  BY <1>6 DEF Surjection
<1> QED
  BY <1>2, <1>7

\* What rm leaves: all that is listed by what is left, but the items of that name.
LEMMA RemoveAllHolds ==
  ASSUME NoBackslash, NEW t, Neat(t), NEW d \in DOMAIN t.item, NEW n,
         NEW u \in RemoveAll(t, d, n), NEW b \in DOMAIN u.item
  PROVE  /\ \A k \in DOMAIN t.kids[b] :
              ~(b = d /\ t.item[t.kids[b][k]].name = n) => t.kids[b][k] \in DOMAIN u.item
         /\ b = d => \A k \in DOMAIN u.kids[b] : u.item[u.kids[b][k]].name # n
<1> DEFINE D == DOMAIN t.item
           kept == {k \in DOMAIN t.kids[d] : t.item[t.kids[d][k]].name # n}
<1>1. IsTree(t) /\ Sound(t)
  BY DEF Neat, Sound
<1>2. PICK s \in Selections(t.kids[d], kept) : u = Collect([t EXCEPT !.kids[d] = s])
  BY DEF RemoveAll
<1> DEFINE v == [t EXCEPT !.kids[d] = s]
<1>3. t.kids[d] \in Seq(D \ {Root})
  BY <1>1, TreeParts
<1>4. kept \in SUBSET DOMAIN t.kids[d]
  OBVIOUS
<1>5. \A j \in kept : t.item[t.kids[d][j]].name # n
  OBVIOUS
<1>6. \A j \in DOMAIN t.kids[d] : t.item[t.kids[d][j]].name # n => j \in kept
  OBVIOUS
<1> HIDE DEF kept
<1>7. /\ s \in Seq(D \ {Root})
      /\ \A k \in DOMAIN s : \E j \in kept : s[k] = t.kids[d][j]
  BY <1>2, <1>3, <1>4, SelectionFromList
<1>8. \A j \in kept : \E k \in DOMAIN s : s[k] = t.kids[d][j]
  BY <1>2, <1>3, <1>4, SelectionKeepsAll
<1>9. t \in [item : [D -> Items], kids : [D -> Seq(D \ {Root})]]
  BY <1>1 DEF IsTree, Heaps
<1>10. v \in [item : [D -> Items], kids : [D -> Seq(D \ {Root})]]
  BY <1>7, <1>9
<1>11. v.item = t.item /\ v.kids = [t.kids EXCEPT ![d] = s]
  BY <1>9
<1>12. u = Collect(v)
  BY <1>2
<1> HIDE DEF v
<1>13. IsTree(v)
  BY <1>1, <1>10, <1>11 DEF IsTree, Heaps
<1> DEFINE R == Reachable(v)
<1>14. u = [item |-> [i \in R |-> v.item[i]], kids |-> [i \in R |-> v.kids[i]]]
  BY <1>12 DEF Collect
<1>15. R \subseteq D /\ \A e \in R : v.kids[e] \in Seq(R \ {Root})
  BY <1>11, <1>13, ReachableClosed
<1> HIDE DEF R
<1>16. DOMAIN u.item = R /\ \A i \in R : u.item[i] = t.item[i] /\ u.kids[i] = v.kids[i]
  BY <1>11, <1>14
<1>17. b \in R /\ v.kids[b] \in Seq(R \ {Root})
  BY <1>15, <1>16
<1>18. \A k \in DOMAIN v.kids[b] : v.kids[b][k] \in R
  BY <1>17
<1>19. ASSUME NEW k \in DOMAIN t.kids[b], ~(b = d /\ t.item[t.kids[b][k]].name = n)
       PROVE  t.kids[b][k] \in DOMAIN u.item
  <2>1. CASE b # d
    <3>1. v.kids[b] = t.kids[b]
      BY <1>9, <1>11, <1>15, <1>17, <2>1
    <3> QED
      BY <1>16, <1>18, <3>1
  <2>2. CASE b = d
    <3>1. v.kids[b] = s
      BY <1>9, <1>11, <2>2
    <3>2. PICK l \in DOMAIN s : s[l] = t.kids[b][k]
      BY <1>6, <1>8, <1>19, <2>2
    <3> QED
      BY <1>16, <1>18, <3>1, <3>2
  <2> QED
    BY <2>1, <2>2
<1>20. ASSUME b = d, NEW k \in DOMAIN u.kids[b] PROVE u.item[u.kids[b][k]].name # n
  <2>1. u.kids[b] = s
    BY <1>9, <1>11, <1>16, <1>17, <1>20
  <2>2. s[k] \in R
    BY <1>16, <1>18, <1>20, <2>1
  <2>3. PICK j \in kept : s[k] = t.kids[d][j]
    BY <1>7, <1>20, <2>1
  <2> QED
    BY <1>5, <1>16, <2>1, <2>2, <2>3
<1> QED
  BY <1>19, <1>20

\* A path lies below another exactly when its parent does, or it is that path.
LEMMA UnderParts ==
  ASSUME NEW n \in Names, NEW p \in Names
  PROVE  /\ Promise!Under(p, p)
         /\ Promise!Under(n, p) => n[1] = p[1]
         /\ Promise!Under(n, p) /\ Len(n) = Len(p) => n = p
         /\ Len(n) > 1 /\ Promise!Under(ParentPath(n), p) => Promise!Under(n, p)
         /\ Len(n) > 1 /\ Promise!Under(n, p) /\ n # p => Promise!Under(ParentPath(n), p)
<1>1. /\ n \in Seq(Components) /\ Len(n) \in Nat /\ Len(n) > 0
      /\ p \in Seq(Components) /\ Len(p) \in Nat /\ Len(p) > 0
  BY PathParts
<1>2. SubSeq(n, 1, Len(n)) = n /\ SubSeq(p, 1, Len(p)) = p
  <2>1. ASSUME NEW s \in Seq(Components) PROVE SubSeq(s, 1, Len(s)) = s
    <3>1. \A i \in 1 .. Len(s) : s[i] \in Components
      BY <2>1
    <3>2. /\ SubSeq(s, 1, Len(s)) \in Seq(Components) /\ Len(SubSeq(s, 1, Len(s))) = Len(s)
          /\ \A i \in 1 .. Len(s) : SubSeq(s, 1, Len(s))[i] = s[i]
      BY <2>1, <3>1, SubSeqProperties
    <3> QED
      BY <2>1, <3>2, SeqEqual
  <2> QED
    BY <1>1, <2>1
<1>3. Len(p) <= Len(n) => SubSeq(n, 1, Len(p))[1] = n[1]
  <2> SUFFICES ASSUME Len(p) <= Len(n) PROVE SubSeq(n, 1, Len(p))[1] = n[1]
    OBVIOUS
  <2>1. \A i \in 1 .. Len(p) : n[i] \in Components
    BY <1>1
  <2>2. \A i \in 1 .. Len(p) : SubSeq(n, 1, Len(p))[i] = n[i]
    BY <1>1, <2>1, SubSeqProperties
  <2>3. 1 \in 1 .. Len(p)
    BY <1>1
  <2> QED
    BY <2>2, <2>3
<1>4. ASSUME Promise!Under(n, p), Len(n) = Len(p) PROVE n = p
  BY <1>2, <1>4 DEF Promise!Under
<1>5. ASSUME Len(n) > 1
      PROVE  /\ Len(ParentPath(n)) = Len(n) - 1
             /\ \A k \in 1 .. Len(n) - 1 : SubSeq(ParentPath(n), 1, k) = SubSeq(n, 1, k)
  BY <1>5, ParentComponents, StartOfParent
<1>6. ASSUME Len(n) > 1, Promise!Under(ParentPath(n), p) PROVE Promise!Under(n, p)
  <2>1. Len(p) <= Len(n) - 1 /\ SubSeq(ParentPath(n), 1, Len(p)) = p
    BY <1>5, <1>6 DEF Promise!Under
  <2>2. Len(p) \in 1 .. Len(n) - 1 /\ Len(p) <= Len(n)
    BY <1>1, <2>1
  <2> QED
    BY <1>5, <1>6, <2>1, <2>2 DEF Promise!Under
<1>7. ASSUME Len(n) > 1, Promise!Under(n, p), n # p PROVE Promise!Under(ParentPath(n), p)
  <2>1. Len(p) <= Len(n) /\ SubSeq(n, 1, Len(p)) = p /\ Len(n) # Len(p)
    BY <1>4, <1>7 DEF Promise!Under
  <2>2. Len(p) \in 1 .. Len(n) - 1 /\ Len(p) <= Len(n) - 1
    BY <1>1, <2>1
  <2> QED
    BY <1>5, <1>7, <2>1, <2>2 DEF Promise!Under
<1>8. Promise!Under(p, p)
  BY <1>1, <1>2 DEF Promise!Under
<1>9. Promise!Under(n, p) => n[1] = p[1]
  BY <1>3 DEF Promise!Under
<1> QED
  BY <1>4, <1>6, <1>7, <1>8, <1>9

\* What is found below a path is found through it.
LEMMA FoundThrough ==
  ASSUME NoBackslash, NEW t, Neat(t), NEW p, Proper(p)
  PROVE  \A n : Proper(n) /\ GetElement(t, n) # Throw /\ Promise!Under(n, p) =>
           GetElement(t, p) # Throw
<1> DEFINE S == {k \in Nat : \A n : Proper(n) /\ GetElement(t, n) # Throw
                                    /\ Promise!Under(n, p) /\ Len(n) = k =>
                               GetElement(t, p) # Throw}
<1>0. IsTree(t) /\ ProperNames(t) /\ p \in Names
  BY DEF Neat, Sound, Tidy, Proper
<1>1. ASSUME NEW k \in Nat, \A m \in Nat : m < k => m \in S
      PROVE  k \in S
  <2>1. ASSUME NEW n, Proper(n), Len(n) = k, GetElement(t, n) # Throw,
               Promise!Under(n, p)
        PROVE  GetElement(t, p) # Throw
    <3>1. n \in Names
      BY <2>1 DEF Proper
    <3>2. CASE n = p
      BY <2>1, <3>2
    <3>3. CASE n # p /\ Len(n) = 1
      <4>1. Len(p) <= Len(n) /\ Len(p) > 0 /\ Len(p) \in Nat
        BY <1>0, <2>1, PathParts DEF Promise!Under
      <4>2. Len(n) = Len(p)
        <5>1. \A x \in Nat : x > 0 /\ x <= 1 => x = 1
          OBVIOUS
        <5>2. Len(n) = 1 /\ Len(p) <= 1
          BY <3>3, <4>1
        <5> QED
          BY <4>1, <5>1, <5>2
      <4> QED
        BY <1>0, <2>1, <3>1, <3>3, <4>2, UnderParts
    <3>4. CASE n # p /\ Len(n) > 1
      <4> DEFINE r == ParentPath(n)
      <4>1. Base(t, n) # Throw
        <5>1. GetElement(t, n) = Child(t, Base(t, n), n) /\ Throw \notin DOMAIN t.kids
          BY <1>0, <2>1, ProperLookup, TreeParts
        <5> QED
          BY <2>1, <5>1 DEF Child
      <4>2. Proper(r) /\ GetElement(t, r) # Throw
        BY <1>0, <2>1, <3>4, <4>1, ThroughParent
      <4>3. Promise!Under(r, p)
        BY <1>0, <2>1, <3>1, <3>4, UnderParts
      <4>4. Len(r) = k - 1 /\ k - 1 \in Nat /\ k - 1 < k
        BY <2>1, <3>1, <3>4, ParentComponents
      <4>5. k - 1 \in S
        BY <1>1, <4>4
      <4> QED
        BY <4>2, <4>3, <4>4, <4>5
    <3> QED
      BY <3>1, <3>2, <3>3, <3>4, PathParts, OneOrMore
  <2> QED
    BY <2>1
<1> HIDE DEF S
<1>2. \A k \in Nat : k \in S
  BY <1>1, AllLengths
<1>3. \A n : Proper(n) => Len(n) \in S
  BY <1>2, PathParts DEF Proper
<1> QED
  BY <1>3 DEF S

\* What rm leaves in the map: all but the path it was given and what is below.
LEMMA RemovedSees ==
  ASSUME NoBackslash, NEW t, Neat(t), NEW p \in Names, NEW u, Removed(t, u, p)
  PROVE  /\ Neat(u)
         /\ \A n : Seen(u, n) => Seen(t, n) /\ ~Promise!Under(n, p)
         /\ \A n : Seen(t, n) /\ ~Promise!Under(n, p) =>
              /\ Seen(u, n)
              /\ u.item[GetElement(u, n)] = t.item[GetElement(t, n)]
<1> DEFINE d == GetParentDirectory(t, p)
<1>1. IsTree(t) /\ Tidy(t)
  BY DEF Neat, Sound
<1>2. Neat(u) /\ IsTree(u)
  <2>1. Neat(u)
    BY NeatFromChange
  <2> QED
    BY <2>1 DEF Neat, Sound
<1>3. d \notin {Throw, Null} /\ d \in DOMAIN t.item /\ u \in RemoveAll(t, d, p)
  BY <1>1, ParentFound DEF Removed
<1>4. p # Dot /\ p # Empty /\ Proper(Strip(p)) /\ GetElement(t, p) # Throw
  BY <1>1, <1>3, NewNameProper DEF Tidy, Removed
<1>5. Lookable(p)
  <2> SUFFICES ASSUME ~Lookable(p) PROVE FALSE
    OBVIOUS
  <2>1. Head(p) = p[1] /\ p[1] # Blank
    BY PathParts, ComponentsAssumption DEF Lookable
  <2>2. Strip(p) = p
    BY <2>1 DEF Strip
  <2> QED
    BY <1>4, <2>2, NothingBelowDot
<1>6. Base(t, Strip(p)) = d
  BY <1>3, <1>5, ParentIsBase
<1>7. Thinned(t, u) /\ EachListed(u)
  BY <1>3, RemoveAllThinned
<1> HIDE DEF d
<1>8. /\ DOMAIN u.item \subseteq DOMAIN t.item
      /\ \A i \in DOMAIN u.item : /\ u.item[i] = t.item[i]
                                  /\ \E f : Embeds(f, u.kids[i], t.kids[i])
  BY <1>7 DEF Thinned
<1> DEFINE S == {k \in Nat : \A n : /\ Proper(n) /\ GetElement(t, n) # Throw
                                    /\ ~Promise!Under(n, p) /\ Len(n) = k
                                    => GetElement(t, n) \in DOMAIN u.item}
<1>9. ASSUME NEW k \in Nat, \A m \in Nat : m < k => m \in S
      PROVE  k \in S
  <2>1. ASSUME NEW n, Proper(n), Len(n) = k, GetElement(t, n) # Throw,
               ~Promise!Under(n, p)
        PROVE  GetElement(t, n) \in DOMAIN u.item
    <3> DEFINE b == Base(t, n)
               e == GetElement(t, n)
    <3>1. n \in Names /\ e = Child(t, b, n) /\ e # Throw
      BY <2>1, ProperLookup DEF Proper
    <3>2. PICK l \in Nat : /\ IsFirst(t, b, l) /\ t.kids[b][l] = e
                           /\ t.item[t.kids[b][l]].name = n
      BY <1>1, <3>1, ChildIsFirst
    <3>3. b \in DOMAIN t.item /\ l \in DOMAIN t.kids[b] /\ b # Throw
      BY <1>1, <3>2, TreeParts DEF IsFirst
    <3>4. n # p
      BY <2>1, UnderParts
    <3>5. b \in DOMAIN u.item
      <4>1. CASE Len(n) = 1
        BY <1>2, <3>1, <4>1, BaseOfOne, TreeParts
      <4>2. CASE Len(n) > 1
        <5> DEFINE r == ParentPath(n)
        <5>1. Proper(r) /\ b = GetElement(t, r)
          BY <1>1, <2>1, <3>3, <4>2, ThroughParent DEF Tidy
        <5>2. ~Promise!Under(r, p)
          BY <2>1, <3>1, <4>2, UnderParts
        <5>3. Len(r) = k - 1 /\ k - 1 \in Nat /\ k - 1 < k
          BY <2>1, <3>1, <4>2, ParentComponents
        <5>4. k - 1 \in S
          BY <1>9, <5>3
        <5> QED
          BY <3>3, <5>1, <5>2, <5>3, <5>4
      <4> QED
        BY <3>1, <4>1, <4>2, PathParts, OneOrMore
    <3> HIDE DEF b
    <3>6. t.kids[b][l] \in DOMAIN u.item
      BY <1>3, <3>2, <3>3, <3>4, <3>5, RemoveAllHolds
    <3> QED
      BY <3>2, <3>6
  <2> QED
    BY <2>1
<1> HIDE DEF S
<1>10. ASSUME NEW n, Proper(n), GetElement(t, n) # Throw, ~Promise!Under(n, p)
       PROVE  GetElement(t, n) \in DOMAIN u.item /\ GetElement(u, n) = GetElement(t, n)
  <2>1. Len(n) \in S
    BY <1>9, <1>10, AllLengths, PathParts DEF Proper
  <2>2. GetElement(t, n) \in DOMAIN u.item
    BY <1>10, <2>1 DEF S
  <2> QED
    BY <1>1, <1>7, <1>10, <2>2, ThinnedFind DEF Tidy
<1>11. ASSUME NEW n, Seen(t, n), ~Promise!Under(n, p)
       PROVE  Seen(u, n) /\ u.item[GetElement(u, n)] = t.item[GetElement(t, n)]
  <2>1. CASE n = Dot
    <3>1. GetElement(t, n) = Root /\ GetElement(u, n) = Root /\ Root \in DOMAIN u.item
      BY <1>2, <2>1, TreeParts DEF GetElement
    <3> QED
      BY <1>8, <2>1, <3>1 DEF Seen
  <2>2. CASE n # Dot
    <3>1. Proper(n) /\ GetElement(t, n) # Throw
      BY <1>11, <2>2 DEF Seen
    <3>2. GetElement(t, n) \in DOMAIN u.item /\ GetElement(u, n) = GetElement(t, n)
      BY <1>10, <1>11, <3>1
    <3> QED
      BY <1>8, <3>1, <3>2 DEF Seen
  <2> QED
    BY <2>1, <2>2
<1>12. ASSUME NEW n, Seen(u, n) PROVE Seen(t, n)
  <2>1. CASE n = Dot
    BY <2>1 DEF Seen
  <2>2. CASE n # Dot
    <3>1. /\ Proper(n) /\ GetElement(u, n) \in DOMAIN u.item \ {Root}
          /\ u.item[GetElement(u, n)].name = n
      BY <1>2, <1>12, <2>2, SeenElement DEF Seen
    <3>2. Lookable(n)
      BY <1>2, <1>12, <2>2, NothingBelowDot DEF Seen
    <3>3. GetElement(u, n) \in DOMAIN t.item \ {Root} /\ t.item[GetElement(u, n)].name = n
      BY <1>8, <3>1
    <3>4. GetElement(t, n) # Throw
      BY <3>2, <3>3, EveryItemFound
    <3> QED
      BY <3>1, <3>4 DEF Seen
  <2> QED
    BY <2>1, <2>2
<1>13. ASSUME NEW n, Seen(u, n), Promise!Under(n, p) PROVE FALSE
  <2>1. n \in Names /\ n[1] = p[1]
    BY <1>2, <1>13, SeenElement, UnderParts
  <2>2. CASE n = Dot
    BY <1>5, <2>1, <2>2, DotParts DEF Lookable
  <2>3. CASE n # Dot
    <3>1. Proper(n) /\ GetElement(u, n) # Throw
      BY <1>13, <2>3 DEF Seen
    <3>2. p[1] # Blank
      BY <2>1, <3>1 DEF Proper
    <3>3. Strip(p) = p /\ Proper(p)
      BY <1>4, <3>2, PathParts DEF Strip, Proper
    <3>4. GetElement(u, p) # Throw
      BY <1>2, <1>13, <3>1, <3>3, FoundThrough
    <3>5. Seen(u, p)
      BY <3>3, <3>4 DEF Seen
    <3> DEFINE c == GetElement(u, p)
    <3>6. c \in DOMAIN u.item \ {Root} /\ u.item[c].name = p
      BY <1>2, <1>4, <3>5, SeenElement
    <3>7. PICK e \in DOMAIN u.item : \E j \in DOMAIN u.kids[e] : u.kids[e][j] = c
      BY <1>7, <3>6 DEF EachListed
    <3>8. PICK j \in DOMAIN u.kids[e] : u.kids[e][j] = c
      BY <3>7
    <3>9. PICK f : Embeds(f, u.kids[e], t.kids[e])
      BY <1>8
    <3> HIDE DEF c
    <3>10. e \in DOMAIN t.item /\ f[j] \in DOMAIN t.kids[e] /\ t.kids[e][f[j]] = c
      BY <1>8, <3>8, <3>9 DEF Embeds
    <3>11. t.item[c].name = p
      BY <1>8, <3>6
    <3>12. Base(t, p) = e
      BY <1>5, <3>10, <3>11, PlaceIsBase
    <3>13. e = d
      BY <1>6, <3>3, <3>12
    <3> QED
      BY <1>3, <3>6, <3>8, <3>13, RemoveAllHolds
  <2> QED
    BY <2>2, <2>3
<1> QED
  BY <1>2, <1>11, <1>12, <1>13

LEMMA RemovedMoves ==
  ASSUME NoBackslash, NEW t, Neat(t), NEW p \in FsPaths, NEW u, Removed(t, u, p)
  PROVE  Promise!Step(View(t), View(u)) \/ View(u) = View(t)
<1>1. IsTree(t) /\ Tidy(t) /\ p \in Names
  BY FsAssumption DEF Neat, Sound
<1>2. /\ Neat(u)
      /\ \A n : Seen(u, n) => Seen(t, n) /\ ~Promise!Under(n, p)
      /\ \A n : Seen(t, n) /\ ~Promise!Under(n, p) =>
           /\ Seen(u, n)
           /\ u.item[GetElement(u, n)] = t.item[GetElement(t, n)]
  BY <1>1, RemovedSees
<1>3. CASE p[1] = Blank
  <2>1. ASSUME NEW n, Seen(t, n) PROVE ~Promise!Under(n, p)
    <3>1. n \in Names /\ n[1] # Blank
      BY <2>1, SeenElement, DotParts, ComponentsAssumption DEF Seen, Proper
    <3> QED
      BY <1>1, <1>3, <3>1, UnderParts
  <2>2. \A n : n \in DOMAIN View(u) <=> Seen(t, n)
    BY <1>2, <2>1, ViewHolds
  <2>3. \A n : Seen(t, n) => View(u)[n] = EntryOf(t.item[GetElement(t, n)])
    BY <1>2, <2>1, ViewHolds
  <2>4. View(u) = [n \in DOMAIN View(u) |-> View(u)[n]]
    BY <1>2, ViewHolds
  <2> QED
    BY <2>2, <2>3, <2>4, ViewsEqual
<1>4. CASE p[1] # Blank
  <2>1. Strip(p) = p
    BY <1>1, <1>4, PathParts DEF Strip
  <2>2. GetElement(t, p) # Throw /\ p # Dot
    BY DEF Removed, GetParentDirectory
  <2>3. Seen(t, p)
    BY <1>1, <1>4, <2>2 DEF Seen, Proper
  <2>4. p \in DOMAIN View(t) \ {Dot}
    BY <2>2, <2>3, ViewHolds
  <2> DEFINE K == {r \in DOMAIN View(t) : ~Promise!Under(r, p)}
  <2>5. DOMAIN View(u) = K
    BY <1>2, ViewHolds
  <2>6. \A n \in K : View(u)[n] = View(t)[n]
    <3> SUFFICES ASSUME NEW n \in K PROVE View(u)[n] = View(t)[n]
      OBVIOUS
    <3>1. Seen(t, n) /\ ~Promise!Under(n, p)
      BY ViewHolds
    <3> HIDE DEF K
    <3>2. View(t)[n] = EntryOf(t.item[GetElement(t, n)])
      BY <3>1, ViewHolds
    <3>3. View(u)[n] = EntryOf(u.item[GetElement(u, n)])
      BY <1>2, <3>1, ViewHolds
    <3> QED
      BY <1>2, <3>1, <3>2, <3>3
  <2> HIDE DEF K
  <2>7. View(u) = [n \in K |-> View(t)[n]]
    <3>1. View(u) = [n \in DOMAIN View(u) |-> View(u)[n]]
      BY <1>2, ViewHolds
    <3> QED
      BY <2>5, <2>6, <3>1
  <2>8. View(t) # <<>> /\ View(u) # <<>>
    BY <1>2, MapNotEmpty
  <2>9. Promise!Remove(View(t), View(u), p)
    BY <2>4, <2>7, <2>8 DEF Promise!Remove, Promise!Top, Dot, DotName, K
  <2>10. p \in Paths
    BY <2>1, PathsOfScripts
  <2> QED
    BY <2>9, <2>10 DEF Promise!Step, Paths
<1> QED
  BY <1>3, <1>4

----------------------------------------------------------------------------
(* What a load makes of an archive *)

\* f is the reading of the first n entries of the archive a, tree by tree.
Reading(a, f, n) ==
  f = [k \in 0 .. n |-> IF k = 0 THEN EmptyTree(NewRoot) ELSE ReadOne(f[k - 1], a[k])]

LEMMA ReadingExists ==
  ASSUME NEW a
  PROVE  \A n \in Nat : \E f : Reading(a, f, n)
<1> DEFINE S == {n \in Nat : \E f : Reading(a, f, n)}
<1>1. 0 \in S
  <2> DEFINE f == [k \in 0 .. 0 |-> EmptyTree(NewRoot)]
  <2>1. Reading(a, f, 0)
    BY DEF Reading
  <2> QED
    BY <2>1
<1>2. ASSUME NEW n \in Nat, n \in S PROVE n + 1 \in S
  <2>1. PICK f : Reading(a, f, n)
    BY <1>2
  <2> DEFINE g == [k \in 0 .. n + 1 |-> IF k = n + 1 THEN ReadOne(f[n], a[n + 1]) ELSE f[k]]
  <2>2. \A k \in 0 .. n :
          f[k] = IF k = 0 THEN EmptyTree(NewRoot) ELSE ReadOne(f[k - 1], a[k])
    BY <2>1 DEF Reading
  <2>3. \A k \in 0 .. n + 1 :
          g[k] = IF k = 0 THEN EmptyTree(NewRoot) ELSE ReadOne(g[k - 1], a[k])
    BY <2>2
  <2>4. g = [k \in 0 .. n + 1 |-> g[k]]
    OBVIOUS
  <2>5. Reading(a, g, n + 1)
    BY <2>3, <2>4 DEF Reading
  <2> QED
    BY <2>5
<1> HIDE DEF S
<1>3. \A n \in Nat : n \in S
  BY <1>1, <1>2, AllNumbers
<1> QED
  BY <1>3 DEF S

LEMMA RebuiltOfReading ==
  ASSUME NEW a, Len(a) \in Nat
  PROVE  \E f : Reading(a, f, Len(a)) /\ Rebuilt(a) = f[Len(a)]
<1> DEFINE n == Len(a)
           upTo == CHOOSE f : Reading(a, f, n)
<1>1. Reading(a, upTo, n)
  BY ReadingExists
<1>2. Rebuilt(a) = upTo[n]
  BY DEF Rebuilt, Reading
<1> QED
  BY <1>1, <1>2

\* The tree of the first k entries.
UpTo(a, k) == Rebuilt(SubSeq(a, 1, k))

LEMMA StartOfArchive ==
  ASSUME NEW S, NEW a \in Seq(S), NEW n \in 0 .. Len(a), NEW g, Reading(a, g, Len(a))
  PROVE  UpTo(a, n) = g[n]
<1> DEFINE s == SubSeq(a, 1, n)
<1>1. n \in Nat /\ Len(a) \in Nat /\ n <= Len(a)
  OBVIOUS
<1>2. \A i \in 1 .. n : a[i] \in S
  BY <1>1
<1>3. Len(s) = n /\ \A i \in 1 .. n : s[i] = a[i]
  BY <1>1, <1>2, SubSeqProperties
<1> HIDE DEF s
<1>4. PICK f : Reading(s, f, n) /\ Rebuilt(s) = f[n]
  BY <1>1, <1>3, RebuiltOfReading
<1>5. /\ f[0] = EmptyTree(NewRoot)
      /\ \A k \in 1 .. n : f[k] = ReadOne(f[k - 1], s[k])
  BY <1>1, <1>4 DEF Reading
<1>6. /\ g[0] = EmptyTree(NewRoot)
      /\ \A k \in 1 .. Len(a) : g[k] = ReadOne(g[k - 1], a[k])
  BY <1>1 DEF Reading
<1>7. \A k \in 1 .. n : k \in 1 .. Len(a)
  BY <1>1
<1>8. f[0] = g[0]
  BY <1>5, <1>6
<1>9. \A k \in 0 .. n : f[k] = g[k]
  <2>1. \A k \in 1 .. n : f[k - 1] = g[k - 1] => f[k] = g[k]
    BY <1>3, <1>5, <1>6, <1>7
  <2>2. n \in Nat
    BY <1>1
  <2> QED
    BY <1>8, <2>1, <2>2, WalksAgree, ZenonT(60)
<1>10. n \in 0 .. n
  BY <1>1
<1> QED
  BY <1>4, <1>9, <1>10 DEF UpTo, s

LEMMA UpToParts ==
  ASSUME NEW S, NEW a \in Seq(S)
  PROVE  /\ UpTo(a, 0) = EmptyTree(NewRoot)
         /\ \A k \in 1 .. Len(a) : UpTo(a, k) = ReadOne(UpTo(a, k - 1), a[k])
         /\ UpTo(a, Len(a)) = Rebuilt(a)
<1>1. Len(a) \in Nat
  OBVIOUS
<1>2. PICK g : Reading(a, g, Len(a)) /\ Rebuilt(a) = g[Len(a)]
  BY <1>1, RebuiltOfReading
<1>3. \A n \in 0 .. Len(a) : UpTo(a, n) = g[n]
  BY <1>2, StartOfArchive
<1>4. /\ g[0] = EmptyTree(NewRoot)
      /\ \A k \in 1 .. Len(a) : g[k] = ReadOne(g[k - 1], a[k])
  BY <1>1, <1>2 DEF Reading
<1>5. /\ 0 \in 0 .. Len(a) /\ Len(a) \in 0 .. Len(a)
      /\ \A k \in 1 .. Len(a) : k \in 0 .. Len(a) /\ k - 1 \in 0 .. Len(a)
  BY <1>1
<1> QED
  BY <1>2, <1>3, <1>4, <1>5

\* The rest of an archive, entry by entry.
LEMMA RestOfArchive ==
  ASSUME NEW S, NEW a \in Seq(S), NEW k \in 0 .. Len(a)
  PROVE  /\ k = Len(a) <=> SubSeq(a, k + 1, Len(a)) = <<>>
         /\ k < Len(a) => /\ Head(SubSeq(a, k + 1, Len(a))) = a[k + 1]
                          /\ Tail(SubSeq(a, k + 1, Len(a))) = SubSeq(a, k + 2, Len(a))
<1> DEFINE n == Len(a)
           s == SubSeq(a, k + 1, n)
           r == SubSeq(a, k + 2, n)
<1>1. k \in Nat /\ n \in Nat /\ k <= n
  OBVIOUS
<1>2. \A i \in k + 1 .. n : a[i] \in S
  BY <1>1
<1>3. /\ s \in Seq(S) /\ Len(s) = IF k + 1 <= n THEN n - (k + 1) + 1 ELSE 0
      /\ \A i \in 1 .. n - (k + 1) + 1 : s[i] = a[k + 1 + i - 1]
  BY <1>1, <1>2, SubSeqProperties
<1>4. \A i \in k + 2 .. n : a[i] \in S
  BY <1>1
<1>5. /\ r \in Seq(S) /\ Len(r) = IF k + 2 <= n THEN n - (k + 2) + 1 ELSE 0
      /\ \A i \in 1 .. n - (k + 2) + 1 : r[i] = a[k + 2 + i - 1]
  BY <1>1, <1>4, SubSeqProperties
<1> HIDE DEF s, r, n
<1>6. Len(s) = n - k /\ \A i \in 1 .. n - k : s[i] = a[k + i]
  BY <1>1, <1>3
<1>7. k = n <=> s = <<>>
  BY <1>1, <1>3, <1>6, EmptySeq
<1>8. ASSUME k < n PROVE Head(s) = a[k + 1] /\ Tail(s) = r
  <2>1. s # <<>> /\ 1 \in 1 .. n - k
    BY <1>1, <1>7, <1>8
  <2>2. Head(s) = s[1]
    BY <1>3, <2>1
  <2>3. /\ Tail(s) \in Seq(S) /\ Len(Tail(s)) = n - k - 1
        /\ \A i \in 1 .. n - k - 1 : Tail(s)[i] = s[i + 1]
    BY <1>3, <1>6, <2>1, HeadTailProperties
  <2>4. Len(r) = n - k - 1 /\ \A i \in 1 .. n - k - 1 : r[i] = a[k + i + 1]
    BY <1>1, <1>5, <1>8
  <2>5. ASSUME NEW i \in 1 .. n - k - 1 PROVE s[i + 1] = a[k + i + 1]
    <3>1. i + 1 \in 1 .. n - k /\ k + (i + 1) = k + i + 1
      BY <1>1
    <3>2. s[i + 1] = a[k + (i + 1)]
      BY <1>6, <3>1
    <3> QED
      BY <3>1, <3>2
  <2>6. \A i \in 1 .. Len(r) : Tail(s)[i] = r[i]
    BY <2>3, <2>4, <2>5
  <2>7. Tail(s) = r
    BY <1>5, <2>3, <2>4, <2>6, SeqEqual
  <2> QED
    BY <1>6, <2>1, <2>2, <2>7
<1> QED
  BY <1>7, <1>8 DEF n, s, r

\* The tree a load is filling is that of the entries read so far, and the rest is
\* still to be read.
LoadInv ==
  dst # NoFs =>
    \E a \in Archives : \E k \in 0 .. Len(a) :
      /\ dst = UpTo(a, k)
      /\ todo = SubSeq(a, k + 1, Len(a))
      /\ \A j \in 1 .. k : Readable(UpTo(a, j - 1), a[j])

LEMMA EveryStepOfTheRest ==
  ASSUME [Next]_vars
  PROVE  \/ UNCHANGED <<dst, todo>>
         \/ dst' = NoFs
         \/ \E a \in Archives : BeginLoad(a)
         \/ ReadEntry
<1> DEFINE Keeps == UNCHANGED <<dst, todo>> \/ dst' = NoFs
<1>1. CASE UNCHANGED vars
  BY <1>1 DEF vars
<1>2. Crash => Keeps
  BY DEF Crash
<1>3. \A s : Refuse(s) => Keeps
  BY DEF Refuse
<1>4. \A t : Change(t) => Keeps
  BY DEF Change
<1> HIDE DEF Keeps
<1>5. EndLoad => Keeps
  BY DEF EndLoad, Keeps
<1>6. Store => Keeps
  BY <1>3 DEF Store
<1>7. \A p, x : AddOrUpdate(p, x) => Keeps
  BY <1>2, <1>3, <1>4 DEF AddOrUpdate, Put
<1>8. \A p, x : Update(p, x) => Keeps
  BY <1>3, <1>4 DEF Update, Put
<1>9. ASSUME NEW p, NEW m, NEW u, NEW g
      PROVE  /\ Dir(p, m, u, g) => Keeps
             /\ \A c : File(p, c, m, u, g) => Keeps
             /\ \A c : SLink(p, c, m, u, g) => Keeps
             /\ \A c : FileContent(p, c) => Keeps
             /\ Rm(p) => Keeps
             /\ ChMod(p, m) => Keeps
             /\ ChOwnUser(p, u) => Keeps
             /\ ChOwn(p, u, g) => Keeps
  <2>1. Dir(p, m, u, g) => Keeps
    BY <1>3, <1>7 DEF Dir
  <2>2. \A c : File(p, c, m, u, g) => Keeps
    BY <1>3, <1>7 DEF File
  <2>3. \A c : SLink(p, c, m, u, g) => Keeps
    BY <1>3, <1>7 DEF SLink
  <2>4. \A c : FileContent(p, c) => Keeps
    BY <1>2, <1>3, <1>4 DEF FileContent, Put
  <2>5. Rm(p) => Keeps
    BY <1>2, <1>3, <1>4 DEF Rm
  <2>6. ChMod(p, m) => Keeps
    BY <1>8 DEF ChMod
  <2>7. ChOwnUser(p, u) => Keeps
    BY <1>8 DEF ChOwnUser
  <2>8. ChOwn(p, u, g) => Keeps
    BY <1>8 DEF ChOwn
  <2> QED
    BY <2>1, <2>2, <2>3, <2>4, <2>5, <2>6, <2>7, <2>8
<1>10. Next => Keeps \/ (\E a \in Archives : BeginLoad(a)) \/ ReadEntry
  BY <1>5, <1>6, <1>9 DEF Next
<1> QED
  BY <1>1, <1>10 DEF Keeps

LEMMA LoadStepHolds ==
  ASSUME LoadInv, [Next]_vars
  PROVE  LoadInv'
<1> DEFINE Loading(d, r) ==
             \E a \in Archives : \E k \in 0 .. Len(a) :
               /\ d = UpTo(a, k)
               /\ r = SubSeq(a, k + 1, Len(a))
               /\ \A j \in 1 .. k : Readable(UpTo(a, j - 1), a[j])
<1>1. LoadInv <=> (dst # NoFs => Loading(dst, todo))
  BY DEF LoadInv
<1>2. LoadInv' <=> (dst' # NoFs => Loading(dst', todo'))
  BY DEF LoadInv
<1>3. CASE UNCHANGED <<dst, todo>>
  BY <1>1, <1>2, <1>3
<1>4. ASSUME NEW a \in Archives, BeginLoad(a) PROVE Loading(dst', todo')
  <2>1. a \in Seq(CpioNodes)
    BY FsAssumption
  <2>2. Len(a) \in Nat /\ 0 \in 0 .. Len(a)
    BY <2>1
  <2>3. dst' = UpTo(a, 0)
    BY <1>4, <2>1, UpToParts DEF BeginLoad
  <2>4. todo' = SubSeq(a, 0 + 1, Len(a))
    <3>1. \A i \in 1 .. Len(a) : a[i] \in CpioNodes
      BY <2>1
    <3>2. /\ SubSeq(a, 1, Len(a)) \in Seq(CpioNodes) /\ Len(SubSeq(a, 1, Len(a))) = Len(a)
          /\ \A i \in 1 .. Len(a) : SubSeq(a, 1, Len(a))[i] = a[i]
      BY <2>1, <2>2, <3>1, SubSeqProperties
    <3>3. SubSeq(a, 1, Len(a)) = a
      BY <2>1, <3>2, SeqEqual
    <3> QED
      BY <1>4, <3>3 DEF BeginLoad
  <2>5. \A j \in 1 .. 0 : Readable(UpTo(a, j - 1), a[j])
    OBVIOUS
  <2> QED
    BY <2>2, <2>3, <2>4, <2>5
<1>5. ASSUME ReadEntry, dst' # NoFs PROVE Loading(dst', todo')
  <2>1. dst # NoFs /\ todo # <<>> /\ ~Crash
    BY <1>5 DEF ReadEntry, Ready, Crash
  <2>2. Readable(dst, Head(todo)) /\ dst' = ReadOne(dst, Head(todo)) /\ todo' = Tail(todo)
    BY <1>5, <2>1 DEF ReadEntry
  <2>3. PICK a \in Archives : \E k \in 0 .. Len(a) :
          /\ dst = UpTo(a, k)
          /\ todo = SubSeq(a, k + 1, Len(a))
          /\ \A j \in 1 .. k : Readable(UpTo(a, j - 1), a[j])
    BY <1>1, <2>1
  <2>4. PICK k \in 0 .. Len(a) :
          /\ dst = UpTo(a, k)
          /\ todo = SubSeq(a, k + 1, Len(a))
          /\ \A j \in 1 .. k : Readable(UpTo(a, j - 1), a[j])
    BY <2>3
  <2>5. a \in Seq(CpioNodes)
    BY FsAssumption
  <2>6. k # Len(a)
    BY <2>1, <2>4, <2>5, RestOfArchive
  <2>7. Len(a) \in Nat /\ k \in Nat /\ k < Len(a) /\ k + 1 \in 1 .. Len(a)
    BY <2>5, <2>6
  <2>8. Head(todo) = a[k + 1] /\ Tail(todo) = SubSeq(a, k + 2, Len(a))
    BY <2>4, <2>5, <2>7, RestOfArchive
  <2>9. dst' = UpTo(a, k + 1)
    <3>1. (k + 1) - 1 = k
      BY <2>7
    <3>2. UpTo(a, k + 1) = ReadOne(UpTo(a, (k + 1) - 1), a[k + 1])
      BY <2>5, <2>7, UpToParts
    <3> QED
      BY <2>2, <2>4, <2>8, <3>1, <3>2
  <2>10. todo' = SubSeq(a, (k + 1) + 1, Len(a))
    BY <2>2, <2>7, <2>8
  <2>11. ASSUME NEW j \in 1 .. k + 1 PROVE Readable(UpTo(a, j - 1), a[j])
    <3>1. CASE j \in 1 .. k
      BY <2>4, <3>1
    <3>2. CASE j = k + 1
      <4>1. j - 1 = k
        BY <2>7, <3>2
      <4> QED
        BY <2>2, <2>4, <2>8, <3>2, <4>1
    <3> QED
      BY <2>7, <3>1, <3>2
  <2>12. k + 1 \in 0 .. Len(a)
    BY <2>7
  <2> QED
    BY <2>9, <2>10, <2>11, <2>12
<1> HIDE DEF Loading
<1>6. \/ UNCHANGED <<dst, todo>>
      \/ dst' = NoFs
      \/ \E a \in Archives : BeginLoad(a)
      \/ ReadEntry
  BY EveryStepOfTheRest
<1>7. (\E a \in Archives : BeginLoad(a)) => LoadInv'
  BY <1>2, <1>4
<1>8. dst' = NoFs \/ ReadEntry => LoadInv'
  BY <1>2, <1>5
<1> QED
  BY <1>3, <1>6, <1>7, <1>8

LEMMA LoadInvariance == Spec => []LoadInv
<1>1. Init => LoadInv
  BY DEF Init, LoadInv
<1>2. LoadInv /\ [Next]_vars => LoadInv'
  BY LoadStepHolds
<1> QED
  BY <1>1, <1>2, PTL DEF Spec

\* A load that comes to its end puts the tree of a whole archive in the slot.
LEMMA LoadedIsImage ==
  ASSUME LoadInv, dst # NoFs, todo = <<>>, Loaded(dst)
  PROVE  View(dst) \in Images
<1>1. PICK a \in Archives : \E k \in 0 .. Len(a) :
        /\ dst = UpTo(a, k)
        /\ todo = SubSeq(a, k + 1, Len(a))
        /\ \A j \in 1 .. k : Readable(UpTo(a, j - 1), a[j])
  BY DEF LoadInv
<1>2. PICK k \in 0 .. Len(a) :
        /\ dst = UpTo(a, k)
        /\ todo = SubSeq(a, k + 1, Len(a))
        /\ \A j \in 1 .. k : Readable(UpTo(a, j - 1), a[j])
  BY <1>1
<1>3. a \in Seq(CpioNodes)
  BY FsAssumption
<1>4. k = Len(a)
  BY <1>2, <1>3, RestOfArchive
<1>5. dst = Rebuilt(a)
  BY <1>2, <1>3, <1>4, UpToParts
<1>6. IsReadable(a)
  <2>1. DOMAIN a = 1 .. Len(a)
    BY <1>3
  <2> QED
    BY <1>2, <1>4, <2>1 DEF IsReadable, UpTo
<1> QED
  BY <1>5, <1>6 DEF Images

----------------------------------------------------------------------------
(* The refinement *)

\* The map of a slot; an empty one holds nothing.
MapOf(t) == IF t = NoFs THEN <<>> ELSE View(t)

LEMMA SlotMoves ==
  ASSUME NoBackslash, NeatInv, LoadInv, [Next]_vars
  PROVE  Promise!Step(MapOf(fs), MapOf(fs')) \/ MapOf(fs') = MapOf(fs)
<1>1. SlotStep
  BY EveryStepOfTheSlot DEF NeatInv
<1>2. CASE fs' = fs
  BY <1>2
<1>3. CASE fs' = NoFs
  BY <1>3 DEF MapOf, Promise!Step, Promise!Unmount
<1>4. CASE ~Ready /\ EndLoad /\ fs' = dst
  <2>1. dst # NoFs /\ todo = <<>>
    BY <1>4 DEF Ready, EndLoad
  <2>2. CASE Loaded(dst)
    <3>1. View(dst) \in Images /\ MapOf(fs') = View(dst)
      BY <1>4, <2>1, <2>2, LoadedIsImage DEF MapOf
    <3> QED
      BY <3>1 DEF Promise!Step, Promise!Mount, Images
  <2>3. CASE ~Loaded(dst)
    BY <1>4, <2>3 DEF EndLoad
  <2> QED
    BY <2>2, <2>3
<1>5. CASE Ready /\ fs # NoFs /\ SlotChanged
  <2>1. PICK p \in FsPaths : \/ Amended(fs, fs', p)
                             \/ GetElement(fs, p) = Throw /\ Added(fs, fs', p)
                             \/ Removed(fs, fs', p)
    BY <1>5 DEF SlotChanged
  <2>2. Neat(fs) /\ p \in Names
    BY <1>5, FsAssumption DEF NeatInv
  <2>3. Promise!Step(View(fs), View(fs')) \/ View(fs') = View(fs)
    BY <2>1, <2>2, AmendedMoves, AddedMoves, RemovedMoves
  <2>4. CASE fs' = NoFs
    BY <1>3, <2>4
  <2>5. CASE fs' # NoFs
    BY <1>5, <2>3, <2>5 DEF MapOf
  <2> QED
    BY <2>4, <2>5
<1> QED
  BY <1>1, <1>2, <1>3, <1>4, <1>5 DEF SlotStep

\* Whatever archive is loaded and whatever the script does, the tree is a map from
\* paths to entries, and each step is one change of it or none: an entry more
\* below a directory, other attributes of one that is there, one less with all
\* that is below it, or a whole archive in its place.
THEOREM TreeIsAMap ==
  ASSUME NoBackslash
  PROVE  Spec => KeepsPromise
<1>1. Init => Promise!Init
  BY DEF Init, Promise!Init
<1>2. NeatInv /\ LoadInv /\ [Next]_vars => [Promise!Next]_(MapOf(fs))
  <2> SUFFICES ASSUME NeatInv, LoadInv, [Next]_vars
               PROVE  Promise!Step(MapOf(fs), MapOf(fs')) \/ MapOf(fs') = MapOf(fs)
    BY DEF Promise!Next, MapOf
  <2> QED
    BY SlotMoves
<1> QED
  BY <1>1, <1>2, NeatInvariance, LoadInvariance, PTL
     DEF Spec, KeepsPromise, Promise!Spec, MapOf
=============================================================================
