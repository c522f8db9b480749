----------------------------- MODULE FsCommands -----------------------------
(***************************************************************************)
(* The filesystem slot of an ImageProcessor and the script steps that work  *)
(* on it: load and store of a cpio archive, and the tree commands dir,      *)
(* file, slink, rm, chmod and chown (NyaFs/Processor/Scripting/Commands).   *)
(*                                                                          *)
(* Every step answers Ok, Warning or Error and the script goes on; nothing  *)
(* catches an exception, so one ends the process and with it everything     *)
(* that is in memory.                                                       *)
(***************************************************************************)
EXTENDS FsTree

CONSTANTS
  FsPaths,    \* paths a script names
  Archives,   \* cpio archives found on disk (sequences of items)
  Modes, Owners,
  RootMode, RootOwner,   \* those of a new Root
  Contents,   \* contents of local files
  Targets,    \* targets of symbolic links
  NoFile,     \* a local file that is not there
  NoData,     \* the data of an item that has none
  NoFs        \* the slot is null

\* Data of every kind an item can have.
Data == Contents \cup Targets \cup {NoData}

Names == Seq(Components) \ {<<>>}

Items == [name : Names, kind : Kinds, mode : Modes, user : Owners,
          group : Owners, data : Data]

\* The entries of an archive, those of unknown types included.
CpioNodes == [name : Names, kind : STRING, mode : Modes, user : Owners,
              group : Owners, data : Data]

\* The trees that can be made of the objects D.
Heaps(D) == [item : [D -> Items], kids : [D -> Seq(D \ {Root})]]

ASSUME FsAssumption == /\ FsPaths \subseteq Names
                       /\ \A a \in Archives : a \in Seq(CpioNodes)
                       /\ RootMode \in Modes /\ RootOwner \in Owners
                       /\ \A D \in SUBSET (Ids \cup {Root}) : NoFs \notin Heaps(D)

\* No path begins with a backslash. Where one does, the new item gets a name under
\* which no lookup finds it, or that of another item.
NoBackslash == /\ \A p \in FsPaths : Plain(p)
               /\ \A a \in Archives : \A k \in DOMAIN a : Plain(a[k].name)

VARIABLES
  fs,     \* the filesystem slot: NoFs or a tree
  dst,    \* the tree a load is filling, NoFs when no load is under way
  todo,   \* the entries of its archive that are still to be read
  reply   \* status of the last step of the script, "Exception" if it threw

vars == <<fs, dst, todo, reply>>

Statuses == {"Ok", "Warning", "Error", "Exception"}

\* Filesystem.Root as the constructor leaves it.
NewRoot == [name |-> Dot, kind |-> "dir", mode |-> RootMode, user |-> RootOwner,
            group |-> RootOwner, data |-> NoData]

Init == /\ fs = NoFs /\ dst = NoFs
        /\ todo = <<>>
        /\ reply = "Ok"

----------------------------------------------------------------------------
(* How a step ends *)

\* The next step of a script runs when no load is under way.
Ready == dst = NoFs

\* The step answers s and leaves the slot as it is.
Refuse(s) == reply' = s /\ UNCHANGED <<fs, dst, todo>>

\* The step has made the tree t of the slot.
Change(t) == fs' = t /\ reply' = "Ok" /\ UNCHANGED <<dst, todo>>

\* An exception leaves the process.
Crash == /\ fs' = NoFs /\ dst' = NoFs /\ todo' = <<>>
         /\ reply' = "Exception"

----------------------------------------------------------------------------
(* load ramfs cpio: the reader fills a new Filesystem, entry by entry *)

BeginLoad(a) == /\ Ready
                /\ dst' = EmptyTree(NewRoot)
                /\ todo' = a
                /\ UNCHANGED <<fs, reply>>

ReadEntry ==
  /\ ~Ready /\ todo # <<>>
  /\ IF Readable(dst, Head(todo))
     THEN /\ Head(todo).name # Dot => HasRoom(dst)
          /\ dst' = ReadOne(dst, Head(todo))
          /\ todo' = Tail(todo)
          /\ UNCHANGED <<fs, reply>>
     ELSE Crash

\* The slot gets the new tree if the archive had at least one item.
EndLoad ==
  /\ ~Ready /\ todo = <<>>
  /\ IF Loaded(dst)
     THEN /\ fs' = dst
          /\ reply' = IF fs # NoFs /\ Loaded(fs) THEN "Warning" ELSE "Ok"
     ELSE fs' = fs /\ reply' = "Error"
  /\ dst' = NoFs
  /\ UNCHANGED todo

\* store ramfs cpio. What it writes is ArchiveOf(fs); the slot keeps its tree.
Store == /\ Ready
         /\ Refuse(IF fs # NoFs /\ Loaded(fs) THEN "Ok" ELSE "Error")

----------------------------------------------------------------------------
(* dir, file and slink: update what is there, or add it to its parent *)

\* The item of the slot at p.
At(p) == fs.item[GetElement(fs, p)]

\* The item at p becomes x.
Put(p, x) == Change([fs EXCEPT !.item[GetElement(fs, p)] = x])

\* Mistake: the attributes stay those of the item that was there.
OverwriteData(old, x) == [old EXCEPT !.data = x.data]

\* An item that is there gets all of x but its name.
Overwrite(old, x) == [x EXCEPT !.name = old.name]

AddOrUpdate(p, x) ==
  LET d == GetParentDirectory(fs, p)
  IN  \/ /\ Exists(fs, p)
         /\ IF At(p).kind = x.kind THEN Put(p, Overwrite(At(p), x))
                                   ELSE Refuse("Error")
      \/ ~Exists(fs, p) /\ d = Throw /\ Crash
      \/ ~Exists(fs, p) /\ d = Null /\ Refuse("Error")
      \/ /\ ~Exists(fs, p) /\ d \notin {Throw, Null}
         /\ HasRoom(fs)
         /\ Change(AddItem(fs, d, x))

Item(p, k, m, u, g, c) == [name |-> p, kind |-> k, mode |-> m, user |-> u,
                           group |-> g, data |-> c]

Dir(p, m, u, g) ==
  /\ Ready
  /\ IF fs = NoFs THEN Refuse("Error")
     ELSE AddOrUpdate(p, Item(p, "dir", m, u, g, NoData))

\* file <path> <local> <mode> <user> <group>
File(p, c, m, u, g) ==
  /\ Ready
  /\ IF fs = NoFs \/ c = NoFile THEN Refuse("Error")
     ELSE AddOrUpdate(p, Item(p, "file", m, u, g, c))

\* file <path> <local>: the content only; there is nothing to make a file with.
FileContent(p, c) ==
  /\ Ready
  /\ IF fs = NoFs \/ c = NoFile THEN Refuse("Error")
     ELSE IF Exists(fs, p)
     THEN IF At(p).kind = "file" THEN Put(p, [At(p) EXCEPT !.data = c])
                                 ELSE Refuse("Error")
     ELSE IF GetParentDirectory(fs, p) = Throw THEN Crash ELSE Refuse("Error")

SLink(p, c, m, u, g) ==
  /\ Ready
  /\ IF fs = NoFs THEN Refuse("Error")
     ELSE AddOrUpdate(p, Item(p, "link", m, u, g, c))

----------------------------------------------------------------------------
(* rm, chmod and chown: only what is there *)

\* Filesystem.Delete; the parent of "." is null and that of "/a" the empty path.
Rm(p) ==
  /\ Ready
  /\ IF fs = NoFs THEN Refuse("Error")
     ELSE IF ~Exists(fs, p) THEN Refuse("Warning")
     ELSE LET d == GetParentDirectory(fs, p)
          IN  IF d \in {Throw, Null} THEN Crash
              ELSE \E t \in RemoveAll(fs, d, p) : Change(t)

\* The object at p becomes x.
Update(p, x) ==
  /\ Ready
  /\ IF fs = NoFs THEN Refuse("Error")
     ELSE IF ~Exists(fs, p) THEN Refuse("Warning")
     ELSE Put(p, x)

ChMod(p, m) == Update(p, [At(p) EXCEPT !.mode = m])

ChOwnUser(p, u) == Update(p, [At(p) EXCEPT !.user = u])

\* chown <path> <user> <group>: the step is built with the second argument as
\* the user and as the group; g, the third, is read and never used.
ChOwn(p, u, g) == Update(p, [At(p) EXCEPT !.user = u, !.group = u])

----------------------------------------------------------------------------

Next ==
  \/ \E a \in Archives : BeginLoad(a)
  \/ ReadEntry
  \/ EndLoad
  \/ Store
  \/ \E p \in FsPaths, m \in Modes, u, g \in Owners :
       \/ Dir(p, m, u, g)
       \/ \E c \in Contents \cup {NoFile} : File(p, c, m, u, g)
       \/ \E c \in Targets : SLink(p, c, m, u, g)
  \/ \E p \in FsPaths :
       \/ \E c \in Contents \cup {NoFile} : FileContent(p, c)
       \/ Rm(p)
       \/ \E m \in Modes : ChMod(p, m)
       \/ \E u \in Owners : ChOwnUser(p, u) \/ \E g \in Owners : ChOwn(p, u, g)

Spec == Init /\ [][Next]_vars

----------------------------------------------------------------------------
(* What the tree keeps *)

Trees == {fs, dst} \ {NoFs}

IsTree(t) ==
  LET D == DOMAIN t.item
  IN  /\ t \in Heaps(D)
      /\ Root \in D /\ D \subseteq Ids \cup {Root}
      /\ t.item[Root].kind = "dir"

\* The variables have the shape the processor's objects have, and no load
\* leaves entries behind for the next one.
TypeOK == /\ \A t \in Trees : IsTree(t)
          /\ todo \in Seq(CpioNodes)
          /\ dst = NoFs => todo = <<>>
          /\ reply \in Statuses

\* Only directories list items, and every item but Root is listed by exactly
\* one directory, once (the Items lists of Items/Dir.cs form a tree).
OneHome ==
  \A t \in Trees :
    /\ \A d \in DOMAIN t.item : ~IsDir(t, d) => t.kids[d] = <<>>
    /\ \A i \in DOMAIN t.item \ {Root} :
         LET homes == {h \in UNION {{d} \X DOMAIN t.kids[d] : d \in DOMAIN t.kids} :
                         t.kids[h[1]][h[2]] = i}
         IN  \E h \in homes : homes = {h}

\* The full path an item carries as its name is the name of the directory that
\* lists it and one component more. Root has no part in the names of its
\* items, unless the script wrote "./x", which is kept as it is.
NamedByPlace(t, d, n) ==
  IF d = Root THEN Len(n) = 1 \/ (Len(n) = 2 /\ n[1] = DotName)
              ELSE Len(n) > 0 /\ n = Append(t.item[d].name, n[Len(n)])

NamesFollowPlaces ==
  \A t \in Trees : \A d \in DOMAIN t.item : \A k \in DOMAIN t.kids[d] :
    NamedByPlace(t, d, t.item[t.kids[d][k]].name)

\* Nothing in the tree is out of reach of the commands: GetElement finds every
\* item under its own name, or an earlier one of that name from the archive,
\* and then the hidden one has no items of its own. Items written as "./x" are
\* never found again and are left out.
Lookable(n) == n[1] # DotName

EveryNameIsFound ==
  \A t \in Trees : \A i \in DOMAIN t.item \ {Root} :
    LET e == GetElement(t, t.item[i].name)
    IN  Lookable(t.item[i].name) =>
          /\ e # Throw
          /\ t.item[e].name = t.item[i].name
          /\ e # i => t.kids[i] = <<>>

Namesakes(t) ==
  \E i, j \in DOMAIN t.item :
    i # j /\ t.item[i].name = t.item[j].name /\ Lookable(t.item[i].name)

\* The commands make no second item of a name: only an archive that has one brings
\* one in (Exists is asked before each Items.Add of Commands/Fs).
NoNamesakes ==
  [][ Ready /\ NoFs \notin {fs, fs'} /\ ~Namesakes(fs) => ~Namesakes(fs') ]_vars

\* The tree an archive makes, all its entries read one by one.
Rebuilt(a) ==
  LET upTo[k \in 0 .. Len(a)] ==
        IF k = 0 THEN EmptyTree(NewRoot) ELSE ReadOne(upTo[k - 1], a[k])
  IN  upTo[Len(a)]

IsReadable(a) ==
  \A k \in DOMAIN a : Readable(Rebuilt(SubSeq(a, 1, k - 1)), a[k])

\* What a store writes, CpioReader reads back: no entry is refused and the tree
\* it makes is written as the same archive; only Root's attributes are lost.
RoundTrip ==
  fs # NoFs =>
    /\ IsReadable(ArchiveOf(fs))
    /\ ArchiveOf(Rebuilt(ArchiveOf(fs))) = ArchiveOf(fs)

\* A step that answers Ok did what its text says, for every path the lookup can
\* resolve: the item is there under that path with the attributes given. False
\* of a path that begins with a backslash: "file \a ..." answers Ok and makes a.
OkMeansDone ==
  [][ \A p \in FsPaths : reply' = "Ok" /\ Lookable(p) /\ fs' # NoFs =>
        LET e == GetElement(fs', p)
            x == fs'.item[e]
        IN  \A m \in Modes, u, g \in Owners :
              /\ ChMod(p, m) => e # Throw /\ x.mode = m
              /\ ChOwnUser(p, u) => e # Throw /\ x.user = u
              /\ Dir(p, m, u, g) =>
                   e # Throw /\ x = Item(x.name, "dir", m, u, g, NoData)
              /\ \A c \in Contents : File(p, c, m, u, g) =>
                   e # Throw /\ x = Item(x.name, "file", m, u, g, c)
              /\ \A c \in Targets : SLink(p, c, m, u, g) =>
                   e # Throw /\ x = Item(x.name, "link", m, u, g, c)
    ]_vars

\* rm answers "<path> deleted!" (Rm.cs:43) when nothing is found there any more.
\* False: the items are compared with the path as it was written, and a leading
\* slash is in no item's name. A step of rm that changes nothing is the same step as
\* one of Store, by whose name a trace may call it.
RmOkMeansGone ==
  [][ \A p \in FsPaths : Rm(p) /\ reply' = "Ok" => GetElement(fs', p) = Throw ]_vars

----------------------------------------------------------------------------
(* What the tree promises: a map from paths to entries *)

\* The items the commands can see, by name.
View(t) ==
  [n \in {t.item[i].name : i \in {j \in DOMAIN t.item :
                                     GetElement(t, t.item[j].name) = j}} |->
     LET x == t.item[GetElement(t, n)]
     IN  [kind |-> x.kind, mode |-> x.mode, user |-> x.user, group |-> x.group,
          data |-> x.data]]

\* The maps of the archives that are read to the end and hold an item.
Images == {View(Rebuilt(a)) :
             a \in {b \in Archives : IsReadable(b) /\ Loaded(Rebuilt(b))}}

\* An empty slot is the empty map: the map of a tree has the path of Root.
Promise == INSTANCE PathMap WITH
  map <- IF fs = NoFs THEN <<>> ELSE View(fs),
  NoMap <- <<>>,
  Paths <- {PreprocessFilename(p) : p \in FsPaths}
           \cup {PreprocessFilename(e.name) : e \in UNION {ToSet(a) : a \in Archives}},
  Entries <- [kind : Kinds, mode : Modes, user : Owners, group : Owners, data : Data]

\* Whatever archive is loaded and whatever the script does, each step is one
\* change of the map from paths to entries or none (Filesystem.cs).
KeepsPromise == Promise!Spec

=============================================================================
