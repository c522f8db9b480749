------------------------------- MODULE FsTree -------------------------------
(***************************************************************************)
(* The in-memory filesystem tree of NyaFs (Filesystem.cs, FilesystemItem.cs *)
(* and Items/): directories own lists of items, every item carries its full *)
(* path as its file name, and an item is found by walking down from Root,   *)
(* comparing full paths.                                                    *)
(*                                                                          *)
(* A tree is a heap [item, kids]: item[i] is the object i, kids[i] the      *)
(* Items list of the directory i (empty for what is not a directory).       *)
(* A path is what Split('/') makes of the string: the sequence of its       *)
(* components, so that <<"", "a">> is "/a", <<"a", "">> is "a/" and         *)
(* <<"">> is the empty string.                                              *)
(***************************************************************************)
EXTENDS Integers, FiniteSets, SequencesExt, Lists

CONSTANTS
  Components, \* what a slash of a path may stand between
  Bare,       \* of each component that begins with a backslash, the rest of it
  Ids,        \* object identities; their number bounds the size of a tree
  Root        \* the object Filesystem.Root

Throw == -1   \* the call ended in an exception
Null  == -2   \* the call returned null

ASSUME IdsAssumption == /\ Ids \subseteq Nat
                        /\ Root \in Nat \ Ids

Blank   == ""
DotName == "."

ASSUME ComponentsAssumption == /\ {Blank, DotName} \subseteq Components
                               /\ Blank # DotName

ASSUME BareAssumption ==
  /\ Bare \in [DOMAIN Bare -> Components]
  /\ DOMAIN Bare \subseteq Components \ {Blank, DotName}

Dot   == <<DotName>>
Empty == <<Blank>>

----------------------------------------------------------------------------
(* Paths *)

\* The leading slash, when there is one, is dropped by every lookup.
Strip(p) == IF Len(p) > 1 /\ Head(p) = Blank THEN Tail(p) ELSE p

\* The name the constructor of an item makes of the path it is given: it drops a
\* leading slash or a leading backslash.
PreprocessFilename(p) == IF Head(p) \in DOMAIN Bare THEN [p EXCEPT ![1] = Bare[@]]
                                                    ELSE Strip(p)

\* The constructor and the lookups agree on the path p.
Plain(p) == Head(p) \notin DOMAIN Bare

\* GetParentDirPath: everything before the last slash, "." without a slash.
ParentPath(p) == IF Len(p) = 1 THEN Dot ELSE SubSeq(p, 1, Len(p) - 1)

----------------------------------------------------------------------------
(* Lookup *)

IsDir(t, i) == t.item[i].kind = "dir"

\* The foreach over Base.Items: the first item of directory d with file name n.
Child(t, d, n) ==
  LET places == {k \in DOMAIN t.kids[d] : t.item[t.kids[d][k]].name = n}
  IN  IF d \notin DOMAIN t.kids \/ places = {} THEN Throw
      ELSE t.kids[d][CHOOSE k \in places : \A j \in places : k <= j]

\* The directory reached by all components of q but the last, if each leads to
\* one. The name compared at each step is the path so far.
Base(t, q) ==
  LET at[k \in 0 .. Len(q) - 1] ==
        IF k = 0 THEN Root
        ELSE LET i == Child(t, at[k - 1], SubSeq(q, 1, k))
             IN  IF i # Throw /\ IsDir(t, i) THEN i ELSE Throw
  IN  at[Len(q) - 1]

\* GetElement: the object found, or the exception of a path that is empty, not
\* there, or leads through something that is not a directory.
GetElement(t, p) == IF p = Dot THEN Root
                    ELSE IF p = Empty THEN Throw
                    ELSE Child(t, Base(t, Strip(p)), Strip(p))

\* Mistake: Exists forgets the leading slash.
ExistsAsWritten(t, p) == p = Dot \/ (p # Empty /\ Child(t, Base(t, p), p) # Throw)

\* Exists walks as GetElement does and answers false where that one throws.
\* No command passes it an empty path.
Exists(t, p) == GetElement(t, p) # Throw

\* Mistake: whatever is found there is taken for a directory.
GetParentItem(t, p) == IF p = Dot THEN Null ELSE GetElement(t, ParentPath(p))

\* GetParentDirectory: null for "." and when the parent is not a directory.
GetParentDirectory(t, p) ==
  LET e == GetElement(t, ParentPath(p))
  IN  IF p = Dot THEN Null
      ELSE IF p = Empty \/ e = Throw THEN Throw
      ELSE IF IsDir(t, e) THEN e ELSE Null

----------------------------------------------------------------------------
(* Change *)

EmptyTree(root) == [item |-> [i \in {Root} |-> root],
                    kids |-> [i \in {Root} |-> <<>>]]

\* Filesystem.Loaded
Loaded(t) == t.kids[Root] # <<>>

HasRoom(t) == Ids \ DOMAIN t.item # {}

\* Mistake: the item keeps its name as the script wrote it.
AddItemAsWritten(t, d, x) ==
  LET i == CHOOSE n \in Ids : n \notin DOMAIN t.item
      D == DOMAIN t.item \cup {i}
  IN  [item |-> [n \in D |-> IF n = i THEN x ELSE t.item[n]],
       kids |-> [n \in D |-> IF n = i THEN <<>>
                             ELSE IF n = d THEN Append(t.kids[d], i)
                             ELSE t.kids[n]]]

\* Mistake: the directory gets the mode of the new item.
AddItemTouchingParent(t, d, x) ==
  [AddItemAsWritten(t, d, [x EXCEPT !.name = PreprocessFilename(@)])
     EXCEPT !.item[d].mode = x.mode]

\* A new object for item x, appended to the Items of directory d. The
\* constructor of the item has preprocessed its name.
AddItem(t, d, x) ==
  LET i == CHOOSE n \in Ids : n \notin DOMAIN t.item
      D == DOMAIN t.item \cup {i}
  IN  [item |-> [n \in D |-> IF n = i
                             THEN [x EXCEPT !.name = PreprocessFilename(@)]
                             ELSE t.item[n]],
       kids |-> [n \in D |-> IF n = i THEN <<>>
                             ELSE IF n = d THEN Append(t.kids[d], i)
                             ELSE t.kids[n]]]

\* The objects still reachable from Root: they are in every set that has Root
\* and, with a directory, its items. The others are garbage.
Reachable(t) ==
  {i \in DOMAIN t.item :
     \A S \in SUBSET DOMAIN t.item :
        (Root \in S /\ \A d \in S : ToSet(t.kids[d]) \subseteq S) => i \in S}

Collect(t) == [item |-> [i \in Reachable(t) |-> t.item[i]],
               kids |-> [i \in Reachable(t) |-> t.kids[i]]]

\* Mistake: every item of the directory goes.
RemoveEverything(t, d, n) == {Collect([t EXCEPT !.kids[d] = <<>>])}

\* The tree after Items.RemoveAll(FI => FI.Filename == n) on directory d. The
\* name is the path as it was passed, with its leading slash.
RemoveAll(t, d, n) ==
  LET kept == {k \in DOMAIN t.kids[d] : t.item[t.kids[d][k]].name # n}
  IN  {Collect([t EXCEPT !.kids[d] = s]) : s \in Selections(t.kids[d], kept)}

----------------------------------------------------------------------------
(* cpio archives: sequences of items in which name is the path of the entry *)

Kinds == {"dir", "file", "link", "dev"}    \* dev: Node, Block and Fifo

\* CpioReader.ReadToFs throws at an entry that has no parent directory among
\* the entries before it, and at one of a type it does not know.
Readable(t, e) == e.name = Dot \/ /\ GetParentDirectory(t, e.name) \notin {Throw, Null}
                                  /\ e.kind \in Kinds

\* One entry of the archive: "." gives Root its attributes, any other is a new
\* item of its parent. Nothing asks whether the parent has one of that name.
ReadOne(t, e) ==
  IF e.name = Dot
  THEN [t EXCEPT !.item[Root].mode = e.mode, !.item[Root].user = e.user,
                 !.item[Root].group = e.group]
  ELSE AddItem(t, GetParentDirectory(t, e.name), e)

\* Mistake: a directory is written after what is in it.
ArchiveChildrenFirst(t) ==
  LET below[d \in DOMAIN t.item] ==
        FlattenSeq([k \in DOMAIN t.kids[d] |->
                      below[t.kids[d][k]] \o <<t.item[t.kids[d][k]]>>])
  IN  below[Root]

\* CpioWriter.ProcessDirectory: depth first, an entry for every item before the
\* items below it, none for Root.
ArchiveOf(t) ==
  LET below[d \in DOMAIN t.item] ==
        FlattenSeq([k \in DOMAIN t.kids[d] |->
                      <<t.item[t.kids[d][k]]>> \o below[t.kids[d][k]]])
  IN  below[Root]

=============================================================================
