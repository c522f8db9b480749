------------------------ MODULE CpioUpdater_proofs ------------------------
(***************************************************************************)
(* Proofs about the merge and the commands on a cpio archive, for any       *)
(* archives, local directories, paths and attributes: no name is ever in    *)
(* the archive twice, no entry shares the inode a new one is given, a merge *)
(* that ends leaves nothing local missing, an archive that could be         *)
(* unpacked from its first entry to its last still can be, and the archive  *)
(* implements the map from paths to entries of CpioMap.                     *)
(***************************************************************************)
EXTENDS CpioUpdater, TLAPS, SequenceTheorems, FiniteSetTheorems

----------------------------------------------------------------------------
(* What a step makes of the list *)

Sound(fs, n) == /\ fs \in Seq(Entries)
                /\ ~Namesakes(fs)
                /\ \A k \in DOMAIN fs : fs[k].ino <= n

\* The entries stay where they are, with their paths and inodes.
Kept(fs, gs) == /\ gs \in Seq(Entries)
                /\ DOMAIN gs = DOMAIN fs
                /\ \A k \in DOMAIN fs : gs[k].path = fs[k].path /\ gs[k].ino = fs[k].ino

\* Some entries are left, in their order.
Thinned(fs, gs) ==
  /\ gs \in Seq(Entries)
  /\ \E f \in [DOMAIN gs -> DOMAIN fs] :
       /\ \A i, j \in DOMAIN gs : i # j => f[i] # f[j]
       /\ \A k \in DOMAIN gs : gs[k] = fs[f[k]]

\* One more entry, of a new path and a new inode, at the end.
Grown(fs, n, gs) ==
  /\ gs \in Seq(Entries)
  /\ DOMAIN gs = DOMAIN fs \cup {Len(fs) + 1}
  /\ \A k \in DOMAIN fs : gs[k].path = fs[k].path /\ gs[k].ino = fs[k].ino
  /\ ~Exists(fs, gs[Len(fs) + 1].path)
  /\ gs[Len(fs) + 1].ino = n + 1

Outcome(fs, n, gs, m) == \/ m = n /\ (Kept(fs, gs) \/ Thinned(fs, gs))
                         \/ m = n + 1 /\ n < MaxTop /\ Grown(fs, n, gs)

\* The elements of a list of entries are entries.
LEMMA EntryOf ==
  ASSUME NEW fs \in Seq(Entries), NEW k \in DOMAIN fs
  PROVE  fs[k] \in Entries /\ fs[k].path \in Paths /\ fs[k].ino \in Nat
<1>1. fs[k] \in Entries
  OBVIOUS
<1> QED
  BY <1>1 DEF Entries

\* Names and numbers stay unique over a change of any of the three kinds.
LEMMA OutcomeIsSound ==
  ASSUME NEW fs, NEW n \in Nat, NEW gs, NEW m, Sound(fs, n), Outcome(fs, n, gs, m)
  PROVE  Sound(gs, m)
<1>1. /\ fs \in Seq(Entries)
      /\ \A i, j \in DOMAIN fs : fs[i].path = fs[j].path => i = j
      /\ \A k \in DOMAIN fs : fs[k].ino <= n /\ fs[k].ino \in Nat
  BY EntryOf DEF Sound, Namesakes
<1>2. CASE m = n /\ Kept(fs, gs)
  BY <1>1, <1>2 DEF Kept, Sound, Namesakes
<1>3. CASE m = n /\ Thinned(fs, gs)
  <2>1. PICK f \in [DOMAIN gs -> DOMAIN fs] :
          /\ \A i, j \in DOMAIN gs : i # j => f[i] # f[j]
          /\ \A k \in DOMAIN gs : gs[k] = fs[f[k]]
    BY <1>3 DEF Thinned
  <2>2. \A k \in DOMAIN gs : f[k] \in DOMAIN fs
    BY <2>1
  <2> QED
    BY <1>1, <1>3, <2>1, <2>2 DEF Thinned, Sound, Namesakes
<1>4. CASE m = n + 1 /\ Grown(fs, n, gs)
  <2> DEFINE l == Len(fs) + 1
  <2>1. \A k \in DOMAIN fs : gs[k].path # gs[l].path
    BY <1>4 DEF Grown, Exists, At
  <2>2. /\ gs \in Seq(Entries) /\ DOMAIN gs = DOMAIN fs \cup {l} /\ gs[l].ino = n + 1
        /\ \A k \in DOMAIN fs : gs[k].path = fs[k].path /\ gs[k].ino = fs[k].ino
    BY <1>4 DEF Grown
  <2> HIDE DEF l
  <2>3. \A i, j \in DOMAIN gs : gs[i].path = gs[j].path => i = j
    BY <1>1, <2>1, <2>2
  <2>4. \A k \in DOMAIN gs : gs[k].ino <= n + 1
    BY <1>1, <2>2
  <2> QED
    BY <1>4, <2>2, <2>3, <2>4 DEF Sound, Namesakes
<1> QED
  BY <1>2, <1>3, <1>4 DEF Outcome

\* The entry of a new path has an inode of its own.
LEMMA OutcomeIsFresh ==
  ASSUME NEW fs, NEW n \in Nat, NEW gs, NEW m, Sound(fs, n), Outcome(fs, n, gs, m),
         NEW i \in DOMAIN gs, NEW j \in DOMAIN gs, i # j, ~Exists(fs, gs[i].path)
  PROVE  gs[i].ino # gs[j].ino
<1>1. \A k \in DOMAIN fs : fs[k].ino <= n /\ fs[k].ino \in Nat
  BY EntryOf DEF Sound
<1>2. ~Kept(fs, gs) /\ ~Thinned(fs, gs)
  BY DEF Kept, Thinned, Exists, At
<1>3. Grown(fs, n, gs)
  BY <1>2 DEF Outcome
<1>4. i = Len(fs) + 1 /\ j \in DOMAIN fs
  BY <1>3 DEF Grown, Exists, At
<1> QED
  BY <1>1, <1>3, <1>4 DEF Grown

----------------------------------------------------------------------------
(* The changes of CpioArchive *)

\* Changes that keep the entries in their places compose.
LEMMA KeptTwice ==
  ASSUME NEW fs, NEW gs, NEW hs, Kept(fs, gs), Kept(gs, hs)
  PROVE  Kept(fs, hs)
BY DEF Kept

\* An entry with the path and the inode of e.
Like(e, d) == d \in Entries /\ d.path = e.path /\ d.ino = e.ino

LEMMA PermLike ==
  ASSUME NEW e \in Entries, NEW m \in Perms
  PROVE  Like(e, [e EXCEPT !.perm = m])
BY DEF Entries, Like

LEMMA UserLike ==
  ASSUME NEW e \in Entries, NEW u \in Owners
  PROVE  Like(e, [e EXCEPT !.user = u])
BY DEF Entries, Like

LEMMA GroupLike ==
  ASSUME NEW e \in Entries, NEW u \in Owners
  PROVE  Like(e, [e EXCEPT !.group = u])
BY DEF Entries, Like

LEMMA DataLike ==
  ASSUME NEW e \in Entries, NEW c \in Contents
  PROVE  Like(e, [e EXCEPT !.data = c])
BY DEF Entries, Like

LEMMA KeptAll ==
  ASSUME NEW fs \in Seq(Entries), NEW gs, gs = [k \in DOMAIN fs |-> gs[k]],
         \A k \in DOMAIN fs : Like(fs[k], gs[k])
  PROVE  Kept(fs, gs)
<1>1. DOMAIN gs = 1 .. Len(fs) /\ Len(fs) \in Nat
  OBVIOUS
<1>2. gs \in [1 .. Len(fs) -> Entries]
  BY <1>1 DEF Like
<1>3. gs \in Seq(Entries)
  BY <1>1, <1>2, SeqDef
<1> QED
  BY <1>1, <1>3 DEF Kept, Like

\* chmod, chown, group and new data leave paths and inodes alone.
LEMMA AttributesKeep ==
  ASSUME NEW fs \in Seq(Entries), NEW p
  PROVE  /\ \A m \in Perms : Kept(fs, ChMod(fs, p, m))
         /\ \A u \in Owners : Kept(fs, ChOwn(fs, p, u)) /\ Kept(fs, ChGroup(fs, p, u))
         /\ \A c \in Contents : Kept(fs, UpdateContent(fs, p, c))
<1>1. \A k \in DOMAIN fs : fs[k] \in Entries
  OBVIOUS
<1>2. ASSUME NEW m \in Perms PROVE Kept(fs, ChMod(fs, p, m))
  <2> DEFINE gs == ChMod(fs, p, m)
  <2>1. \A k \in DOMAIN fs : gs[k] = fs[k] \/ gs[k] = [fs[k] EXCEPT !.perm = m]
    BY DEF ChMod
  <2>2. gs = [k \in DOMAIN fs |-> gs[k]]
    BY DEF ChMod
  <2> HIDE DEF gs
  <2>3. ASSUME NEW k \in DOMAIN fs PROVE Like(fs[k], gs[k])
    <3>1. Like(fs[k], fs[k]) /\ Like(fs[k], [fs[k] EXCEPT !.perm = m])
      BY <1>1, PermLike DEF Like
    <3> QED
      BY <2>1, <3>1
  <2>4. Kept(fs, gs)
    BY <2>2, <2>3, KeptAll
  <2> QED
    BY <2>4 DEF gs
<1>3. ASSUME NEW u \in Owners PROVE Kept(fs, ChOwn(fs, p, u))
  <2> DEFINE gs == ChOwn(fs, p, u)
  <2>1. \A k \in DOMAIN fs : gs[k] = fs[k] \/ gs[k] = [fs[k] EXCEPT !.user = u]
    BY DEF ChOwn
  <2>2. gs = [k \in DOMAIN fs |-> gs[k]]
    BY DEF ChOwn
  <2> HIDE DEF gs
  <2>3. ASSUME NEW k \in DOMAIN fs PROVE Like(fs[k], gs[k])
    <3>1. Like(fs[k], fs[k]) /\ Like(fs[k], [fs[k] EXCEPT !.user = u])
      BY <1>1, UserLike DEF Like
    <3> QED
      BY <2>1, <3>1
  <2>4. Kept(fs, gs)
    BY <2>2, <2>3, KeptAll
  <2> QED
    BY <2>4 DEF gs
<1>4. ASSUME NEW u \in Owners PROVE Kept(fs, ChGroup(fs, p, u))
  <2> DEFINE gs == ChGroup(fs, p, u)
  <2>1. \A k \in DOMAIN fs : gs[k] = fs[k] \/ gs[k] = [fs[k] EXCEPT !.group = u]
    BY DEF ChGroup
  <2>2. gs = [k \in DOMAIN fs |-> gs[k]]
    BY DEF ChGroup
  <2> HIDE DEF gs
  <2>3. ASSUME NEW k \in DOMAIN fs PROVE Like(fs[k], gs[k])
    <3>1. Like(fs[k], fs[k]) /\ Like(fs[k], [fs[k] EXCEPT !.group = u])
      BY <1>1, GroupLike DEF Like
    <3> QED
      BY <2>1, <3>1
  <2>4. Kept(fs, gs)
    BY <2>2, <2>3, KeptAll
  <2> QED
    BY <2>4 DEF gs
<1>5. ASSUME NEW c \in Contents PROVE Kept(fs, UpdateContent(fs, p, c))
  <2> DEFINE gs == UpdateContent(fs, p, c)
  <2>1. \A k \in DOMAIN fs : gs[k] = fs[k] \/ gs[k] = [fs[k] EXCEPT !.data = c]
    BY DEF UpdateContent
  <2>2. gs = [k \in DOMAIN fs |-> gs[k]]
    BY DEF UpdateContent
  <2> HIDE DEF gs
  <2>3. ASSUME NEW k \in DOMAIN fs PROVE Like(fs[k], gs[k])
    <3>1. Like(fs[k], fs[k]) /\ Like(fs[k], [fs[k] EXCEPT !.data = c])
      BY <1>1, DataLike DEF Like
    <3> QED
      BY <2>1, <3>1
  <2>4. Kept(fs, gs)
    BY <2>2, <2>3, KeptAll
  <2> QED
    BY <2>4 DEF gs
<1> QED
  BY <1>2, <1>3, <1>4, <1>5

\* So do the three together.
LEMMA DressedKeeps ==
  ASSUME NEW fs \in Seq(Entries), NEW p, NEW m \in Perms, NEW u \in Owners, NEW g \in Owners
  PROVE  Kept(fs, Dressed(fs, p, m, u, g))
<1> DEFINE a == ChMod(fs, p, m)
           b == ChOwn(a, p, u)
           c == ChGroup(b, p, g)
<1>1. Kept(fs, a)
  BY AttributesKeep
<1>2. a \in Seq(Entries)
  BY <1>1 DEF Kept
<1> HIDE DEF a
<1>3. Kept(a, b)
  BY <1>2, AttributesKeep
<1>4. b \in Seq(Entries)
  BY <1>3 DEF Kept
<1> HIDE DEF b
<1>5. Kept(b, c)
  BY <1>4, AttributesKeep
<1> HIDE DEF c
<1>6. Kept(fs, b)
  BY <1>1, <1>3, KeptTwice
<1>7. Kept(fs, c)
  BY <1>5, <1>6, KeptTwice
<1> QED
  BY <1>7 DEF Dressed, a, b, c

\* A removal leaves some of the entries.
LEMMA WithoutThins ==
  ASSUME NEW fs \in Seq(Entries), NEW K, NEW gs \in Without(fs, K)
  PROVE  Thinned(fs, gs)
<1> DEFINE L == DOMAIN fs \ K
           N == Cardinality(L)
<1>1. N \in Nat
  <2>1. DOMAIN fs = 1 .. Len(fs) /\ Len(fs) \in Nat
    OBVIOUS
  <2>2. IsFiniteSet(1 .. Len(fs))
    BY <2>1, FS_Interval
  <2>3. IsFiniteSet(L)
    BY <2>1, <2>2, FS_Subset
  <2> QED
    BY <2>3, FS_CardinalityType
<1>2. PICK f \in [1 .. N -> L] :
         /\ \A i, j \in DOMAIN f : i < j => f[i] < f[j]
         /\ gs = [k \in DOMAIN f |-> fs[f[k]]]
  BY DEF Without, Selections
<1> HIDE DEF N
<1>3. L \subseteq DOMAIN fs /\ DOMAIN fs \subseteq Nat
  OBVIOUS
<1> HIDE DEF L
<1>4. gs = [k \in 1 .. N |-> fs[f[k]]] /\ DOMAIN gs = 1 .. N
  BY <1>2
<1>5. \A k \in 1 .. N : f[k] \in DOMAIN fs /\ fs[f[k]] \in Entries
  BY <1>2, <1>3
<1>6. gs \in [1 .. N -> Entries]
  BY <1>4, <1>5
<1>7. gs \in Seq(Entries)
  BY <1>1, <1>6, SeqDef
<1>8. ASSUME NEW i \in 1 .. N, NEW j \in 1 .. N, i # j PROVE f[i] # f[j]
  <2>1. f[i] \in Nat /\ f[j] \in Nat /\ DOMAIN f = 1 .. N
    BY <1>2, <1>3, <1>5
  <2>2. CASE i < j
    BY <1>2, <2>1, <2>2
  <2>3. CASE j < i
    BY <1>2, <2>1, <2>3
  <2> QED
    <3>1. i \in Int /\ j \in Int
      BY <1>1
    <3>2. i < j \/ j < i
      BY <1>8, <3>1
    <3> QED
      BY <2>2, <2>3, <3>2
<1>9. f \in [DOMAIN gs -> DOMAIN fs]
  BY <1>2, <1>3, <1>4
<1> QED
  BY <1>4, <1>7, <1>8, <1>9 DEF Thinned

\* A new node at the end, and whatever attributes it is then given.
LEMMA AppendGrows ==
  ASSUME NEW fs \in Seq(Entries), NEW e \in Entries, NEW n \in Nat, NEW gs,
         ~Exists(fs, e.path), e.ino = n + 1, Kept(Append(fs, e), gs)
  PROVE  Grown(fs, n, gs)
<1> DEFINE hs == Append(fs, e)
           l == Len(fs) + 1
<1>1. /\ hs \in Seq(Entries) /\ DOMAIN hs = 1 .. l /\ DOMAIN fs = 1 .. Len(fs)
      /\ Len(fs) \in Nat /\ hs[l] = e /\ \A k \in DOMAIN fs : hs[k] = fs[k]
  OBVIOUS
<1>2. /\ gs \in Seq(Entries) /\ DOMAIN gs = DOMAIN hs
      /\ \A k \in DOMAIN hs : gs[k].path = hs[k].path /\ gs[k].ino = hs[k].ino
  BY DEF Kept
<1> HIDE DEF hs
<1>3. DOMAIN gs = DOMAIN fs \cup {l}
  BY <1>1, <1>2
<1>4. gs[l].path = e.path /\ gs[l].ino = n + 1
  BY <1>1, <1>2
<1> QED
  BY <1>1, <1>2, <1>3, <1>4 DEF Grown

LEMMA KeptSelf ==
  ASSUME NEW fs \in Seq(Entries)
  PROVE  Kept(fs, fs)
BY DEF Kept

----------------------------------------------------------------------------
(* Steps *)

IInv == TypeOK /\ Sound(files, top)

\* What every step guarantees: the change of the list, and the rest of the state.
Result == /\ Outcome(files, top, files', top')
          /\ local' = local
          /\ phase' \in {"update", "dirs", "files", "commands", "saved", "dead"}
          /\ phase' \in {"update", "dirs", "files"} => local # NoRoot
          /\ todo' \subseteq Paths
          /\ phase' = "files" => todo' \subseteq DOMAIN local.files
          /\ reply' \in {"Ok", "Warning", "Error", "Silent"}

\* A path without its leading slash is a path, and one with it is.
LEMMA PathsStay ==
  ASSUME NEW p \in Paths
  PROVE  FilterPath(p) \in Paths /\ <<Blank>> \o p \in Paths
<1>1. p \in Seq(Components) /\ Len(p) \in Nat /\ Blank \in Components
  BY UpdaterAssumption DEF Paths
<1>2. FilterPath(p) \in Paths
  <2>1. CASE Len(p) > 1
    <3>1. Tail(p) \in Seq(Components) /\ Len(Tail(p)) = Len(p) - 1
      BY <1>1, <2>1
    <3>2. Len(Tail(p)) # 0
      BY <1>1, <2>1, <3>1
    <3>3. Tail(p) # <<>>
      BY <3>1, <3>2, EmptySeq
    <3> QED
      BY <2>1, <3>1, <3>3 DEF FilterPath, Paths
  <2>2. CASE ~(Len(p) > 1)
    BY <2>2 DEF FilterPath
  <2> QED
    BY <2>1, <2>2
<1>3. <<Blank>> \o p \in Paths
  <2>1. <<Blank>> \in Seq(Components) /\ Len(<<Blank>>) = 1
    BY <1>1
  <2> DEFINE b == <<Blank>>
  <2> HIDE DEF b
  <2>2. b \in Seq(Components) /\ Len(b) = 1
    BY <2>1 DEF b
  <2>3. b \o p \in Seq(Components) /\ Len(b \o p) = Len(b) + Len(p)
    BY <1>1, <2>2, ConcatProperties
  <2>4. Len(b \o p) # 0
    BY <1>1, <2>2, <2>3
  <2>5. b \o p # <<>>
    BY <2>3, <2>4, EmptySeq
  <2> QED
    BY <2>3, <2>5 DEF b, Paths
<1> QED
  BY <1>2, <1>3

\* A new node is an entry.
LEMMA NodeIsEntry ==
  ASSUME IInv, NEW p \in Paths, NEW kind \in Kinds, NEW c \in Contents \cup {NoContent}
  PROVE  /\ Node(p, kind, c) \in Entries
         /\ Node(p, kind, c).path = p /\ Node(p, kind, c).ino = top + 1
<1>1. NewPerm[kind] \in Perms /\ 0 \in Owners
  BY UpdaterAssumption
<1>2. top + 1 \in Nat
  BY UpdaterAssumption DEF IInv, TypeOK
<1> QED
  BY <1>1, <1>2 DEF Node, Entries

LEMMA Basics ==
  ASSUME IInv
  PROVE  /\ files \in Seq(Entries) /\ top \in Nat /\ top <= MaxTop /\ MaxTop \in Nat
         /\ local \in Locals \cup {NoRoot}
         /\ Kept(files, files)
         /\ Outcome(files, top, files, top)
<1>1. files \in Seq(Entries) /\ top \in Nat /\ top <= MaxTop /\ MaxTop \in Nat
  BY UpdaterAssumption DEF IInv, TypeOK
<1>2. Kept(files, files)
  BY <1>1, KeptSelf
<1> QED
  BY <1>1, <1>2 DEF Outcome, IInv, TypeOK

\* The steps of the command phase differ in what they make of the list.
LEMMA ReadyResult ==
  ASSUME IInv, Ready, Outcome(files, top, files', top'),
         reply' \in {"Ok", "Warning", "Error", "Silent"}
  PROVE  Result
BY DEF IInv, TypeOK, Ready, Result

LEMMA LogResult ==
  ASSUME IInv, NEW answer \in {"Ok", "Warning", "Error", "Silent"}, Log(answer)
  PROVE  Result
<1>1. Outcome(files, top, files', top') /\ Ready /\ reply' \in {"Ok", "Warning", "Error", "Silent"}
  BY Basics DEF Log
<1> QED
  BY <1>1, ReadyResult

LEMMA CrashResult ==
  ASSUME IInv, Crash
  PROVE  Result
BY Basics DEF Crash, Result, IInv, TypeOK

LEMMA ChangeResult ==
  ASSUME IInv, NEW answer \in {"Ok", "Warning", "Error", "Silent"}, NEW fs,
         Kept(files, fs) \/ Thinned(files, fs), Change(answer, fs)
  PROVE  Result
<1>1. /\ Outcome(files, top, files', top') /\ Ready
      /\ reply' \in {"Ok", "Warning", "Error", "Silent"}
  BY DEF Change, Outcome
<1> QED
  BY <1>1, ReadyResult

\* A merge adds what is missing, or nothing.
LEMMA AddMissingOutcome ==
  ASSUME IInv, NEW n \in Paths, NEW kind \in Kinds, NEW c \in Contents \cup {NoContent},
         AddMissing(n, kind, c)
  PROVE  Outcome(files, top, files', top')
<1> DEFINE e == Node(Converted(n), kind, c)
<1>1. CASE Exists(files, Converted(n))
  BY <1>1, Basics DEF AddMissing
<1>2. CASE ~Exists(files, Converted(n))
  <2>1. top < MaxTop /\ files' = Append(files, e) /\ top' = top + 1
    BY <1>2 DEF AddMissing
  <2>2. Converted(n) \in Paths
    BY PathsStay DEF Converted
  <2>3. e \in Entries /\ e.path = Converted(n) /\ e.ino = top + 1
    BY <2>2, NodeIsEntry
  <2> HIDE DEF e
  <2>4. ~Exists(files, e.path)
    BY <1>2, <2>3
  <2>5. Append(files, e) \in Seq(Entries)
    BY <2>3, Basics
  <2>6. Kept(Append(files, e), files')
    BY <2>1, <2>5, KeptSelf
  <2>7. Grown(files, top, files')
    BY <2>3, <2>4, <2>6, AppendGrows, Basics
  <2> QED
    BY <2>1, <2>7 DEF Outcome
<1> QED
  BY <1>1, <1>2

LEMMA MergeResult ==
  ASSUME IInv, Update \/ MergeDir \/ BeginFiles \/ MergeFile \/ BeginCommands
  PROVE  Result
<1>1. ASSUME local # NoRoot
      PROVE  /\ local \in Locals /\ local.dirs \subseteq Paths
             /\ DOMAIN local.files \subseteq Paths
             /\ \A n \in DOMAIN local.files : local.files[n] \in Contents
  BY <1>1, Basics, UpdaterAssumption
<1>2. CASE Update
  <2>1. local # NoRoot
    BY <1>2 DEF Update, IInv, TypeOK
  <2>2. \A k \in DOMAIN files : \/ files'[k] = files[k]
                                \/ \E c \in Contents : files'[k] = [files[k] EXCEPT !.data = c]
    BY <1>1, <1>2, <2>1 DEF Update, Updated
  <2>3. files' = [k \in DOMAIN files |-> files'[k]]
    BY <1>2 DEF Update
  <2>4. \A k \in DOMAIN files : files[k] \in Entries
    BY Basics
  <2>5. ASSUME NEW k \in DOMAIN files PROVE Like(files[k], files'[k])
    <3>1. /\ Like(files[k], files[k])
          /\ \A c \in Contents : Like(files[k], [files[k] EXCEPT !.data = c])
      BY <2>4, DataLike DEF Like
    <3> QED
      BY <2>2, <3>1
  <2>6. Kept(files, files')
    BY <2>3, <2>5, Basics, KeptAll
  <2>7. Outcome(files, top, files', top')
    BY <1>2, <2>6 DEF Update, Outcome
  <2> QED
    BY <1>1, <1>2, <2>1, <2>7 DEF Update, Enter, Result, IInv, TypeOK
<1>3. CASE MergeDir
  <2>1. PICK d \in todo : AddMissing(d, "dir", NoContent) /\ Enter("dirs", todo \ {d})
    BY <1>3 DEF MergeDir
  <2>2. d \in Paths /\ "dir" \in Kinds
    BY DEF IInv, TypeOK, Kinds
  <2>3. Outcome(files, top, files', top')
    BY <2>1, <2>2, AddMissingOutcome
  <2> QED
    BY <1>3, <2>1, <2>3 DEF MergeDir, Enter, Result, IInv, TypeOK
<1>4. CASE BeginFiles
  <2>1. local # NoRoot
    BY <1>4 DEF BeginFiles, IInv, TypeOK
  <2>2. Outcome(files, top, files', top')
    BY <1>4, Basics DEF BeginFiles
  <2> QED
    BY <1>1, <1>4, <2>1, <2>2 DEF BeginFiles, Enter, Result, IInv, TypeOK
<1>5. CASE MergeFile
  <2>1. PICK n \in todo : AddMissing(n, "file", local.files[n]) /\ Enter("files", todo \ {n})
    BY <1>5 DEF MergeFile
  <2>2. /\ n \in Paths /\ "file" \in Kinds /\ n \in DOMAIN local.files
        /\ phase = "files" /\ local # NoRoot
    BY <1>5 DEF MergeFile, IInv, TypeOK, Kinds
  <2>3. local.files[n] \in Contents
    BY <1>1, <2>2
  <2>4. Outcome(files, top, files', top')
    BY <2>1, <2>2, <2>3, AddMissingOutcome
  <2> QED
    BY <1>5, <2>1, <2>2, <2>4 DEF MergeFile, Enter, Result, IInv, TypeOK
<1>6. CASE BeginCommands
  BY <1>6, Basics DEF BeginCommands, Enter, Result, IInv, TypeOK
<1> QED
  BY <1>2, <1>3, <1>4, <1>5, <1>6

\* dir, nod, file and slink where there is nothing.
LEMMA AddEntryResult ==
  ASSUME IInv, NEW p \in Paths, NEW kind \in Kinds, NEW c \in Contents \cup {NoContent},
         NEW m \in Perms, NEW u \in Owners, NEW g \in Owners, AddEntry(p, kind, c, m, u, g)
  PROVE  Result
<1> DEFINE e == Node(p, kind, c)
           hs == Append(files, e)
<1>1. CASE Crash
  BY <1>1, CrashResult
<1>2. CASE ~Crash
  <2>1. /\ Ready /\ top < MaxTop /\ top' = top + 1 /\ reply' = "Ok"
        /\ files' = Dressed(hs, p, m, u, g) /\ ~Exists(files, p)
    BY <1>2 DEF AddEntry
  <2>2. e \in Entries /\ e.path = p /\ e.ino = top + 1
    BY NodeIsEntry
  <2> HIDE DEF e
  <2>3. hs \in Seq(Entries)
    BY <2>2, Basics
  <2> HIDE DEF hs
  <2>4. Kept(hs, files')
    BY <2>1, <2>3, DressedKeeps
  <2>5. Grown(files, top, files')
    BY <2>1, <2>2, <2>4, AppendGrows, Basics DEF hs
  <2>6. Outcome(files, top, files', top')
    BY <2>1, <2>5 DEF Outcome
  <2> QED
    BY <2>1, <2>6, ReadyResult
<1> QED
  BY <1>1, <1>2

LEMMA AddResult ==
  ASSUME IInv, NEW p \in Paths, Add(p)
  PROVE  Result
<1>1. PICK m \in Perms, u \in Owners, g \in Owners :
        \/ Dir(p, m, u, g)
        \/ Nod(p, m, u, g)
        \/ \E c \in Contents : File(p, c, m, u, g) \/ SLink(p, c, m, u, g)
  BY DEF Add
<1>2. {"dir", "nod", "file", "link"} \subseteq Kinds
  BY DEF Kinds
<1>3. CASE Dir(p, m, u, g)
  <2>1. CASE AddEntry(p, "dir", NoContent, m, u, g)
    BY <1>2, <2>1, AddEntryResult
  <2>2. CASE Log(IF KindOf(p) = "dir" THEN "Warning" ELSE "Error")
    <3>1. CASE Log("Warning")
      BY <3>1, LogResult
    <3>2. CASE Log("Error")
      BY <3>2, LogResult
    <3> QED
      BY <2>2, <3>1, <3>2
  <2> QED
    BY <1>3, <2>1, <2>2 DEF Dir
<1>4. CASE Nod(p, m, u, g)
  <2>1. CASE AddEntry(p, "nod", NoContent, m, u, g)
    BY <1>2, <2>1, AddEntryResult
  <2>2. CASE Log("Error")
    BY <2>2, LogResult
  <2> QED
    BY <1>4, <2>1, <2>2 DEF Nod
<1>5. ASSUME NEW c \in Contents, File(p, c, m, u, g) PROVE Result
  <2>1. CASE AddEntry(p, "file", c, m, u, g)
    BY <1>2, <2>1, AddEntryResult
  <2>2. CASE Log("Error")
    BY <2>2, LogResult
  <2>3. CASE Change("Ok", Dressed(UpdateContent(files, p, c), p, m, u, g))
    <3> DEFINE fs == UpdateContent(files, p, c)
               gs == Dressed(fs, p, m, u, g)
    <3>1. Kept(files, fs)
      BY AttributesKeep, Basics
    <3>2. fs \in Seq(Entries)
      BY <3>1 DEF Kept
    <3> HIDE DEF fs
    <3>3. Kept(fs, gs)
      BY <3>2, DressedKeeps
    <3> HIDE DEF gs
    <3>4. Kept(files, gs)
      BY <3>1, <3>3, KeptTwice
    <3>5. Change("Ok", gs)
      BY <2>3 DEF fs, gs
    <3> QED
      BY <3>4, <3>5, ChangeResult
  <2> QED
    BY <1>5, <2>1, <2>2, <2>3 DEF File
<1>6. ASSUME NEW c \in Contents, SLink(p, c, m, u, g) PROVE Result
  <2>1. CASE AddEntry(p, "link", c, m, u, g)
    BY <1>2, <2>1, AddEntryResult
  <2>2. CASE Log("Error")
    BY <2>2, LogResult
  <2>3. CASE Change("Ok", UpdateContent(files, p, c))
    <3>1. Kept(files, UpdateContent(files, p, c))
      BY AttributesKeep, Basics
    <3> QED
      BY <2>3, <3>1, ChangeResult
  <2> QED
    BY <1>6, <2>1, <2>2, <2>3 DEF SLink
<1> QED
  BY <1>1, <1>3, <1>4, <1>5, <1>6

LEMMA RemovalResult ==
  ASSUME IInv, NEW K, NEW fs \in Without(files, K), Change("Ok", fs)
  PROVE  Result
<1>1. Thinned(files, fs)
  BY Basics, WithoutThins
<1> QED
  BY <1>1, ChangeResult

LEMMA RmResult ==
  ASSUME IInv, NEW p, Rm(p)
  PROVE  Result
<1>1. CASE Log("Error") \/ Log("Silent")
  BY <1>1, LogResult
<1>2. CASE \E fs \in Without(files, At(files, p)) : Change("Ok", fs)
  BY <1>2, RemovalResult
<1>3. CASE \E fs \in Without(files, Targets(files, p)) : Change("Ok", fs)
  BY <1>3, RemovalResult
<1> QED
  BY <1>1, <1>2, <1>3 DEF Rm

LEMMA AttributeResult ==
  ASSUME IInv, NEW p, Attribute(p)
  PROVE  Result
<1>1. \A T : Found(T) \in {"Ok", "Warning", "Error", "Silent"}
  BY DEF Found
<1>2. CASE Crash
  BY <1>2, CrashResult
<1>3. ASSUME NEW m \in Perms, Change(Found(ModeTargets(files, p)), ChMod(files, p, m))
      PROVE  Result
  <2>1. Kept(files, ChMod(files, p, m))
    BY AttributesKeep, Basics
  <2> QED
    BY <1>1, <1>3, <2>1, ChangeResult
<1>4. ASSUME NEW u \in Owners, Change(Found(Targets(files, p)), ChOwn(files, p, u))
      PROVE  Result
  <2>1. Kept(files, ChOwn(files, p, u))
    BY AttributesKeep, Basics
  <2> QED
    BY <1>1, <1>4, <2>1, ChangeResult
<1>5. ASSUME NEW g \in Owners, Change(Found(Targets(files, p)), ChGroup(files, p, g))
      PROVE  Result
  <2>1. Kept(files, ChGroup(files, p, g))
    BY AttributesKeep, Basics
  <2> QED
    BY <1>1, <1>5, <2>1, ChangeResult
<1>6. ASSUME NEW u \in Owners, NEW g \in Owners,
             Change(Found(Targets(files, p)), ChGroup(ChOwn(files, p, u), p, g))
      PROVE  Result
  <2> DEFINE fs == ChOwn(files, p, u)
             gs == ChGroup(fs, p, g)
  <2>1. Kept(files, fs)
    BY AttributesKeep, Basics
  <2>2. fs \in Seq(Entries)
    BY <2>1 DEF Kept
  <2> HIDE DEF fs
  <2>3. Kept(fs, gs)
    BY <2>2, AttributesKeep
  <2> HIDE DEF gs
  <2>4. Kept(files, gs)
    BY <2>1, <2>3, KeptTwice
  <2>5. Change(Found(Targets(files, p)), gs)
    BY <1>6 DEF fs, gs
  <2> QED
    BY <1>1, <2>4, <2>5, ChangeResult
<1> QED
  BY <1>2, <1>3, <1>4, <1>5, <1>6 DEF Attribute

LEMMA ReplaceResult ==
  ASSUME IInv, NEW p, NEW kind, NEW c \in Contents, Replace(p, kind, c)
  PROVE  Result
<1>1. CASE Log("Error")
  BY <1>1, LogResult
<1>2. CASE Change("Ok", UpdateContent(files, p, c))
  <2>1. Kept(files, UpdateContent(files, p, c))
    BY AttributesKeep, Basics
  <2> QED
    BY <1>2, <2>1, ChangeResult
<1> QED
  BY <1>1, <1>2 DEF Replace

LEMMA StepResult ==
  ASSUME IInv, Next
  PROVE  Result
<1>1. CASE Update \/ MergeDir \/ BeginFiles \/ MergeFile \/ BeginCommands
  BY <1>1, MergeResult
<1>2. CASE Command
  <2>1. ASSUME NEW p \in Adds, Add(FilterPath(p)) PROVE Result
    <3>1. FilterPath(p) \in Paths
      BY PathsStay, UpdaterAssumption
    <3> QED
      BY <2>1, <3>1, AddResult
  <2>2. ASSUME NEW p \in Others,
               \/ Rm(FilterPath(p))
               \/ Attribute(FilterPath(p))
               \/ \E c \in Contents : \/ Replace(FilterPath(p), "file", c)
                                      \/ Replace(FilterPath(p), "link", c)
        PROVE  Result
    BY <2>2, RmResult, AttributeResult, ReplaceResult
  <2>3. CASE Clear
    <3> DEFINE K == {k \in DOMAIN files : files[k].path # Dot}
    <3>1. PICK fs \in Without(files, K) : Change("Ok", fs)
      BY <2>3 DEF Clear
    <3> HIDE DEF K
    <3> QED
      BY <3>1, RemovalResult
  <2>4. CASE Reject \/ Nothing
    BY <2>4, LogResult DEF Reject, Nothing
  <2>5. CASE Crash
    BY <2>5, CrashResult
  <2> QED
    BY <1>2, <2>1, <2>2, <2>3, <2>4, <2>5 DEF Command
<1>3. CASE Save
  BY <1>3, Basics DEF Save, Result, IInv, TypeOK
<1> QED
  BY <1>1, <1>2, <1>3 DEF Next

LEMMA StepKeeps ==
  ASSUME IInv, [Next]_vars
  PROVE  IInv'
<1>1. CASE Next
  <2>1. Result
    BY <1>1, StepResult
  <2>2. top' \in 0 .. MaxTop
    BY <2>1, Basics DEF Result, Outcome
  <2>3. Sound(files', top')
    BY <2>1, Basics, OutcomeIsSound DEF Result, IInv
  <2> QED
    BY <2>1, <2>2, <2>3 DEF Result, IInv, TypeOK, Sound
<1>2. CASE UNCHANGED vars
  BY <1>2 DEF vars, IInv, TypeOK, Sound, Namesakes
<1> QED
  BY <1>1, <1>2

LEMMA InitHolds ==
  ASSUME Init
  PROVE  IInv
<1>1. files \in Seq(Entries) /\ ~Namesakes(files)
  BY UpdaterAssumption DEF Init
<1>2. top \in 0 .. MaxTop /\ \A k \in DOMAIN files : files[k].ino <= top
  BY DEF Init
<1> QED
  BY <1>1, <1>2 DEF Init, IInv, TypeOK, Sound

LEMMA Invariance == Spec => []IInv
<1>1. IInv /\ [Next]_vars => IInv'
  BY StepKeeps
<1> QED
  BY <1>1, InitHolds, PTL DEF Spec

----------------------------------------------------------------------------
(* Theorems *)

\* The list holds entries only, through every merge and every command.
THEOREM TypeCorrect == Spec => []TypeOK
<1>1. IInv => TypeOK
  BY DEF IInv
<1> QED
  BY <1>1, Invariance, PTL

\* No merge and no command makes a second entry of a name.
THEOREM OneOfAName == Spec => []NoNamesakes
<1>1. IInv => NoNamesakes
  BY DEF IInv, Sound, NoNamesakes
<1> QED
  BY <1>1, Invariance, PTL

\* The entry a step makes has an inode that no other entry has, so that no kernel
\* takes it for a hard link.
THEOREM NoAccidentalLinks == Spec => FreshInodes
<1> DEFINE Fresh == \A i, j \in DOMAIN files' :
                      ~Exists(files, files'[i].path) /\ i # j => files'[i].ino # files'[j].ino
<1>1. IInv /\ [Next]_vars => [Fresh]_files
  <2> SUFFICES ASSUME IInv, [Next]_vars PROVE [Fresh]_files
    OBVIOUS
  <2>1. CASE Next
    <3>1. Outcome(files, top, files', top') /\ top \in Nat /\ Sound(files, top)
      BY <2>1, StepResult, Basics DEF Result, IInv
    <3>2. Fresh
      BY <3>1, OutcomeIsFresh
    <3> QED
      BY <3>2
  <2>2. CASE UNCHANGED vars
    BY <2>2 DEF vars
  <2> QED
    BY <2>1, <2>2
<1> QED
  BY <1>1, Invariance, PTL DEF Spec, FreshInodes

----------------------------------------------------------------------------
(* What the passes leave behind *)

Merging == phase \in {"dirs", "files"} /\ local.slash

\* What is left to do is local, and the directories that are not left are entries.
DirsMerged == /\ phase = "dirs" => todo \subseteq local.dirs
              /\ Merging => \A d \in local.dirs : Exists(files, d) \/ (phase = "dirs" /\ d \in todo)

FilesMerged == Merging /\ phase = "files" =>
                 \A n \in DOMAIN local.files : Exists(files, n) \/ n \in todo

\* An entry whose path is a local file has the content of it.
DataMerged == Merging =>
  \A k \in DOMAIN files :
    files[k].path \in DOMAIN local.files => files[k].data = local.files[files[k].path]

MergeInv == DirsMerged /\ FilesMerged /\ DataMerged

LEMMA LocalFacts ==
  ASSUME NEW l \in Locals
  PROVE  /\ l.dirs \subseteq Paths /\ DOMAIN l.files \subseteq Paths
         /\ \A n \in DOMAIN l.files : l.files[n] \in Contents
         /\ l.dirs \cap DOMAIN l.files = {}
         /\ \A n \in l.dirs \cup DOMAIN l.files :
              \A d \in 1 .. Len(n) - 1 : SubSeq(n, 1, d) \in l.dirs
BY UpdaterAssumption, LocalAssumption

\* A merge of one path adds it behind the others, or finds it.
LEMMA AddMissingAppends ==
  ASSUME IInv, local.slash, NEW n \in Paths, NEW kind \in Kinds,
         NEW c \in Contents \cup {NoContent}, AddMissing(n, kind, c)
  PROVE  /\ DOMAIN files \subseteq DOMAIN files'
         /\ \A k \in DOMAIN files : files'[k] = files[k]
         /\ \/ Exists(files, n) /\ files' = files
            \/ /\ DOMAIN files' = DOMAIN files \cup {Len(files) + 1}
               /\ files'[Len(files) + 1].path = n /\ files'[Len(files) + 1].data = c
<1> DEFINE e == Node(n, kind, c)
<1>1. Converted(n) = n
  BY DEF Converted
<1>2. CASE Exists(files, n)
  BY <1>1, <1>2 DEF AddMissing
<1>3. CASE ~Exists(files, n)
  <2>1. files' = Append(files, e)
    BY <1>1, <1>3 DEF AddMissing
  <2>2. e.path = n /\ e.data = c
    BY DEF Node
  <2> HIDE DEF e
  <2>3. files \in Seq(Entries)
    BY Basics
  <2>4. /\ DOMAIN files = 1 .. Len(files) /\ Len(files) \in Nat
        /\ DOMAIN files' = 1 .. Len(files) + 1
        /\ \A k \in DOMAIN files : files'[k] = files[k]
        /\ files'[Len(files) + 1] = e
    BY <2>1, <2>3
  <2> QED
    BY <2>2, <2>4
<1> QED
  BY <1>2, <1>3

\* So a path that was there is there, and the one that was asked for is.
LEMMA AddMissingFinds ==
  ASSUME IInv, local.slash, NEW n \in Paths, NEW kind \in Kinds,
         NEW c \in Contents \cup {NoContent}, AddMissing(n, kind, c)
  PROVE  Exists(files', n) /\ \A q : Exists(files, q) => Exists(files', q)
<1>1. ASSUME NEW q, Exists(files, q) PROVE Exists(files', q)
  BY <1>1, AddMissingAppends DEF Exists, At
<1>2. Exists(files', n)
  <2>1. CASE Exists(files, n)
    BY <1>1, <2>1
  <2>2. CASE ~Exists(files, n)
    BY <2>2, AddMissingAppends DEF Exists, At
  <2> QED
    BY <2>1, <2>2
<1> QED
  BY <1>1, <1>2

LEMMA MergeDirKeeps ==
  ASSUME IInv, MergeInv, MergeDir
  PROVE  MergeInv'
<1>1. PICK d \in todo : AddMissing(d, "dir", NoContent) /\ Enter("dirs", todo \ {d})
  BY DEF MergeDir
<1>2. /\ phase = "dirs" /\ phase' = "dirs" /\ todo' = todo \ {d} /\ local' = local
      /\ local \in Locals
  BY <1>1, Basics DEF MergeDir, Enter, IInv, TypeOK
<1>3. d \in local.dirs /\ d \in Paths /\ d \notin DOMAIN local.files /\ "dir" \in Kinds
  BY <1>2, LocalFacts DEF MergeInv, DirsMerged, IInv, TypeOK, Kinds
<1>4. DirsMerged'
  <2>1. todo' \subseteq local.dirs
    BY <1>2 DEF MergeInv, DirsMerged
  <2>2. ASSUME local.slash, NEW q \in local.dirs PROVE Exists(files', q) \/ q \in todo'
    BY <1>1, <1>2, <1>3, <2>2, AddMissingFinds DEF MergeInv, DirsMerged, Merging
  <2> QED
    BY <1>2, <2>1, <2>2 DEF DirsMerged, Merging
<1>5. FilesMerged'
  BY <1>2 DEF FilesMerged
<1>6. DataMerged'
  <2>1. ASSUME local.slash, NEW k \in DOMAIN files', files'[k].path \in DOMAIN local.files
        PROVE  files'[k].data = local.files[files'[k].path]
    <3>1. k \in DOMAIN files /\ files'[k] = files[k]
      BY <1>1, <1>3, <2>1, AddMissingAppends
    <3> QED
      BY <1>2, <2>1, <3>1 DEF MergeInv, DataMerged, Merging
  <2> QED
    BY <1>2, <2>1 DEF DataMerged, Merging
<1> QED
  BY <1>4, <1>5, <1>6 DEF MergeInv

LEMMA MergeFileKeeps ==
  ASSUME IInv, MergeInv, MergeFile
  PROVE  MergeInv'
<1>1. PICK n \in todo : AddMissing(n, "file", local.files[n]) /\ Enter("files", todo \ {n})
  BY DEF MergeFile
<1>2. /\ phase = "files" /\ phase' = "files" /\ todo' = todo \ {n} /\ local' = local
      /\ local \in Locals
  BY <1>1, Basics DEF MergeFile, Enter, IInv, TypeOK
<1>3. /\ n \in DOMAIN local.files /\ n \in Paths /\ "file" \in Kinds
      /\ local.files[n] \in Contents
  BY <1>2, LocalFacts DEF IInv, TypeOK, Kinds
<1>4. DirsMerged'
  <2>1. ASSUME local.slash, NEW q \in local.dirs PROVE Exists(files', q)
    BY <1>1, <1>2, <1>3, <2>1, AddMissingFinds DEF MergeInv, DirsMerged, Merging
  <2> QED
    BY <1>2, <2>1 DEF DirsMerged, Merging
<1>5. FilesMerged'
  <2>1. ASSUME local.slash, NEW q \in DOMAIN local.files PROVE Exists(files', q) \/ q \in todo'
    BY <1>1, <1>2, <1>3, <2>1, AddMissingFinds DEF MergeInv, FilesMerged, Merging
  <2> QED
    BY <1>2, <2>1 DEF FilesMerged, Merging
<1>6. DataMerged'
  <2>1. ASSUME local.slash, NEW k \in DOMAIN files', files'[k].path \in DOMAIN local.files
        PROVE  files'[k].data = local.files[files'[k].path]
    <3>1. CASE k \in DOMAIN files
      <4>1. files'[k] = files[k]
        BY <1>1, <1>3, <2>1, <3>1, AddMissingAppends
      <4> QED
        BY <1>2, <2>1, <3>1, <4>1 DEF MergeInv, DataMerged, Merging
    <3>2. CASE k \notin DOMAIN files
      BY <1>1, <1>3, <2>1, <3>2, AddMissingAppends
    <3> QED
      BY <3>1, <3>2
  <2> QED
    BY <1>2, <2>1 DEF DataMerged, Merging
<1> QED
  BY <1>4, <1>5, <1>6 DEF MergeInv

\* The first pass leaves every path where it was, with the local content.
LEMMA UpdateKeeps ==
  ASSUME IInv, Update
  PROVE  MergeInv'
<1>1. /\ phase' = "dirs" /\ todo' = local.dirs /\ local' = local /\ files \in Seq(Entries)
      /\ local \in Locals
  BY Basics DEF Update, Enter, IInv, TypeOK
<1>2. DOMAIN files' = DOMAIN files
  BY DEF Update
<1>3. \A k \in DOMAIN files : files'[k] = Updated(files[k])
  BY DEF Update
<1>4. \A k \in DOMAIN files : files[k] \in Entries
  BY <1>1
<1>5. ASSUME NEW k \in DOMAIN files', files'[k].path \in DOMAIN local.files
      PROVE  files'[k].data = local.files[files'[k].path]
  <2>1. files[k] \in Entries
    BY <1>2, <1>4
  <2>2. files'[k] = Updated(files[k])
    BY <1>2, <1>3
  <2>3. files'[k].path = files[k].path
    BY <2>1, <2>2 DEF Updated, Entries
  <2>4. LocalPath(files[k].path) = files[k].path
    BY <1>1, <1>5, <2>3, UpdaterAssumption DEF LocalPath
  <2> QED
    BY <1>5, <2>1, <2>2, <2>3, <2>4 DEF Updated, Entries
<1> QED
  BY <1>1, <1>5 DEF MergeInv, DirsMerged, FilesMerged, DataMerged, Merging

LEMMA BeginFilesKeeps ==
  ASSUME IInv, MergeInv, BeginFiles
  PROVE  MergeInv'
<1>1. /\ phase = "dirs" /\ todo = {} /\ phase' = "files" /\ todo' = DOMAIN local.files
      /\ local' = local /\ files' = files
  BY DEF BeginFiles, Enter
<1> QED
  BY <1>1 DEF MergeInv, DirsMerged, FilesMerged, DataMerged, Merging, Exists, At

\* A command is no part of a merge.
LEMMA CommandsApart ==
  ASSUME Command
  PROVE  phase = "commands" /\ phase' \in {"commands", "dead"}
<1> DEFINE Apart == phase = "commands" /\ phase' \in {"commands", "dead"}
<1>1. Ready => Apart
  BY DEF Ready
<1>2. Crash => Apart
  BY DEF Crash
<1>3. \A answer, fs : (Log(answer) => Apart) /\ (Change(answer, fs) => Apart)
  BY <1>1 DEF Log, Change
<1>4. \A p, kind, c, m, u, g : AddEntry(p, kind, c, m, u, g) => Apart
  BY <1>1, <1>2 DEF AddEntry
<1> HIDE DEF Apart
<1>5. ASSUME NEW p, Add(p) PROVE Apart
  BY <1>3, <1>4, <1>5 DEF Add, Dir, Nod, File, SLink
<1>6. ASSUME NEW p, Rm(p) \/ Attribute(p) PROVE Apart
  BY <1>2, <1>3, <1>6 DEF Rm, Attribute
<1>7. ASSUME NEW p, NEW kind, NEW c, Replace(p, kind, c) PROVE Apart
  BY <1>3, <1>7 DEF Replace
<1>8. ASSUME Clear \/ Reject \/ Nothing PROVE Apart
  BY <1>3, <1>8 DEF Clear, Reject, Nothing
<1>9. Apart
  BY <1>2, <1>5, <1>6, <1>7, <1>8 DEF Command
<1> QED
  BY <1>9 DEF Apart

LEMMA MergeStepKeeps ==
  ASSUME IInv, MergeInv, [Next]_vars
  PROVE  MergeInv'
<1>1. CASE BeginCommands \/ Command \/ Save
  <2>1. phase' \notin {"dirs", "files"}
    BY <1>1, CommandsApart DEF BeginCommands, Enter, Save
  <2> QED
    BY <2>1 DEF MergeInv, DirsMerged, FilesMerged, DataMerged, Merging
<1>2. CASE UNCHANGED vars
  BY <1>2 DEF vars, MergeInv, DirsMerged, FilesMerged, DataMerged, Merging, Exists, At
<1> QED
  BY <1>1, <1>2, UpdateKeeps, MergeDirKeeps, BeginFilesKeeps, MergeFileKeeps DEF Next

LEMMA MergeInvariance == Spec => [](IInv /\ MergeInv)
<1>1. Init => MergeInv
  BY DEF Init, MergeInv, DirsMerged, FilesMerged, DataMerged, Merging
<1>2. IInv /\ MergeInv /\ [Next]_vars => MergeInv'
  BY MergeStepKeeps
<1> QED
  BY <1>1, <1>2, Invariance, PTL DEF Spec

----------------------------------------------------------------------------
(* The order of the list *)

Unpackable(fs) == \A k \in DOMAIN fs : ParentsBefore(fs, k)

\* An entry whose directories are all there may come behind the others.
LEMMA AddMissingUnpackable ==
  ASSUME IInv, local.slash, NEW n \in Paths, NEW kind \in Kinds,
         NEW c \in Contents \cup {NoContent}, AddMissing(n, kind, c), Unpackable(files),
         \A i \in 1 .. Len(n) - 1 : Exists(files, SubSeq(n, 1, i))
  PROVE  Unpackable(files')
<1>1. DOMAIN files = 1 .. Len(files) /\ Len(files) \in Nat
  BY Basics
<1>2. \A k \in DOMAIN files : files'[k] = files[k]
  BY AddMissingAppends
<1>3. ASSUME NEW k \in DOMAIN files PROVE ParentsBefore(files', k)
  <2>1. ASSUME NEW i \in 1 .. Len(files'[k].path) - 1
        PROVE  \E j \in 1 .. k - 1 : files'[j].path = SubSeq(files'[k].path, 1, i)
    <3>1. PICK j \in 1 .. k - 1 : files[j].path = SubSeq(files[k].path, 1, i)
      BY <1>2 DEF Unpackable, ParentsBefore
    <3>2. j \in DOMAIN files
      BY <1>1
    <3> QED
      BY <1>2, <3>1, <3>2
  <2> QED
    BY <2>1 DEF ParentsBefore
<1>4. CASE files' = files
  BY <1>4
<1>5. CASE /\ DOMAIN files' = DOMAIN files \cup {Len(files) + 1}
           /\ files'[Len(files) + 1].path = n
  <2>1. ASSUME NEW i \in 1 .. Len(n) - 1
        PROVE  \E j \in 1 .. Len(files) : files'[j].path = SubSeq(n, 1, i)
    <3>1. PICK j \in DOMAIN files : files[j].path = SubSeq(n, 1, i)
      BY DEF Exists, At
    <3> QED
      BY <1>1, <1>2, <3>1
  <2>2. ParentsBefore(files', Len(files) + 1)
    BY <1>1, <1>5, <2>1 DEF ParentsBefore
  <2> QED
    BY <1>3, <1>5, <2>2 DEF Unpackable
<1> QED
  BY <1>4, <1>5, AddMissingAppends

\* The directories a local path lies in are local directories, and shorter.
LEMMA ParentsAreLocal ==
  ASSUME NEW l \in Locals, NEW n \in l.dirs \cup DOMAIN l.files, NEW i \in 1 .. Len(n) - 1
  PROVE  SubSeq(n, 1, i) \in l.dirs /\ Above(SubSeq(n, 1, i), n)
<1>1. SubSeq(n, 1, i) \in l.dirs
  BY LocalFacts
<1>2. n \in Seq(Components) /\ Len(n) \in Nat
  BY LocalFacts DEF Paths
<1>3. Len(SubSeq(n, 1, i)) = i
  BY <1>2
<1> QED
  BY <1>1, <1>2, <1>3 DEF Above

LEMMA MergeKeepsUnpackable ==
  ASSUME IInv, MergeInv, Next, phase # "commands", local.slash, Unpackable(files)
  PROVE  Unpackable(files')
<1>1. CASE Update
  <2>1. /\ DOMAIN files' = DOMAIN files
        /\ \A k \in DOMAIN files : files'[k] = Updated(files[k])
    BY <1>1 DEF Update
  <2>2. \A k \in DOMAIN files : files[k] \in Entries
    BY Basics
  <2>3. \A k \in DOMAIN files : files'[k].path = files[k].path
    BY <2>1, <2>2 DEF Updated, Entries
  <2>4. \A k \in DOMAIN files : \A j \in 1 .. k - 1 : j \in DOMAIN files
    BY Basics
  <2>5. ASSUME NEW k \in DOMAIN files, NEW i \in 1 .. Len(files'[k].path) - 1
        PROVE  \E j \in 1 .. k - 1 : files'[j].path = SubSeq(files'[k].path, 1, i)
    <3>1. files'[k].path = files[k].path
      BY <2>3
    <3>2. PICK j \in 1 .. k - 1 : files[j].path = SubSeq(files[k].path, 1, i)
      BY <3>1 DEF Unpackable, ParentsBefore
    <3> QED
      BY <2>3, <2>4, <3>1, <3>2
  <2> QED
    BY <2>1, <2>5 DEF Unpackable, ParentsBefore
<1>2. CASE MergeDir
  <2>1. PICK d \in todo : InOrder(d) /\ AddMissing(d, "dir", NoContent)
    BY <1>2 DEF MergeDir
  <2>2. phase = "dirs" /\ local \in Locals /\ Merging
    BY <1>2, Basics DEF MergeDir, IInv, TypeOK, Merging
  <2>3. d \in local.dirs /\ d \in Paths /\ "dir" \in Kinds
    BY <2>2, LocalFacts DEF MergeInv, DirsMerged, Kinds
  <2>4. ASSUME NEW i \in 1 .. Len(d) - 1 PROVE Exists(files, SubSeq(d, 1, i))
    <3>1. SubSeq(d, 1, i) \in local.dirs /\ SubSeq(d, 1, i) \notin todo
      BY <2>1, <2>2, <2>3, ParentsAreLocal DEF InOrder
    <3> QED
      BY <2>2, <3>1 DEF MergeInv, DirsMerged
  <2> QED
    BY <2>1, <2>3, <2>4, AddMissingUnpackable
<1>3. CASE MergeFile
  <2>1. PICK n \in todo : AddMissing(n, "file", local.files[n])
    BY <1>3 DEF MergeFile
  <2>2. phase = "files" /\ local \in Locals /\ Merging
    BY <1>3, Basics DEF MergeFile, IInv, TypeOK, Merging
  <2>3. /\ n \in DOMAIN local.files /\ n \in Paths /\ "file" \in Kinds
        /\ local.files[n] \in Contents
    BY <2>2, LocalFacts DEF IInv, TypeOK, Kinds
  <2>4. ASSUME NEW i \in 1 .. Len(n) - 1 PROVE Exists(files, SubSeq(n, 1, i))
    BY <2>2, <2>3, ParentsAreLocal DEF MergeInv, DirsMerged
  <2> QED
    BY <2>1, <2>3, <2>4, AddMissingUnpackable
<1>4. CASE BeginFiles \/ BeginCommands \/ Save
  BY <1>4 DEF BeginFiles, BeginCommands, Save
<1>5. CASE Command
  BY <1>5, CommandsApart
<1> QED
  BY <1>1, <1>2, <1>3, <1>4, <1>5 DEF Next

----------------------------------------------------------------------------
(* Theorems *)

\* A merge that has ended has put each local file into the archive, under its path
\* and with its content, and each local directory.
THEOREM MergeEndsDone == Spec => []MergeDone
<1>1. IInv /\ MergeInv => MergeDone
  <2> SUFFICES ASSUME IInv, MergeInv, phase = "files", todo = {}, local.slash
               PROVE  /\ \A n \in DOMAIN local.files :
                           \E k \in DOMAIN files : /\ files[k].path = n
                                                   /\ files[k].data = local.files[n]
                      /\ \A d \in local.dirs : Exists(files, d)
    BY DEF MergeDone
  <2>1. \A n \in DOMAIN local.files : Exists(files, n)
    BY DEF MergeInv, FilesMerged, Merging
  <2> QED
    BY <2>1 DEF MergeInv, DirsMerged, DataMerged, Merging, Exists, At
<1> QED
  BY <1>1, MergeInvariance, PTL

\* A merge keeps an archive unpackable from its first entry to its last: what comes
\* before an entry in the list has made its directories.
THEOREM MergeStaysUnpackable == Spec => MergeKeepsOrder
<1>1. IInv /\ MergeInv /\ [Next]_vars =>
        [phase # "commands" /\ local.slash /\ (\A k \in DOMAIN files : ParentsBefore(files, k))
           => \A k \in DOMAIN files' : ParentsBefore(files', k)]_files
  <2> SUFFICES ASSUME IInv, MergeInv, Next, phase # "commands", local.slash,
                      \A k \in DOMAIN files : ParentsBefore(files, k)
               PROVE  \A k \in DOMAIN files' : ParentsBefore(files', k)
    BY DEF vars
  <2> QED
    BY MergeKeepsUnpackable DEF Unpackable
<1> QED
  BY <1>1, MergeInvariance, PTL DEF Spec, MergeKeepsOrder

-----------------------------------------------------------------------------
(* The merge and the commands on a cpio archive implement the map of CpioMap: *)
(* read by its paths, the archive changes as that map may, for any archive,   *)
(* local directory, paths and attributes.                                     *)
(*                                                                            *)
(* The mapping takes the list to the function from its paths to the first     *)
(* entries of them. It says what the archive holds only because there are no  *)
(* namesakes (OneOfAName).                                                    *)

(* The map of a list *)

Named(fs) == fs \in Seq(Entries) /\ ~Namesakes(fs)

Attributes(e) == [kind |-> e.kind, perm |-> e.perm, user |-> e.user,
                  group |-> e.group, data |-> e.data, ino |-> e.ino]

\* The map has the paths of the entries, and at each of them its entry.
LEMMA MapHolds ==
  ASSUME NEW fs, Named(fs)
  PROVE  /\ DOMAIN MapOf(fs) = {fs[k].path : k \in DOMAIN fs}
         /\ \A k \in DOMAIN fs : MapOf(fs)[fs[k].path] = Attributes(fs[k])
<1>1. DOMAIN MapOf(fs) = {fs[k].path : k \in DOMAIN fs}
  BY DEF MapOf
<1>2. ASSUME NEW k \in DOMAIN fs PROVE MapOf(fs)[fs[k].path] = Attributes(fs[k])
  <2>1. At(fs, fs[k].path) = {k}
    BY DEF At, Named, Namesakes
  <2>2. k \in Nat
    BY DEF Named
  <2>3. First(fs, fs[k].path) = k
    BY <2>1, <2>2 DEF First
  <2> QED
    BY <2>3 DEF MapOf, Attributes
<1> QED
  BY <1>1, <1>2

\* The paths a path names are the same for the list and for the map.
Hits(q, p) == IF Prefix(p) THEN StartsWith(q, p) ELSE q = p

LEMMA NamedByBoth ==
  ASSUME NEW fs, Named(fs), NEW p \in Paths
  PROVE  /\ Promise!IsPrefix(p) = Prefix(p)
         /\ Promise!Named(MapOf(fs), p) = {q \in DOMAIN MapOf(fs) : Hits(q, p)}
<1>1. Promise!IsPrefix(p) = Prefix(p)
  BY DEF Promise!IsPrefix, Prefix
<1>2. ASSUME NEW q \in Paths, Len(q) >= Len(p), Prefix(p)
      PROVE  StartsWith(q, p) <=> SubSeq(q, 1, Len(p) - 1) = SubSeq(p, 1, Len(p) - 1)
  <2> DEFINE n == Len(p) - 1
  <2>1. /\ p \in Seq(Components) /\ q \in Seq(Components)
        /\ Len(p) \in Nat /\ Len(q) \in Nat /\ n \in Nat
    BY <1>2 DEF Paths, Prefix
  <2>2. n <= Len(p) /\ n <= Len(q)
    BY <1>2, <2>1
  <2> HIDE DEF n
  <2>3. /\ \A i \in 1 .. n : p[i] \in Components /\ q[i] \in Components
        /\ 1 .. n - 1 + 1 = 1 .. n
    BY <2>1, <2>2
  <2>4. /\ SubSeq(p, 1, n) \in Seq(Components) /\ SubSeq(q, 1, n) \in Seq(Components)
        /\ Len(SubSeq(p, 1, n)) = n /\ Len(SubSeq(q, 1, n)) = n
        /\ \A i \in 1 .. n : SubSeq(p, 1, n)[i] = p[i] /\ SubSeq(q, 1, n)[i] = q[i]
    BY <2>1, <2>3, SubSeqProperties
  <2>5. (\A i \in 1 .. n : q[i] = p[i]) => SubSeq(q, 1, n) = SubSeq(p, 1, n)
    BY <2>4, SeqEqual
  <2>6. SubSeq(q, 1, n) = SubSeq(p, 1, n) => \A i \in 1 .. n : q[i] = p[i]
    BY <2>4
  <2> QED
    BY <1>2, <2>5, <2>6 DEF StartsWith, n
<1>3. DOMAIN MapOf(fs) \subseteq Paths
  <2>1. \A k \in DOMAIN fs : fs[k].path \in Paths
    BY EntryOf DEF Named
  <2>2. DOMAIN MapOf(fs) = {fs[k].path : k \in DOMAIN fs}
    BY MapHolds
  <2> QED
    BY <2>1, <2>2
<1>4. ASSUME NEW q \in DOMAIN MapOf(fs), Prefix(p)
      PROVE  Hits(q, p) <=> /\ Len(q) >= Len(p)
                            /\ SubSeq(q, 1, Len(p) - 1) = SubSeq(p, 1, Len(p) - 1)
  BY <1>2, <1>3, <1>4 DEF Hits, StartsWith
<1> QED
  BY <1>1, <1>4 DEF Promise!Named, Hits

\* What is left of a list after a removal are the entries that are not removed.
LEMMA WithoutLeaves ==
  ASSUME NEW fs \in Seq(Entries), NEW K, NEW gs \in Without(fs, K)
  PROVE  /\ \A k \in DOMAIN gs : \E i \in DOMAIN fs \ K : gs[k] = fs[i]
         /\ \A i \in DOMAIN fs \ K : \E k \in DOMAIN gs : gs[k] = fs[i]
<1> DEFINE L == DOMAIN fs \ K
           N == Cardinality(L)
<1>1. IsFiniteSet(L) /\ N \in Nat /\ L \subseteq Nat
  <2>1. DOMAIN fs = 1 .. Len(fs) /\ Len(fs) \in Nat
    OBVIOUS
  <2>2. IsFiniteSet(1 .. Len(fs))
    BY <2>1, FS_Interval
  <2>3. IsFiniteSet(L)
    BY <2>1, <2>2, FS_Subset
  <2> QED
    BY <2>1, <2>3, FS_CardinalityType
<1>2. PICK f \in [1 .. N -> L] :
         /\ \A i, j \in DOMAIN f : i < j => f[i] < f[j]
         /\ gs = [k \in DOMAIN f |-> fs[f[k]]]
  BY DEF Without, Selections
<1>3. IsFiniteSet(1 .. N) /\ Cardinality(1 .. N) = N
  BY <1>1, FS_Interval
<1> HIDE DEF N
<1>4. Cardinality(L) = N
  BY DEF N
<1> HIDE DEF L
<1>5. ASSUME NEW i \in 1 .. N, NEW j \in 1 .. N, f[i] = f[j] PROVE i = j
  <2>1. f[i] \in L /\ f[j] \in L /\ DOMAIN f = 1 .. N
    BY <1>2
  <2>2. f[i] \in Nat /\ f[j] \in Nat
    BY <1>1, <2>1
  <2>3. i \in Int /\ j \in Int
    OBVIOUS
  <2>4. (i < j => f[i] < f[j]) /\ (j < i => f[j] < f[i])
    BY <1>2, <2>1
  <2> QED
    BY <1>5, <2>2, <2>3, <2>4
<1>6. f \in Injection(1 .. N, L)
  BY <1>2, <1>5 DEF Injection, IsInjective
<1>7. f \in Surjection(1 .. N, L)
  BY <1>1, <1>3, <1>4, <1>6, FS_Injection
<1>8. \A i \in L : \E k \in 1 .. N : f[k] = i
  BY <1>7 DEF Surjection
<1>9. DOMAIN gs = 1 .. N /\ \A k \in 1 .. N : gs[k] = fs[f[k]] /\ f[k] \in L
  BY <1>2
<1> QED
  BY <1>8, <1>9 DEF L

----------------------------------------------------------------------------
(* What the changes do to one entry *)

\* The entry f is e, but for rights it was given by the path p.
Graded(e, f, p) ==
  /\ f \in Entries
  /\ f.path = e.path /\ f.ino = e.ino /\ f.kind = e.kind /\ f.data = e.data
  /\ ~Hits(e.path, p) => f = e
  /\ Prefix(p) /\ f.perm # e.perm => e.kind = "file"

GradedAll(fs, gs, p) == /\ gs \in Seq(Entries) /\ DOMAIN gs = DOMAIN fs
                        /\ \A k \in DOMAIN fs : Graded(fs[k], gs[k], p)

\* What the commands are for are entries the path names.
LEMMA TargetsHit ==
  ASSUME NEW fs, NEW p, NEW k \in Targets(fs, p)
  PROVE  k \in DOMAIN fs /\ Hits(fs[k].path, p)
BY DEF Targets, Hits, At

LEMMA GradedListed ==
  ASSUME NEW fs \in Seq(Entries), NEW gs, NEW p, gs = [k \in DOMAIN fs |-> gs[k]],
         \A k \in DOMAIN fs : Graded(fs[k], gs[k], p)
  PROVE  GradedAll(fs, gs, p)
<1>1. DOMAIN gs = 1 .. Len(fs) /\ Len(fs) \in Nat
  OBVIOUS
<1>2. gs \in [1 .. Len(fs) -> Entries]
  BY <1>1 DEF Graded
<1>3. gs \in Seq(Entries)
  BY <1>1, <1>2, SeqDef
<1> QED
  BY <1>1, <1>3 DEF GradedAll

LEMMA ChModGrades ==
  ASSUME NEW fs \in Seq(Entries), NEW p, NEW m \in Perms
  PROVE  GradedAll(fs, ChMod(fs, p, m), p)
<1> DEFINE gs == ChMod(fs, p, m)
<1>1. gs = [k \in DOMAIN fs |-> gs[k]]
  BY DEF ChMod
<1>2. \A k \in DOMAIN fs : gs[k] = IF k \in ModeTargets(fs, p)
                                   THEN [fs[k] EXCEPT !.perm = m] ELSE fs[k]
  BY DEF ChMod
<1> HIDE DEF gs
<1>3. ASSUME NEW k \in DOMAIN fs PROVE Graded(fs[k], gs[k], p)
  <2>1. fs[k] \in Entries
    OBVIOUS
  <2>2. CASE k \in ModeTargets(fs, p)
    <3>1. gs[k] = [fs[k] EXCEPT !.perm = m]
      BY <1>2, <2>2
    <3>2. Hits(fs[k].path, p) /\ (Prefix(p) => fs[k].kind = "file")
      BY <2>2, TargetsHit DEF ModeTargets
    <3> QED
      BY <2>1, <3>1, <3>2 DEF Graded, Entries
  <2>3. CASE k \notin ModeTargets(fs, p)
    <3>1. gs[k] = fs[k]
      BY <1>2, <2>3
    <3> QED
      BY <2>1, <3>1 DEF Graded
  <2> QED
    BY <2>2, <2>3
<1>4. GradedAll(fs, gs, p)
  BY <1>1, <1>3, GradedListed
<1> QED
  BY <1>4 DEF gs

LEMMA ChOwnGrades ==
  ASSUME NEW fs \in Seq(Entries), NEW p, NEW u \in Owners
  PROVE  GradedAll(fs, ChOwn(fs, p, u), p)
<1> DEFINE gs == ChOwn(fs, p, u)
<1>1. gs = [k \in DOMAIN fs |-> gs[k]]
  BY DEF ChOwn
<1>2. \A k \in DOMAIN fs : gs[k] = IF k \in Targets(fs, p)
                                   THEN [fs[k] EXCEPT !.user = u] ELSE fs[k]
  BY DEF ChOwn
<1> HIDE DEF gs
<1>3. ASSUME NEW k \in DOMAIN fs PROVE Graded(fs[k], gs[k], p)
  <2>1. fs[k] \in Entries
    OBVIOUS
  <2>2. k \in Targets(fs, p) => Hits(fs[k].path, p)
    BY TargetsHit
  <2> QED
    BY <1>2, <2>1, <2>2 DEF Graded, Entries
<1>4. GradedAll(fs, gs, p)
  BY <1>1, <1>3, GradedListed
<1> QED
  BY <1>4 DEF gs

LEMMA ChGroupGrades ==
  ASSUME NEW fs \in Seq(Entries), NEW p, NEW g \in Owners
  PROVE  GradedAll(fs, ChGroup(fs, p, g), p)
<1> DEFINE gs == ChGroup(fs, p, g)
<1>1. gs = [k \in DOMAIN fs |-> gs[k]]
  BY DEF ChGroup
<1>2. \A k \in DOMAIN fs : gs[k] = IF k \in Targets(fs, p)
                                   THEN [fs[k] EXCEPT !.group = g] ELSE fs[k]
  BY DEF ChGroup
<1> HIDE DEF gs
<1>3. ASSUME NEW k \in DOMAIN fs PROVE Graded(fs[k], gs[k], p)
  <2>1. fs[k] \in Entries
    OBVIOUS
  <2>2. k \in Targets(fs, p) => Hits(fs[k].path, p)
    BY TargetsHit
  <2> QED
    BY <1>2, <2>1, <2>2 DEF Graded, Entries
<1>4. GradedAll(fs, gs, p)
  BY <1>1, <1>3, GradedListed
<1> QED
  BY <1>4 DEF gs

LEMMA GradedTwice ==
  ASSUME NEW fs, NEW gs, NEW hs, NEW p, GradedAll(fs, gs, p), GradedAll(gs, hs, p)
  PROVE  GradedAll(fs, hs, p)
<1>1. ASSUME NEW k \in DOMAIN fs PROVE Graded(fs[k], hs[k], p)
  <2>1. Graded(fs[k], gs[k], p) /\ Graded(gs[k], hs[k], p)
    BY DEF GradedAll
  <2> QED
    BY <2>1 DEF Graded
<1> QED
  BY <1>1 DEF GradedAll

LEMMA DressedGrades ==
  ASSUME NEW fs \in Seq(Entries), NEW p, NEW m \in Perms, NEW u \in Owners, NEW g \in Owners
  PROVE  GradedAll(fs, Dressed(fs, p, m, u, g), p)
<1> DEFINE a == ChMod(fs, p, m)
           b == ChOwn(a, p, u)
           c == ChGroup(b, p, g)
<1>1. GradedAll(fs, a, p)
  BY ChModGrades
<1>2. a \in Seq(Entries)
  BY <1>1 DEF GradedAll
<1> HIDE DEF a
<1>3. GradedAll(a, b, p)
  BY <1>2, ChOwnGrades
<1>4. b \in Seq(Entries)
  BY <1>3 DEF GradedAll
<1> HIDE DEF b
<1>5. GradedAll(b, c, p)
  BY <1>4, ChGroupGrades
<1> HIDE DEF c
<1>6. GradedAll(fs, b, p)
  BY <1>1, <1>3, GradedTwice
<1>7. GradedAll(fs, c, p)
  BY <1>5, <1>6, GradedTwice
<1> QED
  BY <1>7 DEF Dressed, a, b, c

----------------------------------------------------------------------------
(* What the changes do to the map *)

\* A list with the same paths at the same places has namesakes when the other has.
LEMMA NamedStays ==
  ASSUME NEW fs, NEW gs, Named(fs), gs \in Seq(Entries), DOMAIN gs = DOMAIN fs,
         \A k \in DOMAIN fs : gs[k].path = fs[k].path
  PROVE  Named(gs) /\ DOMAIN MapOf(gs) = DOMAIN MapOf(fs)
<1>1. Named(gs)
  BY DEF Named, Namesakes
<1>2. DOMAIN MapOf(gs) = {gs[k].path : k \in DOMAIN gs}
  BY <1>1, MapHolds
<1>3. DOMAIN MapOf(fs) = {fs[k].path : k \in DOMAIN fs}
  BY MapHolds
<1> QED
  BY <1>1, <1>2, <1>3

\* Entries that differ in their rights alone, written as a change of the rights.
OtherRights(a, b) == b = [a EXCEPT !.perm = b.perm, !.user = b.user, !.group = b.group]

LEMMA RightsOnly ==
  ASSUME NEW e, NEW f, f.kind = e.kind, f.data = e.data, f.ino = e.ino,
         NEW a, NEW b, a = Attributes(e), b = Attributes(f)
  PROVE  OtherRights(a, b)
<1> DEFINE c == [a EXCEPT !.perm = b.perm]
           d == [c EXCEPT !.user = b.user]
           g == [d EXCEPT !.group = b.group]
<1>1. c = [kind |-> e.kind, perm |-> f.perm, user |-> e.user, group |-> e.group,
           data |-> e.data, ino |-> e.ino]
  BY DEF Attributes
<1>2. [a EXCEPT !.perm = b.perm, !.user = b.user, !.group = b.group] = g
  OBVIOUS
<1> HIDE DEF c
<1>3. d = [kind |-> e.kind, perm |-> f.perm, user |-> f.user, group |-> e.group,
           data |-> e.data, ino |-> e.ino]
  BY <1>1 DEF Attributes
<1> HIDE DEF d
<1>4. g = [kind |-> e.kind, perm |-> f.perm, user |-> f.user, group |-> f.group,
           data |-> e.data, ino |-> e.ino]
  BY <1>3 DEF Attributes
<1> HIDE DEF g
<1>5. g = b
  BY <1>4 DEF Attributes
<1> QED
  BY <1>2, <1>5 DEF OtherRights

LEMMA GradedInMap ==
  ASSUME NEW fs, NEW gs, Named(fs), Named(gs), NEW p \in Paths,
         NEW K \in SUBSET (DOMAIN fs \cap DOMAIN gs), \A k \in K : Graded(fs[k], gs[k], p)
  PROVE  Promise!Regraded(MapOf(fs), MapOf(gs), p, {fs[k].path : k \in K})
<1> DEFINE m == MapOf(fs)
           n == MapOf(gs)
<1>1. ASSUME NEW k \in K
      PROVE  LET q == fs[k].path
             IN  IF q \notin Promise!Named(m, p) THEN n[q] = m[q]
                 ELSE /\ n[q] = [m[q] EXCEPT !.perm = n[q].perm, !.user = n[q].user,
                                             !.group = n[q].group]
                      /\ Promise!IsPrefix(p) /\ n[q].perm # m[q].perm => m[q].kind = "file"
  <2> DEFINE q == fs[k].path
             e == fs[k]
             f == gs[k]
  <2>1. Graded(e, f, p) /\ f.path = q
    BY DEF Graded
  <2>2. m[q] = Attributes(e) /\ n[q] = Attributes(f) /\ q \in DOMAIN m
    BY <2>1, MapHolds
  <2>3. q \in Promise!Named(m, p) <=> Hits(q, p)
    BY <2>2, NamedByBoth
  <2>4. Promise!IsPrefix(p) = Prefix(p)
    BY NamedByBoth
  <2> HIDE DEF m, n, f
  <2>5. CASE ~Hits(q, p)
    <3>1. f = e
      BY <2>1, <2>5 DEF Graded
    <3> QED
      BY <2>2, <2>3, <2>5, <3>1
  <2>6. CASE Hits(q, p)
    <3>1. f.ino = e.ino /\ f.kind = e.kind /\ f.data = e.data
      BY <2>1 DEF Graded
    <3>2. Prefix(p) /\ f.perm # e.perm => e.kind = "file"
      BY <2>1 DEF Graded
    <3> HIDE DEF e, q
    <3>3. n[q] = [m[q] EXCEPT !.perm = n[q].perm, !.user = n[q].user, !.group = n[q].group]
      <4>1. OtherRights(m[q], n[q])
        BY <2>2, <3>1, RightsOnly
      <4> QED
        BY <4>1 DEF OtherRights
    <3>4. Promise!IsPrefix(p) /\ n[q].perm # m[q].perm => m[q].kind = "file"
      BY <2>2, <2>4, <3>2 DEF Attributes
    <3>5. q \in Promise!Named(m, p)
      BY <2>3, <2>6
    <3> QED
      BY <3>3, <3>4, <3>5 DEF q
  <2> QED
    BY <2>5, <2>6
<1> HIDE DEF m, n
<1>2. Promise!Regraded(m, n, p, {fs[k].path : k \in K})
  BY <1>1 DEF Promise!Regraded
<1> QED
  BY <1>2 DEF m, n

\* chmod, chown and group change the rights of what their path names.
LEMMA RightsStep ==
  ASSUME NEW fs, NEW gs, NEW p \in Paths, Named(fs), GradedAll(fs, gs, p)
  PROVE  Promise!Rights(MapOf(fs), MapOf(gs), p)
<1>1. Named(gs) /\ DOMAIN MapOf(gs) = DOMAIN MapOf(fs)
  BY NamedStays DEF GradedAll, Graded
<1>2. Promise!Regraded(MapOf(fs), MapOf(gs), p, {fs[k].path : k \in DOMAIN fs})
  <2> DEFINE K == DOMAIN fs
  <2>1. K \in SUBSET (DOMAIN fs \cap DOMAIN gs) /\ \A k \in K : Graded(fs[k], gs[k], p)
    BY DEF GradedAll
  <2> HIDE DEF K
  <2>2. Promise!Regraded(MapOf(fs), MapOf(gs), p, {fs[k].path : k \in K})
    BY <1>1, <2>1, GradedInMap
  <2> QED
    BY <2>2 DEF K
<1>3. DOMAIN MapOf(fs) = {fs[k].path : k \in DOMAIN fs}
  BY MapHolds
<1> QED
  BY <1>1, <1>2, <1>3 DEF Promise!Rights

\* A new entry, and the rights its path is given.
LEMMA AddStep ==
  ASSUME NEW fs, NEW gs, NEW e \in Entries, Named(fs), ~Exists(fs, e.path),
         \A k \in DOMAIN fs : fs[k].ino # e.ino, GradedAll(Append(fs, e), gs, e.path)
  PROVE  Promise!Add(MapOf(fs), MapOf(gs))
<1> DEFINE p == e.path
           l == Len(fs) + 1
           hs == Append(fs, e)
           m == MapOf(fs)
           n == MapOf(gs)
<1>1. /\ hs \in Seq(Entries) /\ DOMAIN hs = DOMAIN fs \cup {l} /\ l \notin DOMAIN fs
      /\ hs[l] = e /\ \A k \in DOMAIN fs : hs[k] = fs[k]
  BY DEF Named
<1>2. p \in Paths
  BY DEF Entries
<1>3. \A k \in DOMAIN fs : fs[k].path # p
  BY DEF Exists, At
<1> HIDE DEF p, hs, l
<1>4. Named(hs)
  <2>1. hs[l].path = p /\ \A k \in DOMAIN fs : hs[k].path = fs[k].path
    BY <1>1 DEF p
  <2>2. \A i, j \in DOMAIN fs : i # j => fs[i].path # fs[j].path
    BY DEF Named, Namesakes
  <2>3. \A i, j \in DOMAIN hs : i # j => hs[i].path # hs[j].path
    BY <1>1, <1>3, <2>1, <2>2
  <2> QED
    BY <1>1, <2>3 DEF Named, Namesakes
<1>5. GradedAll(hs, gs, p)
  BY DEF hs, p
<1>6. /\ gs \in Seq(Entries) /\ DOMAIN gs = DOMAIN hs
      /\ \A k \in DOMAIN hs : gs[k].path = hs[k].path /\ gs[k].ino = hs[k].ino
                              /\ Graded(hs[k], gs[k], p)
  BY <1>5 DEF GradedAll, Graded
<1>7. Named(gs)
  BY <1>4, <1>6, NamedStays
<1>8. DOMAIN m = {fs[k].path : k \in DOMAIN fs} /\ DOMAIN n = {gs[k].path : k \in DOMAIN gs}
  BY <1>7, MapHolds
<1>9. gs[l].path = p /\ \A k \in DOMAIN fs : gs[k].path = fs[k].path
  BY <1>1, <1>6 DEF p
<1>10. p \notin DOMAIN m /\ p \in DOMAIN n /\ DOMAIN n = DOMAIN m \cup {p}
  BY <1>1, <1>3, <1>6, <1>8, <1>9
<1>11. ASSUME NEW q \in DOMAIN m PROVE n[q].ino # n[p].ino
  <2>1. PICK k \in DOMAIN fs : fs[k].path = q
    BY <1>8
  <2>2. n[q] = Attributes(gs[k]) /\ n[p] = Attributes(gs[l])
    <3>1. k \in DOMAIN gs /\ l \in DOMAIN gs /\ gs[k].path = q
      BY <1>1, <1>6, <1>9, <2>1
    <3>2. n[gs[k].path] = Attributes(gs[k]) /\ n[gs[l].path] = Attributes(gs[l])
      BY <1>7, <3>1, MapHolds
    <3> QED
      BY <1>9, <3>1, <3>2
  <2>3. gs[k].ino = fs[k].ino /\ gs[l].ino = e.ino
    BY <1>1, <1>6
  <2> QED
    BY <2>2, <2>3 DEF Attributes
<1>12. Promise!Regraded(m, n, p, DOMAIN m)
  <2> DEFINE K == DOMAIN fs
  <2>1. K \in SUBSET (DOMAIN fs \cap DOMAIN gs) /\ \A k \in K : Graded(fs[k], gs[k], p)
    BY <1>1, <1>6
  <2> HIDE DEF K
  <2>2. Promise!Regraded(m, n, p, {fs[k].path : k \in K})
    BY <1>2, <1>7, <2>1, GradedInMap
  <2> QED
    BY <1>8, <2>2 DEF K
<1> HIDE DEF m, n
<1>13. Promise!Add(m, n)
  BY <1>10, <1>11, <1>12 DEF Promise!Add
<1> QED
  BY <1>13 DEF m, n

\* New data in the entries and nothing else.
LEMMA RefillStep ==
  ASSUME NEW fs, NEW gs, Named(fs), gs = [k \in DOMAIN fs |-> gs[k]],
         \A k \in DOMAIN fs : gs[k] = fs[k] \/ \E c \in Contents : gs[k] = [fs[k] EXCEPT !.data = c]
  PROVE  Promise!Refill(MapOf(fs), MapOf(gs)) /\ gs \in Seq(Entries)
<1> DEFINE m == MapOf(fs)
           n == MapOf(gs)
<1>1. \A k \in DOMAIN fs : fs[k] \in Entries
  BY DEF Named
<1>2. ASSUME NEW k \in DOMAIN fs
      PROVE  /\ gs[k] \in Entries /\ gs[k].path = fs[k].path
             /\ Attributes(gs[k]) = [Attributes(fs[k]) EXCEPT !.data = Attributes(gs[k]).data]
  <2> DEFINE e == fs[k]
             f == gs[k]
  <2>1. e \in Entries /\ (f = e \/ \E c \in Contents : f = [e EXCEPT !.data = c])
    BY <1>1
  <2> HIDE DEF e, f
  <2>2. CASE f = e
    BY <2>1, <2>2 DEF Attributes, e, f
  <2>3. ASSUME NEW c \in Contents, f = [e EXCEPT !.data = c]
        PROVE  /\ f \in Entries /\ f.path = e.path
               /\ Attributes(f) = [Attributes(e) EXCEPT !.data = Attributes(f).data]
    <3>1. /\ f \in Entries /\ f.path = e.path /\ f.kind = e.kind /\ f.perm = e.perm
          /\ f.user = e.user /\ f.group = e.group /\ f.ino = e.ino
      BY <2>1, <2>3 DEF Entries
    <3> QED
      BY <3>1 DEF Attributes
  <2> QED
    BY <2>1, <2>2, <2>3 DEF e, f
<1>3. gs \in Seq(Entries) /\ DOMAIN gs = DOMAIN fs
  <2>1. fs \in Seq(Entries) /\ DOMAIN fs = 1 .. Len(fs) /\ Len(fs) \in Nat
    BY DEF Named
  <2>2. DOMAIN gs = DOMAIN fs
    OBVIOUS
  <2>3. gs \in [1 .. Len(fs) -> Entries]
    BY <1>2, <2>1
  <2> QED
    BY <2>1, <2>2, <2>3, SeqDef
<1>4. Named(gs) /\ DOMAIN n = DOMAIN m
  BY <1>2, <1>3, NamedStays
<1>5. ASSUME NEW q \in DOMAIN m PROVE n[q] = [m[q] EXCEPT !.data = n[q].data]
  <2>1. PICK k \in DOMAIN fs : fs[k].path = q
    <3>1. DOMAIN m = {fs[k].path : k \in DOMAIN fs}
      BY MapHolds
    <3> QED
      BY <3>1
  <2>2. m[q] = Attributes(fs[k])
    BY <2>1, MapHolds
  <2>3. n[q] = Attributes(gs[k])
    <3>1. k \in DOMAIN gs /\ gs[k].path = q
      BY <1>2, <1>3, <2>1
    <3>2. n[gs[k].path] = Attributes(gs[k])
      BY <1>4, <3>1, MapHolds
    <3> QED
      BY <3>1, <3>2
  <2> DEFINE a == Attributes(fs[k])
             b == Attributes(gs[k])
  <2>4. b = [a EXCEPT !.data = b.data]
    BY <1>2
  <2> HIDE DEF a, b, m, n
  <2>5. m[q] = a /\ n[q] = b
    BY <2>2, <2>3 DEF a, b
  <2> QED
    BY <2>4, <2>5
<1> HIDE DEF m, n
<1>6. Promise!Refill(m, n)
  BY <1>4, <1>5 DEF Promise!Refill
<1> QED
  BY <1>3, <1>6 DEF m, n

\* A regular file that is there gets new data, and its path new rights.
LEMMA RenewStep ==
  ASSUME NEW fs, NEW gs, Named(fs), NEW k \in DOMAIN fs, fs[k].kind = "file",
         NEW c \in Contents, GradedAll(UpdateContent(fs, fs[k].path, c), gs, fs[k].path)
  PROVE  \E p \in DOMAIN MapOf(fs) : Promise!Renew(MapOf(fs), MapOf(gs), p)
<1> DEFINE p == fs[k].path
           hs == UpdateContent(fs, p, c)
           m == MapOf(fs)
           n == MapOf(gs)
           K == DOMAIN fs \ {k}
<1>1. fs \in Seq(Entries) /\ fs[k] \in Entries /\ p \in Paths
  BY EntryOf DEF Named
<1>2. Kept(fs, hs)
  BY <1>1, AttributesKeep
<1>3. /\ hs[k] = [fs[k] EXCEPT !.data = c] /\ \A j \in K : hs[j] = fs[j]
  <2>1. At(fs, p) = {k}
    BY DEF At, Named, Namesakes
  <2> QED
    BY <2>1 DEF UpdateContent
<1>4. GradedAll(hs, gs, p)
  OBVIOUS
<1> HIDE DEF p, hs
<1>5. /\ gs \in Seq(Entries) /\ DOMAIN gs = DOMAIN fs
      /\ \A j \in DOMAIN fs : gs[j].path = fs[j].path
  BY <1>2, <1>4 DEF Kept, GradedAll, Graded
<1>6. gs[k].kind = "file" /\ gs[k].ino = fs[k].ino
  <2>1. hs[k].kind = "file" /\ hs[k].ino = fs[k].ino
    BY <1>1, <1>3 DEF Entries
  <2> QED
    BY <1>2, <1>4, <2>1 DEF Kept, GradedAll, Graded
<1>7. Named(gs) /\ DOMAIN n = DOMAIN m
  BY <1>5, NamedStays
<1>8. p \in DOMAIN m /\ m[p] = Attributes(fs[k]) /\ n[p] = Attributes(gs[k])
  <2>1. gs[k].path = p
    BY <1>5 DEF p
  <2>2. n[gs[k].path] = Attributes(gs[k])
    BY <1>5, <1>7, MapHolds
  <2> QED
    BY <2>1, <2>2, MapHolds DEF p
<1>9. m[p].kind = "file" /\ n[p].kind = "file" /\ n[p].ino = m[p].ino
  BY <1>6, <1>8 DEF Attributes
<1>10. K \in SUBSET (DOMAIN fs \cap DOMAIN gs) /\ \A j \in K : Graded(fs[j], gs[j], p)
  BY <1>2, <1>3, <1>4, <1>5 DEF GradedAll, Kept
<1>11. DOMAIN m \ {p} = {fs[j].path : j \in K}
  <2>1. DOMAIN m = {fs[j].path : j \in DOMAIN fs}
    BY MapHolds
  <2>2. \A j \in K : fs[j].path # p
    BY DEF Named, Namesakes, p
  <2> QED
    BY <2>1, <2>2 DEF p
<1> HIDE DEF K
<1>12. Promise!Regraded(m, n, p, {fs[j].path : j \in K})
  BY <1>1, <1>7, <1>10, GradedInMap
<1> HIDE DEF m, n
<1>13. Promise!Renew(m, n, p)
  BY <1>7, <1>8, <1>9, <1>11, <1>12 DEF Promise!Renew
<1> QED
  BY <1>8, <1>13 DEF m, n

\* A removal takes away the entries of some paths and leaves the others as they are.
LEMMA RemoveStep ==
  ASSUME NEW fs, Named(fs), NEW K, NEW P, NEW gs \in Without(fs, K),
         \A k \in DOMAIN fs : k \in K <=> fs[k].path \in P
  PROVE  Promise!Remove(MapOf(fs), MapOf(gs), P)
<1> DEFINE m == MapOf(fs)
           n == MapOf(gs)
<1>1. Thinned(fs, gs)
  BY WithoutThins DEF Named
<1>2. Named(gs)
  <2>1. PICK f \in [DOMAIN gs -> DOMAIN fs] :
          /\ \A i, j \in DOMAIN gs : i # j => f[i] # f[j]
          /\ \A k \in DOMAIN gs : gs[k] = fs[f[k]]
    BY <1>1 DEF Thinned
  <2>2. \A k \in DOMAIN gs : f[k] \in DOMAIN fs
    BY <2>1
  <2> QED
    BY <1>1, <2>1, <2>2 DEF Named, Namesakes, Thinned
<1>3. /\ \A k \in DOMAIN gs : \E i \in DOMAIN fs \ K : gs[k] = fs[i]
      /\ \A i \in DOMAIN fs \ K : \E k \in DOMAIN gs : gs[k] = fs[i]
  BY WithoutLeaves DEF Named
<1>4. DOMAIN m = {fs[k].path : k \in DOMAIN fs} /\ DOMAIN n = {gs[k].path : k \in DOMAIN gs}
  BY <1>2, MapHolds
<1>5. DOMAIN n = DOMAIN m \ P
  BY <1>3, <1>4
<1>6. ASSUME NEW q \in DOMAIN n PROVE n[q] = m[q]
  <2>1. PICK k \in DOMAIN gs : gs[k].path = q
    BY <1>4
  <2>2. PICK i \in DOMAIN fs : gs[k] = fs[i]
    BY <1>3
  <2>3. n[gs[k].path] = Attributes(gs[k]) /\ m[fs[i].path] = Attributes(fs[i])
    BY <1>2, MapHolds
  <2> QED
    BY <2>1, <2>2, <2>3
<1>7. n = [q \in DOMAIN n |-> n[q]]
  BY DEF MapOf
<1> HIDE DEF m, n
<1>8. n = [q \in DOMAIN m \ P |-> m[q]]
  BY <1>5, <1>6, <1>7
<1>9. Promise!Remove(m, n, P)
  BY <1>8 DEF Promise!Remove
<1> QED
  BY <1>9 DEF m, n

----------------------------------------------------------------------------
(* Steps *)

\* The map makes a step, or the list stays.
Moves == Promise!Step(MapOf(files), MapOf(files')) \/ files' = files

LEMMA NamedFiles ==
  ASSUME IInv
  PROVE  /\ Named(files) /\ files \in Seq(Entries)
         /\ \A k \in DOMAIN files : files[k].ino # top + 1
<1>1. Named(files) /\ files \in Seq(Entries)
  BY DEF IInv, Sound, Named
<1>2. \A k \in DOMAIN files : files[k].ino <= top /\ files[k].ino \in Nat
  BY EntryOf DEF IInv, Sound
<1>3. top \in Nat
  BY Basics
<1> QED
  BY <1>1, <1>2, <1>3

LEMMA LogMoves ==
  ASSUME NEW answer, Log(answer)
  PROVE  Moves
BY DEF Log, Moves

LEMMA CrashMoves ==
  ASSUME Crash
  PROVE  Moves
BY DEF Crash, Moves

\* A new node at the end, with the rights its path is given.
LEMMA AppendMoves ==
  ASSUME IInv, NEW p \in Paths, NEW kind \in Kinds, NEW c \in Contents \cup {NoContent},
         ~Exists(files, p), GradedAll(Append(files, Node(p, kind, c)), files', p)
  PROVE  Moves
<1> DEFINE e == Node(p, kind, c)
<1>1. e \in Entries /\ e.path = p /\ e.ino = top + 1
  BY NodeIsEntry
<1> HIDE DEF e
<1>2. \A k \in DOMAIN files : files[k].ino # e.ino
  BY <1>1, NamedFiles
<1>3. ~Exists(files, e.path) /\ GradedAll(Append(files, e), files', e.path)
  BY <1>1 DEF e
<1>4. Promise!Add(MapOf(files), MapOf(files'))
  BY <1>1, <1>2, <1>3, NamedFiles, AddStep
<1> QED
  BY <1>4 DEF Moves, Promise!Step

LEMMA GradedSelf ==
  ASSUME NEW fs \in Seq(Entries), NEW p
  PROVE  GradedAll(fs, fs, p)
BY DEF GradedAll, Graded

LEMMA AddMissingMoves ==
  ASSUME IInv, NEW n \in Paths, NEW kind \in Kinds, NEW c \in Contents \cup {NoContent},
         AddMissing(n, kind, c)
  PROVE  Moves
<1> DEFINE p == Converted(n)
           e == Node(p, kind, c)
<1>1. CASE Exists(files, p)
  BY <1>1 DEF AddMissing, Moves
<1>2. CASE ~Exists(files, p)
  <2>1. files' = Append(files, e)
    BY <1>2 DEF AddMissing
  <2>2. p \in Paths
    BY PathsStay DEF Converted
  <2>3. e \in Entries
    BY <2>2, NodeIsEntry
  <2>4. Append(files, e) \in Seq(Entries)
    BY <2>3, NamedFiles
  <2>5. GradedAll(Append(files, e), files', p)
    BY <2>1, <2>4, GradedSelf
  <2> QED
    BY <1>2, <2>2, <2>5, AppendMoves
<1> QED
  BY <1>1, <1>2

\* New data where the path is: a change of data or of nothing.
LEMMA UpdateContentMoves ==
  ASSUME IInv, NEW p, NEW c \in Contents, files' = UpdateContent(files, p, c)
  PROVE  Moves
<1>1. files' = [k \in DOMAIN files |-> files'[k]]
  BY DEF UpdateContent
<1>2. \A k \in DOMAIN files : files'[k] = files[k] \/ files'[k] = [files[k] EXCEPT !.data = c]
  BY DEF UpdateContent
<1>3. Promise!Refill(MapOf(files), MapOf(files'))
  BY <1>1, <1>2, NamedFiles, RefillStep
<1> QED
  BY <1>3 DEF Moves, Promise!Step

LEMMA MergeMoves ==
  ASSUME IInv, Update \/ MergeDir \/ BeginFiles \/ MergeFile \/ BeginCommands
  PROVE  Moves
<1>1. CASE Update
  <2>1. local \in Locals
    BY <1>1, Basics DEF Update, IInv, TypeOK
  <2>2. \A n \in DOMAIN local.files : local.files[n] \in Contents
    BY <2>1, UpdaterAssumption
  <2>3. files' = [k \in DOMAIN files |-> files'[k]]
    BY <1>1 DEF Update
  <2>4. \A k \in DOMAIN files :
          files'[k] = files[k] \/ \E c \in Contents : files'[k] = [files[k] EXCEPT !.data = c]
    BY <1>1, <2>2 DEF Update, Updated
  <2>5. Promise!Refill(MapOf(files), MapOf(files'))
    BY <2>3, <2>4, NamedFiles, RefillStep
  <2> QED
    BY <2>5 DEF Moves, Promise!Step
<1>2. CASE MergeDir
  <2>1. PICK d \in todo : AddMissing(d, "dir", NoContent)
    BY <1>2 DEF MergeDir
  <2>2. d \in Paths /\ "dir" \in Kinds
    BY DEF IInv, TypeOK, Kinds
  <2> QED
    BY <2>1, <2>2, AddMissingMoves
<1>3. CASE MergeFile
  <2>1. PICK n \in todo : AddMissing(n, "file", local.files[n])
    BY <1>3 DEF MergeFile
  <2>2. local \in Locals /\ n \in Paths /\ n \in DOMAIN local.files /\ "file" \in Kinds
    BY <1>3, Basics DEF MergeFile, IInv, TypeOK, Kinds
  <2>3. local.files[n] \in Contents
    BY <2>2, UpdaterAssumption
  <2> QED
    BY <2>1, <2>2, <2>3, AddMissingMoves
<1>4. CASE BeginFiles \/ BeginCommands
  BY <1>4 DEF BeginFiles, BeginCommands, Moves
<1> QED
  BY <1>1, <1>2, <1>3, <1>4

LEMMA AddEntryMoves ==
  ASSUME IInv, NEW p \in Paths, NEW kind \in Kinds, NEW c \in Contents \cup {NoContent},
         NEW m \in Perms, NEW u \in Owners, NEW g \in Owners, AddEntry(p, kind, c, m, u, g)
  PROVE  Moves
<1> DEFINE e == Node(p, kind, c)
           hs == Append(files, e)
<1>1. CASE Crash
  BY <1>1, CrashMoves
<1>2. CASE ~Crash
  <2>1. files' = Dressed(hs, p, m, u, g) /\ ~Exists(files, p)
    BY <1>2 DEF AddEntry
  <2>2. e \in Entries
    BY NodeIsEntry
  <2>3. hs \in Seq(Entries)
    BY <2>2, NamedFiles
  <2>4. GradedAll(hs, files', p)
    BY <2>1, <2>3, DressedGrades
  <2> QED
    BY <2>1, <2>4, AppendMoves
<1> QED
  BY <1>1, <1>2

\* Where a path is, its entry is the only one.
LEMMA FoundFirst ==
  ASSUME IInv, NEW p, Exists(files, p)
  PROVE  First(files, p) \in DOMAIN files /\ files[First(files, p)].path = p
<1>1. PICK k \in DOMAIN files : files[k].path = p
  BY DEF Exists, At
<1>2. At(files, p) = {k} /\ k \in Nat
  BY <1>1, NamedFiles DEF At, Named, Namesakes
<1>3. First(files, p) = k
  BY <1>2 DEF First
<1> QED
  BY <1>1, <1>3

LEMMA AddMoves ==
  ASSUME IInv, NEW p \in Paths, Add(p)
  PROVE  Moves
<1>1. PICK m \in Perms, u \in Owners, g \in Owners :
        \/ Dir(p, m, u, g)
        \/ Nod(p, m, u, g)
        \/ \E c \in Contents : File(p, c, m, u, g) \/ SLink(p, c, m, u, g)
  BY DEF Add
<1>2. {"dir", "nod", "file", "link"} \subseteq Kinds
  BY DEF Kinds
<1>3. \A answer : Log(answer) => Moves
  BY LogMoves
<1>4. \A kind \in {"dir", "nod"} : AddEntry(p, kind, NoContent, m, u, g) => Moves
  BY <1>2, AddEntryMoves
<1>5. \A kind \in {"file", "link"}, c \in Contents : AddEntry(p, kind, c, m, u, g) => Moves
  BY <1>2, AddEntryMoves
<1>6. CASE Dir(p, m, u, g) \/ Nod(p, m, u, g)
  BY <1>3, <1>4, <1>6 DEF Dir, Nod
<1>7. ASSUME NEW c \in Contents, File(p, c, m, u, g) PROVE Moves
  <2>1. CASE AddEntry(p, "file", c, m, u, g) \/ Log("Error")
    BY <1>3, <1>5, <2>1
  <2>2. CASE /\ Exists(files, p) /\ KindOf(p) = "file"
             /\ Change("Ok", Dressed(UpdateContent(files, p, c), p, m, u, g))
    <3> DEFINE k == First(files, p)
               hs == UpdateContent(files, p, c)
    <3>1. k \in DOMAIN files /\ files[k].path = p /\ files[k].kind = "file"
      BY <2>2, FoundFirst DEF KindOf
    <3>2. hs \in Seq(Entries)
      BY AttributesKeep, NamedFiles DEF Kept
    <3>3. GradedAll(hs, files', p)
      BY <2>2, <3>2, DressedGrades DEF Change
    <3> HIDE DEF k
    <3>4. GradedAll(UpdateContent(files, files[k].path, c), files', files[k].path)
      BY <3>1, <3>3
    <3>5. \E q \in DOMAIN MapOf(files) : Promise!Renew(MapOf(files), MapOf(files'), q)
      BY <3>1, <3>4, NamedFiles, RenewStep
    <3> QED
      BY <3>5 DEF Moves, Promise!Step
  <2> QED
    BY <1>7, <2>1, <2>2 DEF File
<1>8. ASSUME NEW c \in Contents, SLink(p, c, m, u, g) PROVE Moves
  <2>1. CASE AddEntry(p, "link", c, m, u, g) \/ Log("Error")
    BY <1>3, <1>5, <2>1
  <2>2. CASE Change("Ok", UpdateContent(files, p, c))
    BY <2>2, UpdateContentMoves DEF Change
  <2> QED
    BY <1>8, <2>1, <2>2 DEF SLink
<1> QED
  BY <1>1, <1>6, <1>7, <1>8

\* The paths that can be asked for.
Asked == {FilterPath(p) : p \in Adds \cup Others}

LEMMA AskedPaths == Asked \subseteq Paths
<1>1. Adds \cup Others \subseteq Paths
  BY UpdaterAssumption
<1> QED
  BY <1>1, PathsStay DEF Asked

LEMMA RmMoves ==
  ASSUME IInv, NEW p \in Asked, Rm(p)
  PROVE  Moves
<1> DEFINE m == MapOf(files)
<1>1. p \in Paths
  BY AskedPaths
<1>2. \A k \in DOMAIN files : files[k].path \in DOMAIN m
  BY NamedFiles, MapHolds
<1>3. CASE Log("Error") \/ Log("Silent")
  BY <1>3, LogMoves
<1>4. ASSUME NEW fs \in Without(files, At(files, p)), Change("Ok", fs) PROVE Moves
  <2> DEFINE P == {q \in DOMAIN m : q = p}
  <2>1. \A k \in DOMAIN files : k \in At(files, p) <=> files[k].path \in P
    BY <1>2 DEF At
  <2> HIDE DEF P
  <2>2. Promise!Remove(m, MapOf(fs), P)
    BY <2>1, NamedFiles, RemoveStep
  <2>3. files' = fs
    BY <1>4 DEF Change
  <2> QED
    BY <2>2, <2>3 DEF Moves, Promise!Step, Asked, P
<1>5. ASSUME Prefix(p), NEW fs \in Without(files, Targets(files, p)), Change("Ok", fs)
      PROVE  Moves
  <2> DEFINE P == Promise!Named(m, p)
  <2>1. P = {q \in DOMAIN m : Hits(q, p)}
    BY <1>1, NamedFiles, NamedByBoth
  <2> HIDE DEF P
  <2>2. \A k \in DOMAIN files : k \in Targets(files, p) <=> files[k].path \in P
    BY <1>2, <1>5, <2>1 DEF Targets, Hits
  <2>3. Promise!Remove(m, MapOf(fs), P)
    BY <2>2, NamedFiles, RemoveStep
  <2>4. files' = fs
    BY <1>5 DEF Change
  <2> QED
    BY <2>3, <2>4 DEF Moves, Promise!Step, Asked, P
<1> QED
  BY <1>3, <1>4, <1>5 DEF Rm

LEMMA GradedMoves ==
  ASSUME IInv, NEW p \in Asked, GradedAll(files, files', p)
  PROVE  Moves
<1>1. Promise!Rights(MapOf(files), MapOf(files'), p)
  BY AskedPaths, NamedFiles, RightsStep
<1> QED
  BY <1>1 DEF Moves, Promise!Step, Asked

LEMMA AttributeMoves ==
  ASSUME IInv, NEW p \in Asked, Attribute(p)
  PROVE  Moves
<1>1. CASE Crash
  BY <1>1, CrashMoves
<1>2. ASSUME NEW m \in Perms, files' = ChMod(files, p, m) PROVE Moves
  BY <1>2, NamedFiles, ChModGrades, GradedMoves
<1>3. ASSUME NEW u \in Owners, files' = ChOwn(files, p, u) PROVE Moves
  BY <1>3, NamedFiles, ChOwnGrades, GradedMoves
<1>4. ASSUME NEW g \in Owners, files' = ChGroup(files, p, g) PROVE Moves
  BY <1>4, NamedFiles, ChGroupGrades, GradedMoves
<1>5. ASSUME NEW u \in Owners, NEW g \in Owners,
             files' = ChGroup(ChOwn(files, p, u), p, g)
      PROVE  Moves
  <2> DEFINE fs == ChOwn(files, p, u)
  <2>1. GradedAll(files, fs, p)
    BY NamedFiles, ChOwnGrades
  <2>2. fs \in Seq(Entries)
    BY <2>1 DEF GradedAll
  <2>3. files' = ChGroup(fs, p, g)
    BY <1>5
  <2> HIDE DEF fs
  <2>4. GradedAll(fs, files', p)
    BY <2>2, <2>3, ChGroupGrades
  <2> QED
    BY <2>1, <2>4, GradedTwice, GradedMoves
<1> QED
  BY <1>1, <1>2, <1>3, <1>4, <1>5 DEF Attribute, Change

LEMMA ClearMoves ==
  ASSUME IInv, Clear
  PROVE  Moves
<1> DEFINE m == MapOf(files)
           K == {k \in DOMAIN files : files[k].path # Dot}
           P == {q \in DOMAIN m : q # <<".">>}
<1>1. PICK fs \in Without(files, K) : Change("Ok", fs)
  BY DEF Clear
<1>2. \A k \in DOMAIN files : files[k].path \in DOMAIN m
  BY NamedFiles, MapHolds
<1>3. \A k \in DOMAIN files : k \in K <=> files[k].path \in P
  BY <1>2 DEF Dot
<1> HIDE DEF K, P
<1>4. Promise!Remove(m, MapOf(fs), P)
  BY <1>3, NamedFiles, RemoveStep
<1>5. files' = fs
  BY <1>1 DEF Change
<1> QED
  BY <1>4, <1>5 DEF Moves, Promise!Step, P

LEMMA StepMoves ==
  ASSUME IInv, Next
  PROVE  Moves
<1>1. CASE Update \/ MergeDir \/ BeginFiles \/ MergeFile \/ BeginCommands
  BY <1>1, MergeMoves
<1>2. CASE Command
  <2>1. ASSUME NEW p \in Adds, Add(FilterPath(p)) PROVE Moves
    <3>1. FilterPath(p) \in Paths
      BY PathsStay, UpdaterAssumption
    <3> QED
      BY <2>1, <3>1, AddMoves
  <2>2. ASSUME NEW p \in Others,
               \/ Rm(FilterPath(p))
               \/ Attribute(FilterPath(p))
               \/ \E c \in Contents : \/ Replace(FilterPath(p), "file", c)
                                      \/ Replace(FilterPath(p), "link", c)
        PROVE  Moves
    <3>1. FilterPath(p) \in Asked
      BY DEF Asked
    <3>2. CASE Rm(FilterPath(p)) \/ Attribute(FilterPath(p))
      BY <3>1, <3>2, RmMoves, AttributeMoves
    <3>3. ASSUME NEW kind, NEW c \in Contents, Replace(FilterPath(p), kind, c) PROVE Moves
      BY <3>3, LogMoves, UpdateContentMoves DEF Replace, Change
    <3> QED
      BY <2>2, <3>2, <3>3
  <2>3. CASE Clear \/ Reject \/ Nothing \/ Crash
    BY <2>3, ClearMoves, LogMoves, CrashMoves DEF Reject, Nothing
  <2> QED
    BY <1>2, <2>1, <2>2, <2>3 DEF Command
<1>3. CASE Save
  BY <1>3 DEF Save, Moves
<1> QED
  BY <1>1, <1>2, <1>3 DEF Next

----------------------------------------------------------------------------
(* Theorem *)

\* Read by its paths the archive is a map, and each step is one change of it: one
\* new entry, new data, the rights of what a path names, or the removal of it.
THEOREM ArchiveIsAMap == Spec => KeepsPromise
<1>1. Init => Promise!Init
  <2> SUFFICES ASSUME Init PROVE \A p \in DOMAIN MapOf(files) : p # <<>>
    BY DEF Promise!Init
  <2>1. Named(files)
    BY InitHolds, NamedFiles
  <2>2. DOMAIN MapOf(files) = {files[k].path : k \in DOMAIN files}
    BY <2>1, MapHolds
  <2>3. \A k \in DOMAIN files : files[k].path \in Paths
    BY <2>1, EntryOf DEF Named
  <2> QED
    BY <2>2, <2>3 DEF Paths
<1>2. IInv /\ [Next]_vars => [Promise!Next]_(MapOf(files))
  <2> SUFFICES ASSUME IInv, [Next]_vars
               PROVE  Promise!Step(MapOf(files), MapOf(files')) \/ MapOf(files') = MapOf(files)
    BY DEF Promise!Next
  <2>1. CASE Next
    BY <2>1, StepMoves DEF Moves
  <2>2. CASE UNCHANGED vars
    BY <2>2 DEF vars
  <2> QED
    BY <2>1, <2>2
<1> QED
  BY <1>1, <1>2, Invariance, PTL DEF Spec, KeepsPromise, Promise!Spec

===========================================================================
