----------------------------- MODULE Ext4Names -----------------------------
(***************************************************************************)
(* The names of a mounted filesystem (ext4.c): paths are walked through the *)
(* entries of directories, which name inodes; calls make, link, rename and  *)
(* remove them, and one handle lists a directory. A call is one step: the   *)
(* mount point's lock is held for all of it.                                *)
(*                                                                          *)
(* Directories have no index here (Ext4Dir has one), and all names take the *)
(* same space: an entry is a slot, and stays where it is.                   *)
(***************************************************************************)
EXTENDS Integers, FiniteSets, SequencesExt

CONSTANTS
  Names,     \* what a caller may call an entry
  Ids,       \* inodes beside the root
  Slots,     \* entries of a block
  Blocks,    \* blocks directories may have, the root's first one included
  Makes,     \* paths to make, with directories missing on the way or not
  Sources,   \* paths to link, rename and remove: the last part is a name
  Targets,   \* paths to link and rename to
  Careful,   \* callers stay clear of what Within lists
  MaxSteps

Root == 2    \* EXT4_INODE_ROOT_INDEX
Free == 0    \* an entry's inode: not in use; a call's answer: no such inode
End == -1    \* EXT4_DIR_ENTRY_OFFSET_TERM
Dots == {".", ".."}

ASSUME NamesAssumption ==
  /\ Ids \subseteq Nat \ 0 .. Root
  /\ Slots \in Nat /\ Slots > 2 /\ Blocks \in Nat \ {0}
  /\ Names \cap (Dots \cup {""}) = {}
  /\ \A p \in Sources : p # <<>> /\ Last(p) \in Names

VARIABLES
  node,       \* inode -> [kind, links, ent], ent a sequence of [name, ino, kind]
  journaled,  \* a journal was started at the mount: an abort takes everything back
  list,       \* the handle of ext4_dir_open: [ino, at], at a slot or End
  stays,      \* not in the code: the names that were there all through the listing
  given,      \* not in the code: the names it gave
  names,      \* not in the code: the tree of names, see TreeOf
  last,       \* the last call, its path or paths and what it returned
  steps

vars == <<node, journaled, list, stays, given, names, last, steps>>

Entry(n, i, k) == [name |-> n, ino |-> i, kind |-> k]
Empty == Entry("", Free, "file")
\* A block that begins with the entries e.
BlockOf(e) == [k \in 1 .. Slots |-> IF k \in DOMAIN e THEN e[k] ELSE Empty]
Unused == [kind |-> "free", links |-> 0, ent |-> <<>>]

----------------------------------------------------------------------------
(* Entries (ext4_dir.c) *)

\* The first entry in use of that name; 0: ENOENT
Find(s, d, n) == SelectInSeq(s[d].ent, LAMBDA e : e.ino # Free /\ e.name = n)

InoOf(s, d, n) == LET k == Find(s, d, n) IN IF k = 0 THEN Free ELSE s[d].ent[k].ino

UsedBlocks(s) == FoldFunction(LAMBDA x, n : Len(x.ent) \div Slots + n, 0, s)

\* A directory without a free slot gets another block.
Fits(s, d) == (\E k \in DOMAIN s[d].ent : s[d].ent[k].ino = Free) \/ UsedBlocks(s) < Blocks

\* The slot of an entry taken out is the next one used. Needs Fits(s, d).
AddEntry(s, d, n, i) ==
  LET k == SelectInSeq(s[d].ent, LAMBDA e : e.ino = Free)
      new == Entry(n, i, s[i].kind)
  IN IF k # 0 THEN [s EXCEPT ![d].ent[k] = new]
     ELSE [s EXCEPT ![d].ent = @ \o BlockOf(<<new>>)]

\* The name stays behind in the block, and a listing that stands there reads it.
RemoveEntry(s, d, n) == [s EXCEPT ![d].ent[Find(s, d, n)].ino = Free]

HasChildren(s, i) ==
  s[i].kind = "dir" /\ \E e \in Range(s[i].ent) : e.ino # Free /\ e.name \notin Dots

\* mutant: an entry that was removed takes the next one along
NextSlotBeyond(ent, k) ==
  LET from == IF ent[k].ino = Free THEN k + 2 ELSE k + 1
      j == SelectInSubSeq(ent, from, Len(ent), LAMBDA e : e.ino # Free)
  IN IF j = 0 THEN End ELSE j

\* The next entry in use behind slot k, or End.
NextSlot(ent, k) ==
  LET j == SelectInSubSeq(ent, k + 1, Len(ent), LAMBDA e : e.ino # Free)
  IN IF j = 0 THEN End ELSE j

----------------------------------------------------------------------------
(* Links *)

CountUp(s, i) == [s EXCEPT ![i].links = @ + 1]

\* A directory keeps the links of its own two entries.
CountDown(s, i) ==
  [s EXCEPT ![i].links = IF @ > (IF s[i].kind = "dir" THEN 2 ELSE 0) THEN @ - 1 ELSE @]

\* What a call leaves behind and what it returns.
Done(s) == [node |-> s, res |-> "EOK"]
Fail(s, r) == [node |-> s, res |-> r]

\* mutant: a directory that is moved keeps its way up
NotTurned(s, c, p) == s

\* The ".." of directory c names p.
Turned(s, c, p) == [s EXCEPT ![c].ent[Find(s, c, "..")].ino = p]

\* ext4_link of inode c as name n; whole: n is the last part of the path. When a
\* new directory gets no block of its own the entry is removed again by the
\* length of the rest of the path, which finds it only when n is all of it.
LinkIn(s, p, c, n, whole, rename) ==
  LET a == AddEntry(s, p, n, c)
      b == AddEntry(AddEntry(a, c, ".", c), c, "..", p)
  IN IF ~Fits(s, p) THEN Fail(s, "ENOSPC")
     ELSE IF s[c].kind # "dir" THEN Done(IF rename THEN a ELSE CountUp(a, c))
     ELSE IF rename THEN Done(CountUp(Turned(a, c, p), p))
     ELSE IF ~Fits(a, c) THEN Fail(IF whole THEN RemoveEntry(a, p, n) ELSE a, "ENOSPC")
     ELSE Done(CountUp([b EXCEPT ![c].links = 2], p))

Unlink(s, p, c, n) ==
  IF HasChildren(s, c) THEN Fail(s, "ENOTEMPTY")
  ELSE IF Find(s, p, n) = 0 THEN Fail(s, "ENOENT")
  ELSE LET a == RemoveEntry(s, p, n)
           b == IF s[c].kind = "dir" THEN CountDown(a, p) ELSE a
       IN Done(CountDown(b, c))

NewInode(s) == {i \in Ids : s[i].kind = "free"}

FreeInode(s, i) == [s EXCEPT ![i] = Unused]

----------------------------------------------------------------------------
(* Paths: sequences of names, dots and, for a slash at the end, "" *)

\* A walk: the inode reached, the directory its entry is in, what was returned.
Start(s) == [node |-> s, at |-> Root, up |-> Root, kind |-> "dir", res |-> "EOK"]

\* One turn of generic_open2's loop for a name that is there; ftype "any":
\* EXT4_DE_UNKNOWN.
Enter(w, n, goal, ftype) ==
  LET e == w.node[w.at].ent[Find(w.node, w.at, n)]
  IN IF (~goal /\ e.kind # "dir") \/ (goal /\ ftype \notin {"any", e.kind})
     THEN [w EXCEPT !.res = "ENOENT", !.up = w.at]
     ELSE [w EXCEPT !.at = e.ino, !.up = w.at, !.kind = e.kind]

\* A name that is not there is made when the call creates, a directory on the
\* way or the goal.
Add(w, n, goal, ftype) ==
  IF NewInode(w.node) = {} THEN [w EXCEPT !.res = "ENOSPC"]
  ELSE LET c == Min(NewInode(w.node))
           s == [w.node EXCEPT ![c].kind = IF goal THEN ftype ELSE "dir"]
           l == LinkIn(s, w.at, c, n, goal, FALSE)
       IN IF l.res = "EOK" THEN Enter([w EXCEPT !.node = l.node], n, goal, ftype)
          ELSE [w EXCEPT !.node = FreeInode(l.node, c), !.res = l.res]

Turn(w, n, goal, ftype, create) ==
  IF w.res # "EOK" THEN w
  ELSE IF n = "" THEN [w EXCEPT !.res = IF goal /\ ftype \in {"dir", "any"} THEN "EOK" ELSE "ENOENT"]
  ELSE IF Find(w.node, w.at, n) # 0 THEN Enter(w, n, goal, ftype)
  ELSE IF create THEN Add(w, n, goal, ftype)
  ELSE [w EXCEPT !.res = "ENOENT"]

\* ext4_generic_open2
Open(s, path, ftype, create) ==
  LET w[k \in 0 .. Len(path)] ==
        IF k = 0 THEN Start(s) ELSE Turn(w[k - 1], path[k], k = Len(path), ftype, create)
  IN w[Len(path)]

\* An abort: the state at the start of the transaction, if there was one.
Ended(s, r) == Fail(IF r.res # "EOK" /\ journaled THEN s ELSE r.node, r.res)

\* ext4_fopen with "w" or "a", ext4_mknod, ext4_fsymlink
Made(s, path, kind) == Ended(s, Open(s, path, kind, TRUE))

\* ext4_dir_mk
MadeDir(s, path) ==
  IF Open(s, path, "dir", FALSE).res = "EOK" THEN Done(s) ELSE Made(s, path, "dir")

\* ext4_create_hardlink of inode c: the way there must be, the goal must not.
HardLinked(s, path, c, rename) ==
  LET InDir(w, n) ==
        IF w.res # "EOK" THEN Fail(s, "ENOENT")
        ELSE IF n = "" THEN Fail(s, "EINVAL")
        ELSE IF Find(s, w.at, n) # 0 THEN Fail(s, "EEXIST")
        ELSE LinkIn(s, w.at, c, n, TRUE, rename)
  IN InDir(IF Len(path) = 1 THEN Start(s) ELSE Open(s, Front(path), "dir", FALSE), Last(path))

(* What calls do with the walk w to the inode they are about; n, its name. *)

\* ext4_flink
Linked(s, w, to) ==
  IF w.res # "EOK" THEN Fail(s, w.res)
  ELSE IF s[w.at].kind = "dir" THEN Fail(s, "EINVAL")
  ELSE Ended(s, HardLinked(s, to, w.at, FALSE))

\* mutant: the directory it was in keeps the link of its ".."
OrigRemovedOnly(s, p, c, n) == Done(RemoveEntry(s, p, n))

\* ext4_remove_orig_reference
OrigRemoved(s, p, c, n) ==
  LET a == RemoveEntry(s, p, n) IN Done(IF s[c].kind = "dir" THEN CountDown(a, p) ELSE a)

\* ext4_frename, ext4_dir_mv
Renamed(s, w, n, to) ==
  LET Moved(l) == IF l.res # "EOK" THEN Ended(s, l) ELSE OrigRemoved(l.node, w.up, w.at, n)
  IN IF w.res # "EOK" THEN Fail(s, w.res) ELSE Moved(HardLinked(s, to, w.at, TRUE))

\* What unlinking inode i left, and without the inode when it has that many links.
Freed(u, i, links) ==
  IF u.res = "EOK" /\ u.node[i].links \in links THEN Done(FreeInode(u.node, i)) ELSE u

\* mutant: the inode is freed when one name is left
RemovedTooSoon(s, w, n) ==
  IF w.res # "EOK" THEN Fail(s, w.res)
  ELSE IF s[w.at].kind = "dir" THEN Done(s)
  ELSE Freed(Unlink(s, w.up, w.at, n), w.at, {0, 1})

\* ext4_fremove; of a directory it returns EOK and removes nothing
Removed(s, w, n) ==
  IF w.res # "EOK" THEN Fail(s, w.res)
  ELSE IF s[w.at].kind = "dir" THEN Done(s)
  ELSE Freed(Unlink(s, w.up, w.at, n), w.at, {0})

(***************************************************************************)
(* ext4_dir_rm: down into each directory that has children, back up by its  *)
(* "..", unlinking what has none. One turn handles one entry.               *)
(***************************************************************************)

Descent(s, w) ==
  [node |-> s, at |-> w.at, up |-> w.up, slot |-> 1, depth |-> 1, res |-> "EOK"]

\* Out of entries: the directory above, from its first entry on.
Climb(d) ==
  [d EXCEPT !.depth = @ - 1, !.slot = 1, !.at = IF d.depth = 1 THEN d.at ELSE d.up]

\* mutant: the way up is the directory it came down from
UpFromWhereItCame(d, e) == d.up

\* ".." tells the way up.
UpFrom(d, e) == IF e.name = ".." THEN e.ino ELSE d.up

RmEntry(d) ==
  LET ent == d.node[d.at].ent
      e == ent[d.slot]
      next == NextSlot(ent, d.slot)
      u == Unlink(d.node, d.at, e.ino, e.name)
  IN IF e.name \in Dots
     THEN [d EXCEPT !.up = UpFrom(d, e), !.slot = next]
     ELSE IF HasChildren(d.node, e.ino)
     THEN [d EXCEPT !.up = d.at, !.at = e.ino, !.depth = @ + 1, !.slot = 1]
     ELSE [d EXCEPT !.node = FreeInode(u.node, e.ino), !.slot = next]

RmTurn(d) ==
  IF d.depth = 0 THEN d ELSE IF d.slot = End THEN Climb(d) ELSE RmEntry(d)

\* More turns than a tree of this size takes.
Turns == 4 * Slots * (Cardinality(Ids) + 1)

Emptied(s, w) ==
  LET d[k \in 0 .. Turns] == IF k = 0 THEN Descent(s, w) ELSE RmTurn(d[k - 1])
  IN d[Turns]

RemovedDir(s, w, n) ==
  LET Top(d) == Freed(Unlink(d.node, d.up, d.at, n), d.at, {2})
  IN IF w.res # "EOK" THEN Fail(s, w.res) ELSE Top(Emptied(s, w))

----------------------------------------------------------------------------
(* Not in the code: the tree of names, and what callers stay clear of *)

Step(s, d, n) == IF d = Free THEN Free ELSE InoOf(s, d, n)
InoAt(s, p) ==
  LET at[k \in 0 .. Len(p)] == IF k = 0 THEN Root ELSE Step(s, at[k - 1], p[k])
  IN at[Len(p)]

Paths == UNION {[1 .. k -> Names] : k \in 1 .. Cardinality(Ids)}

TreeOf(s) ==
  LET ino == [p \in Paths |-> InoAt(s, p)]
  IN [p \in {q \in Paths : ino[q] # Free} |-> [ino |-> ino[p], kind |-> s[ino[p]].kind]]

\* A path without dots and slashes at the end.
Plain(path) ==
  FoldLeft(LAMBDA p, n : CASE n \in {"", "."} -> p
                           [] n = ".." -> (IF p = <<>> THEN p ELSE Front(p))
                           [] OTHER -> Append(p, n), <<>>, path)

Below(m, p) == {q \in DOMAIN m : IsStrictPrefix(p, q)}

\* The code checks none of this. Unjournaled, a directory on the way that gets
\* no block leaves its entry behind; a file below a removed directory is freed
\* whatever other names it has; a directory is moved below itself; the handle of
\* a directory that was removed is read.
Within(op, path, to, s) ==
  LET p == Plain(path)
  IN Careful =>
       CASE op \in {"make", "mkdir"} ->
              journaled \/ Len(path) = 1 \/ UsedBlocks(node) + 2 * Len(path) <= Blocks
         [] op = "rename" -> ~IsPrefix(p, Plain(to))
         [] op = "rmdir" -> /\ \A q \in Below(names, p) : names[q].kind = "dir"
                                 \/ node[names[q].ino].links = 1
                            /\ list.ino # Free => s[list.ino].kind = "dir"
         [] OTHER -> TRUE

----------------------------------------------------------------------------

\* The root with its own two entries: what mkfs leaves, lost+found left out.
Formatted ==
  LET dots == <<Entry(".", Root, "dir"), Entry("..", Root, "dir")>>
  IN [i \in Ids \cup {Root} |->
        IF i = Root THEN [kind |-> "dir", links |-> 2, ent |-> BlockOf(dots)]
        ELSE Unused]

Init ==
  /\ node = Formatted /\ journaled \in BOOLEAN
  /\ list = [ino |-> Free, at |-> End] /\ stays = {} /\ given = <<>>
  /\ names = <<>> /\ steps = 0
  /\ last = [op |-> "mount", path |-> <<>>, to |-> <<>>, res |-> "EOK"]

NamesIn(s, d) == {e.name : e \in {x \in Range(s[d].ent) : x.ino # Free /\ x.name \notin Dots}}

\* A call; one that fails and changes nothing takes no step.
Call(op, path, to, r) ==
  /\ ~(r.res # "EOK" /\ r.node = node)
  /\ steps < MaxSteps /\ steps' = steps + 1
  /\ Within(op, path, to, r.node)
  /\ node' = r.node
  /\ names' = TreeOf(r.node)
  /\ stays' = IF list.ino = Free THEN {} ELSE stays \cap NamesIn(r.node, list.ino)
  /\ last' = [op |-> op, path |-> path, to |-> to, res |-> r.res]
  /\ UNCHANGED <<journaled, list, given>>

Make(path, kind) == Call("make", path, <<>>, Made(node, path, kind))
MakeDir(path) == Call("mkdir", path, <<>>, MadeDir(node, path))
Link(path, to) ==
  Call("link", path, to, Linked(node, Open(node, path, "any", FALSE), to))
Rename(path, to) ==
  Call("rename", path, to, Renamed(node, Open(node, path, "any", FALSE), Last(path), to))
RemoveFile(path) ==
  Call("remove", path, <<>>, Removed(node, Open(node, path, "any", FALSE), Last(path)))
RemoveDir(path) ==
  Call("rmdir", path, <<>>, RemovedDir(node, Open(node, path, "dir", FALSE), Last(path)))

\* ext4_dir_open
OpenList(path) ==
  \E w \in {Open(node, path, "dir", FALSE)} :
     /\ steps < MaxSteps /\ steps' = steps + 1
     /\ w.res = "EOK"
     /\ list' = [ino |-> w.at, at |-> 1]
     /\ stays' = NamesIn(node, w.at) /\ given' = <<>>
     /\ last' = [op |-> "list", path |-> path, to |-> <<>>, res |-> "EOK"]
     /\ UNCHANGED <<node, journaled, names>>

\* ext4_dir_entry_next: the entry at the slot, in use or not, and on to the next
\* one in use.
NextEntry ==
  LET e == node[list.ino].ent[list.at]
  IN /\ list.at # End
     /\ given' = IF e.name \in Names THEN Append(given, e.name) ELSE given
     /\ list' = [list EXCEPT !.at = NextSlot(node[list.ino].ent, list.at)]
     /\ UNCHANGED <<node, journaled, stays, names, last, steps>>

Next ==
  \/ \E p \in Makes : MakeDir(p) \/ Make(p, "file")
  \/ \E p \in Sources, q \in Targets : Link(p, q) \/ Rename(p, q)
  \/ \E p \in Sources : RemoveFile(p) \/ RemoveDir(p)
  \/ \E p \in Sources \cup {<<"">>} : OpenList(p)
  \/ NextEntry

Spec == Init /\ [][Next]_vars

Tree == INSTANCE NameTree WITH tree <- names
KeepsTree == Tree!Spec
=============================================================================
