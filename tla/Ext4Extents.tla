---------------------------- MODULE Ext4Extents ----------------------------
(***************************************************************************)
(* The extent tree of one inode (ext4_extent.c): the root in the inode, the *)
(* other nodes in blocks of the device, and the two calls ext4_fs.c makes,  *)
(* ext4_extent_get_blocks and ext4_extent_remove_space.                     *)
(*                                                                          *)
(* A tree is a record of its root, its nodes by block, and the blocks in    *)
(* use. Numbers keep the shape they have on disk: the count of an extent    *)
(* above InitMax says that it is unwritten.                                 *)
(***************************************************************************)
EXTENDS Integers, FiniteSets, SequencesExt

CONSTANTS
  Logical,          \* 0 .. the last logical block of the file
  Device,           \* 1 .. the last block of the device
  RootMax, NodeMax, \* entries in the inode and in a block (4 and 84 or more)
  InitMax,          \* EXT_INIT_MAX_LEN, 2^15
  Forever,          \* EXT_MAX_BLOCKS: past every logical block
  Setups            \* [extents, taken, size, ends, sparse, joins]: the extents the file
                    \* has when it is opened, the blocks other files have, how many
                    \* blocks may be written, the ends of ranges given back
                    \* (ext4_fs.c gives Forever), whether holes are written to, and
                    \* whether blocks are where they part an unwritten extent in
                    \* three or are joined to one

ASSUME ExtentsAssumption ==
  /\ Logical = 0 .. Forever - 1 /\ Device = 1 .. Cardinality(Device)
  /\ RootMax \in Nat \ {0} /\ NodeMax > RootMax /\ InitMax \in Nat \ {0, 1}

VARIABLES
  t,      \* the tree: [root, node, used]
  setup,  \* a member of Setups, fixed
  map,    \* not in the code: what the tree maps, hole by hole
  last    \* the last call and what it returned

vars == <<t, map, setup, last>>

NoBlock == 0                  \* no block, as the lb_id of the root
Hole == [p |-> 0, written |-> FALSE]

----------------------------------------------------------------------------
(* Extents and nodes *)

U16(n) == n % (2 * InitMax)
U32(n) == n % (Forever + 1)

Len16(x) == IF x.n <= InitMax THEN x.n ELSE x.n - InitMax
Unwritten(x) == x.n > InitMax
MarkUnwritten(n) == IF n >= InitMax THEN n ELSE n + InitMax    \* n |= EXT_INIT_MAX_LEN
Flag(n, unwritten) == IF unwritten THEN MarkUnwritten(n) ELSE n
Covers(x, b) == b >= x.b /\ b <= x.b + Len16(x) - 1

Extent(b, n, p) == [b |-> b, n |-> n, p |-> p]
Index(b, p) == [b |-> b, n |-> 0, p |-> p]

MaxEntries(tr, depth) == IF depth = tr.root.depth THEN RootMax ELSE NodeMax

InitHeader(tr, depth, entries) ==
  [depth |-> depth, max |-> MaxEntries(tr, depth), e |-> entries]

TreeInit(taken) ==
  [root |-> [depth |-> 0, max |-> RootMax, e |-> <<>>], node |-> <<>>, used |-> taken]

Node(tr, a) == IF a = NoBlock THEN tr.root ELSE tr.node[a]

\* ext4_ext_dirty: the node is in the inode or in the buffer of its block.
SetNode(tr, a, n) ==
  IF a = NoBlock THEN [tr EXCEPT !.root = n] ELSE [tr EXCEPT !.node[a] = n]

SetEntry(tr, a, ix, x) == SetNode(tr, a, [Node(tr, a) EXCEPT !.e[ix] = x])
SetKey(tr, a, ix, b) == SetEntry(tr, a, ix, [Node(tr, a).e[ix] EXCEPT !.b = b])

Full(tr, a) == Len(Node(tr, a).e) >= Node(tr, a).max

----------------------------------------------------------------------------
(* Blocks of the device *)

\* The goal, or the first free block after it, or the first of all. A goal
\* below the device wraps to a block group that does not exist: ENXIO.
AllocBlock(tr, goal) ==
  LET free == Device \ tr.used
      after == {p \in free : p >= goal}
      p == CASE goal < 0 \/ free = {} -> NoBlock
             [] goal >= 0 /\ after # {} -> Min(after)
             [] OTHER -> Min(free)
  IN [p |-> p, t |-> [tr EXCEPT !.used = @ \cup ({p} \ {NoBlock})]]

FreeBlocks(tr, p, n) == [tr EXCEPT !.used = @ \ (p .. p + n - 1)]

PutNode(tr, a, n) == [tr EXCEPT !.node = (a :> n) @@ @]
\* mutant: a node that goes keeps its block
ForgetNode(tr, a) == [tr EXCEPT !.node = [x \in DOMAIN tr.node \ {a} |-> tr.node[x]]]
FreeNode(tr, a) ==
  [FreeBlocks(tr, a, 1) EXCEPT !.node = [x \in DOMAIN tr.node \ {a} |-> tr.node[x]]]

----------------------------------------------------------------------------
(* Finding *)

\* Binary search: the last entry that starts at the block or before, else the first.
Closest(e, b) == Max({1} \cup {k \in DOMAIN e : e[k].b <= b})

\* The header of a block read as a node (ext4_ext_check).
NodeAt(tr, a, depth) == a \in DOMAIN tr.node /\ tr.node[a].depth = depth

\* A path: one step per level from the root down, with the node and the
\* position in it, 0 where the leaf is empty. <<>> when a node cannot be read.
FindExtent(tr, b) ==
  LET step(a) == LET e == Node(tr, a).e
                 IN [at |-> a, ix |-> IF e = <<>> THEN 0 ELSE Closest(e, b)]
      down[d \in 0 .. tr.root.depth] ==
        IF d = 0 THEN <<step(NoBlock)>>
        ELSE LET up == down[d - 1]
                 a == Node(tr, up[d].at).e[up[d].ix].p
             IN IF up # <<>> /\ NodeAt(tr, a, tr.root.depth - d) THEN Append(up, step(a))
                ELSE <<>>
  IN down[tr.root.depth]

Leaf(tr, path) == Node(tr, Last(path).at)
Found(tr, path) == Leaf(tr, path).e[Last(path).ix]

\* Predict the place from the extent that was found.
FindGoal(tr, path, b) ==
  CASE Last(path).ix # 0 -> Found(tr, path).p + (b - Found(tr, path).b)
    [] Last(path).ix = 0 -> Last(path).at

----------------------------------------------------------------------------
(* Inserting *)

\* mutant: only the key right above is corrected
CorrectLeafKey(tr, path) ==
  LET d == Len(path)
  IN IF d = 1 \/ Last(path).ix # 1 THEN tr
     ELSE SetKey(tr, path[d - 1].at, path[d - 1].ix, Found(tr, path).b)

\* The first entry of a leaf has changed: so do the keys above it, as long
\* as they are first in their node.
CorrectIndexes(tr, path) ==
  LET d == Len(path)
      border == Found(tr, path).b
      fixes(k) == /\ k < d /\ Last(path).ix = 1
                  /\ \A j \in k + 1 .. d - 1 : path[j].ix = 1
      fix(acc, k) == IF fixes(k) THEN SetKey(acc, path[k].at, path[k].ix, border) ELSE acc
  IN FoldLeft(fix, tr, Reverse([k \in 1 .. d |-> k]))

LongFits(x, y) == Len16(x) + Len16(y) <= 2 * InitMax - 1      \* mutant: whatever 16 bits hold

LenFits(x, y) ==
  Len16(x) + Len16(y) <= IF Unwritten(x) THEN InitMax - 1 ELSE InitMax

CanAppend(x, y) ==
  x.p + Len16(x) = y.p /\ LenFits(x, y) /\ x.b + Len16(x) = y.b

CanPrepend(x, y) ==
  y.p + Len16(y) = x.p /\ LenFits(x, y) /\ y.b + Len16(y) = x.b

\* The physical start stays that of x, also when y goes before it.
Combined(x, y) ==
  [x EXCEPT !.b = Min({x.b, y.b}), !.n = Flag(Len16(x) + Len16(y), Unwritten(x))]

\* An extent enters a leaf: joined to the one found, or beside it.
InsertLeaf(tr, path, new, combine) ==
  LET s == Last(path)
      n == Node(tr, s.at)
      cur == n.e[s.ix]
      result(tree, p, err, full) == [t |-> tree, path |-> p, err |-> err, full |-> full]
      at == CASE s.ix = 0 -> 1
              [] s.ix # 0 /\ new.b > cur.b -> s.ix + 1
              [] OTHER -> s.ix
      there == [path EXCEPT ![Len(path)].ix = at]
  IN CASE s.ix # 0 /\ new.b = cur.b -> result(tr, path, "EIO", FALSE)
       [] s.ix # 0 /\ new.b # cur.b /\ combine /\ CanAppend(cur, new) ->
            result(SetEntry(tr, s.at, s.ix, Combined(cur, new)), path, "EOK", FALSE)
       [] s.ix # 0 /\ new.b # cur.b /\ combine /\ CanPrepend(cur, new) ->
            result(SetEntry(tr, s.at, s.ix, Combined(cur, new)), path, "EOK", FALSE)
       [] Full(tr, s.at) -> result(tr, path, "EIO", TRUE)
       [] OTHER ->
            LET put == SetNode(tr, s.at, [n EXCEPT !.e = InsertAt(@, at, new)])
            IN result(CorrectIndexes(put, [path EXCEPT ![Len(path)].ix = IF s.ix = 0 THEN 1 ELSE s.ix]),
                      there, "EOK", FALSE)

\* A key enters an index node beside the one the path goes through, which
\* becomes the new one when toNew.
InsertIndex(tr, path, k, key, p, toNew) ==
  LET s == path[k]
      n == Node(tr, s.at)
      at == IF key > n.e[s.ix].b THEN s.ix + 1 ELSE s.ix
      refuse == key = n.e[s.ix].b \/ Full(tr, s.at)
  IN [err |-> IF refuse THEN "EIO" ELSE "EOK",
      t |-> IF refuse THEN tr ELSE SetNode(tr, s.at, [n EXCEPT !.e = InsertAt(@, at, Index(key, p))]),
      path |-> IF toNew /\ ~refuse THEN [path EXCEPT ![k].ix = at] ELSE path]

\* The nodes of the path from the leaf up to level k are full: each gives
\* what is after the path to a new node, and a key of the leftmost of the
\* new ones goes into the node above level k. When a block cannot be had the
\* new nodes are freed; what the old ones gave is not taken back.
SplitNode(tr, path, k, new) ==
  LET d == Len(path)
      s == Last(path)
      e == Leaf(tr, path).e
      key == IF s.ix # Leaf(tr, path).max THEN e[s.ix + 1].b ELSE new.b
      right == new.b >= key
      halved(acc, i, a) ==
        LET n == Node(tr, path[i].at)
            rest == SubSeq(n.e, path[i].ix + 1, Len(n.e))
            moved == IF i = d THEN rest ELSE <<Index(key, Head(acc.made))>> \o rest
            kept == SetNode(a.t, path[i].at, [n EXCEPT !.e = SubSeq(@, 1, path[i].ix)])
        IN IF a.p = NoBlock THEN [acc EXCEPT !.err = "ENOSPC"]
           ELSE [err |-> "EOK", made |-> <<a.p>> \o acc.made,
                 t |-> PutNode(kept, a.p, InitHeader(tr, d - i, moved))]
      split(acc, i) ==
        IF acc.err # "EOK" THEN acc
        ELSE halved(acc, i, AllocBlock(acc.t, FindGoal(tr, path, new.b)))
      follow(made, in, i) ==
        IF i < k THEN in.path[i]
        ELSE [at |-> made[i - k + 1], ix |-> IF Node(in.t, made[i - k + 1]).e = <<>> THEN 0 ELSE 1]
      keyed(done, in) ==
        IF done.err = "EOK" /\ in.err = "EOK"
        THEN [err |-> "EOK", t |-> in.t,
              path |-> IF right THEN [i \in 1 .. d |-> follow(done.made, in, i)] ELSE in.path]
        ELSE [err |-> IF done.err # "EOK" THEN done.err ELSE in.err, path |-> path,
              t |-> FoldLeft(FreeNode, done.t, done.made)]
      enter(done) ==
        keyed(done, InsertIndex(done.t, path, k - 1, key, Head(done.made), right))
  IN enter(FoldLeft(split, [t |-> tr, err |-> "EOK", made |-> <<>>],
                    [j \in 1 .. d - k + 1 |-> d + 1 - j]))

\* The root goes to a block of its own; the inode keeps one index, to it.
GrowInDepth(tr) ==
  LET above(a) ==
        IF a.p = NoBlock THEN [t |-> tr, err |-> "ENOSPC"]
        ELSE [err |-> "EOK",
              t |-> [PutNode(a.t, a.p, [tr.root EXCEPT !.max = NodeMax]) EXCEPT
                       !.root = [depth |-> @.depth + 1, max |-> RootMax,
                                 e |-> <<Index(@.e[1].b, a.p)>>]]]
  IN above(AllocBlock(tr, IF tr.root.depth > 0 THEN tr.root.e[1].p ELSE 0))

\* The lowest level of the path below which every node is full, 1 at the root;
\* 0 when all are.
RoomAt(tr, path) == Max({0} \cup {k \in DOMAIN path : ~Full(tr, path[k].at)})

\* An extent is inserted: into its leaf, or after the nodes that are full
\* have been split, the tree a level deeper when all are.
InsertExtent(tr, path, new, combine) ==
  LET stop(tree, p, err) == [t |-> tree, path |-> p, err |-> err, full |-> FALSE]
      place(split) ==
        IF split.err # "EOK" THEN stop(split.t, split.path, split.err)
        ELSE InsertLeaf(split.t, split.path, new, combine)
      splitFrom(tree, p, level) ==
        place(IF p = <<>> THEN stop(tree, p, "EIO")
              ELSE IF level > Len(p) THEN stop(tree, p, "EOK")
              ELSE SplitNode(tree, p, level, new))
      grown(g) ==
        IF g.err # "EOK" THEN stop(tr, path, g.err) ELSE splitFrom(g.t, FindExtent(g.t, new.b), 3)
      makeRoom(room) ==
        IF room = 0 THEN grown(GrowInDepth(tr)) ELSE splitFrom(tr, path, room + 1)
      unlessFull(first) == IF first.full THEN makeRoom(RoomAt(tr, path)) ELSE first
  IN unlessFull(InsertLeaf(tr, path, new, combine))

----------------------------------------------------------------------------
(* Unwritten extents *)

\* The extent of the path is cut at a block; the flags say whether the first
\* and the second part stay unwritten. When the second part finds no place
\* the length is put back, where the extent was, and the call still succeeds.
SplitExtentAt(tr, path, cut, first, second) ==
  LET s == Last(path)
      x == Found(tr, path)
      n == Len16(x)
      put == SetEntry(tr, s.at, s.ix, [x EXCEPT !.n = Flag(U16(cut - x.b), first)])
      new == Extent(cut, Flag(U16(n - (cut - x.b)), second), x.p + U32(cut - x.b))
      orPutBack(ins) ==
        IF ins.err = "EOK" THEN [t |-> ins.t, path |-> ins.path]
        ELSE [t |-> SetEntry(ins.t, s.at, s.ix, [Node(ins.t, s.at).e[s.ix] EXCEPT !.n = n]),
              path |-> path]
  IN IF cut = x.b
     THEN [t |-> SetEntry(tr, s.at, s.ix, [x EXCEPT !.n = Flag(n, second)]), path |-> path]
     ELSE orPutBack(InsertExtent(put, path, new, FALSE))

\* A block of an unwritten extent becomes written.
ConvertToInitialized(tr, path, b) ==
  LET x == Found(tr, path)
      cutOff(apart) == SplitExtentAt(apart.t, apart.path, b, TRUE, FALSE)
  IN CASE b + 1 = x.b + Len16(x) -> SplitExtentAt(tr, path, b, TRUE, FALSE)
       [] b + 1 # x.b + Len16(x) /\ x.b = b -> SplitExtentAt(tr, path, b + 1, FALSE, TRUE)
       [] OTHER -> cutOff(SplitExtentAt(tr, path, b + 1, TRUE, TRUE))

----------------------------------------------------------------------------
(* Removing *)

\* An index goes, with the block it names; keys above follow the first one.
\* An emptied node still shows the key it had.
RemoveIdx(tr, path, k) ==
  LET s == path[k]
      e == Node(tr, s.at).e
      rest == RemoveAt(e, s.ix)
      gone == FreeNode(SetNode(tr, s.at, [Node(tr, s.at) EXCEPT !.e = rest]), e[s.ix].p)
      border == IF rest = <<>> THEN e[1].b ELSE rest[1].b
      fix(acc, j) == IF \A i \in j + 1 .. k : path[i].ix = 1
                     THEN SetKey(acc, path[j].at, path[j].ix, border) ELSE acc
  IN FoldLeft(fix, gone, [j \in 1 .. k - 1 |-> k - j])

\* What is left of an extent when from .. to is given back, and the rest.
Kept(x, from, to) ==
  CASE x.b > to -> <<x>>
    [] x.b <= to /\ x.b < from -> <<[x EXCEPT !.n = Flag(from - x.b, Unwritten(x))]>>
    [] x.b >= from /\ x.b <= to /\ x.b + Len16(x) - 1 > to ->
         <<Extent(to + 1, Flag(x.b + Len16(x) - 1 - to, Unwritten(x)), x.p + to + 1 - x.b)>>
    [] OTHER -> <<>>

GivenBack(x, from, to) ==
  LET first == Max({x.b, from})
      end == Min({x.b + Len16(x) - 1, to})
  IN IF x.b > to THEN {} ELSE x.p + (first - x.b) .. x.p + (end - x.b)

\* The extents of a leaf from the one of the path on; a leaf left empty goes,
\* and the path moves on to the next.
RemoveLeaf(tr, path, from, to) ==
  LET d == Len(path)
      s == Last(path)
      e == Node(tr, s.at).e
      freed(rest) == [SetNode(tr, s.at, [Node(tr, s.at) EXCEPT !.e = rest]) EXCEPT
                        !.used = @ \ UNION {GivenBack(e[j], from, to) : j \in s.ix .. Len(e)}]
      left(tree, rest) ==
        CASE rest = <<>> /\ d > 1 -> [t |-> RemoveIdx(tree, path, d - 1), path |-> path]
          [] rest # <<>> /\ d > 1 -> [t |-> tree, path |-> [path EXCEPT ![d - 1].ix = @ + 1]]
          [] OTHER -> [t |-> tree, path |-> path]
      keyed(tree, rest) ==
        left(IF s.ix = 1 /\ rest # <<>> THEN CorrectIndexes(tree, path) ELSE tree, rest)
      keep(rest) == keyed(freed(rest), rest)
  IN keep(SubSeq(e, 1, s.ix - 1)
            \o FlattenSeq([j \in 1 .. Len(e) - s.ix + 1 |-> Kept(e[s.ix + j - 1], from, to)]))

MoreToRm(tr, s, to) ==
  LET e == Node(tr, s.at).e IN s.ix <= Len(e) /\ e[s.ix].b <= to

\* One turn of the walk, at level i of the path: a leaf is emptied, the next
\* child entered, or a node that is done left and, if it is empty, removed.
RemoveTurn(w, d, from, to) ==
  LET path == w.path
      i == w.i
      s == path[i]
      e == Node(w.t, s.at).e
      next == e[s.ix].p
      up(leaf) == [t |-> leaf.t, path |-> leaf.path, i |-> i - 1, err |-> w.err]
  IN CASE i = 0 -> w
       [] i = d -> up(RemoveLeaf(w.t, path, Max({e[1].b, from}),
                                 Min({Last(e).b + Len16(Last(e)) - 1, to})))
       [] i \in 1 .. d - 1 /\ MoreToRm(w.t, s, to) ->
            IF NodeAt(w.t, next, d - i - 1)
            THEN [w EXCEPT !.path[i + 1] = [at |-> next, ix |-> 1], !.i = i + 1]
            ELSE [w EXCEPT !.i = 0, !.err = "EIO"]
       [] OTHER ->
            IF i = 1 THEN [w EXCEPT !.i = 0]
            ELSE IF e = <<>> THEN [w EXCEPT !.t = RemoveIdx(w.t, path, i - 1), !.i = i - 1]
                 ELSE [w EXCEPT !.path[i - 1].ix = @ + 1, !.i = i - 1]

\* ext4_extent_remove_space. Nothing is removed when `from` is in a hole.
RemoveSpace(tr, from, to) ==
  LET walked(path) ==
        LET walk[n \in Nat] == IF n = 0 THEN [t |-> tr, path |-> path, i |-> Len(path), err |-> "EOK"]
                               ELSE RemoveTurn(walk[n - 1], Len(path), from, to)
        IN walk[3 * Cardinality(DOMAIN tr.node) + 3]
      emptied(end) ==
        [err |-> end.err,
         t |-> IF end.t.root.e = <<>> /\ end.err = "EOK"
               THEN [end.t EXCEPT !.root = [depth |-> 0, max |-> RootMax, e |-> <<>>]]
               ELSE end.t]
      at(path, s, x) ==
        LET left == [x EXCEPT !.n = Flag(from - x.b, Unwritten(x))]
            right == Extent(to + 1, Flag(x.b + Len16(x) - 1 - to, Unwritten(x)), x.p + to + 1 - x.b)
        IN CASE path = <<>> -> [t |-> tr, err |-> "EIO"]
             [] path # <<>> /\ (s.ix = 0 \/ ~Covers(x, from)) -> [t |-> tr, err |-> "EOK"]
             [] path # <<>> /\ s.ix # 0 /\ Covers(x, from) /\ x.b < from /\ to < x.b + Len16(x) - 1 ->
                  InsertExtent(SetEntry(tr, s.at, s.ix, left), path, right, TRUE)
             [] OTHER -> emptied(walked(path))
      along(path) == at(path, Last(path), Found(tr, path))
  IN along(FindExtent(tr, from))

----------------------------------------------------------------------------
(* The block of the device for a block of the file *)

GetBlocks(tr, b, create) ==
  LET result(tree, p, err) == [t |-> tree, p |-> p, err |-> err]
      mapped(p, ins) ==
        IF ins.err # "EOK" THEN result(FreeBlocks(ins.t, p, 1), NoBlock, ins.err)
        ELSE result(ins.t, p, "EOK")
      put(path, a) ==
        IF a.p = NoBlock THEN result(tr, NoBlock, "ENOSPC")
        ELSE mapped(a.p, InsertExtent(a.t, path, Extent(b, 1, a.p), TRUE))
      at(path, s, x) ==
        CASE path = <<>> -> result(tr, NoBlock, "EIO")
          [] path # <<>> /\ s.ix # 0 /\ Covers(x, b) ->
               IF ~Unwritten(x) THEN result(tr, x.p + (b - x.b), "EOK")
               ELSE IF create
                    THEN result(ConvertToInitialized(tr, path, b).t, x.p + (b - x.b), "EOK")
                    ELSE result(tr, NoBlock, "EOK")
          [] OTHER ->
               IF create THEN put(path, AllocBlock(tr, FindGoal(tr, path, b)))
               ELSE result(tr, NoBlock, "EOK")
      along(path) == at(path, Last(path), Found(tr, path))
  IN along(FindExtent(tr, b))

----------------------------------------------------------------------------
(* The calls on an open file *)

\* Where the tree has a logical block, reserved ones included.
Mapped(tr, b) ==
  LET path == FindExtent(tr, b)
      x == Found(tr, path)
  IN IF path # <<>> /\ Last(path).ix # 0 /\ Covers(x, b)
     THEN [p |-> x.p + (b - x.b), written |-> ~Unwritten(x)] ELSE Hole

MapOf(tr) == [b \in Logical |-> Mapped(tr, b)]

\* Strictly inside an unwritten extent, or a hole beside one.
Joins(tr, b) ==
  LET x == Found(tr, FindExtent(tr, b))
      reserved(c) == c \in Logical /\ map[c] # Hole /\ ~map[c].written
  IN IF map[b] = Hole THEN reserved(b - 1) \/ reserved(b + 1)
     ELSE ~map[b].written /\ x.b < b /\ b + 1 < x.b + Len16(x)

Init ==
  /\ setup \in Setups
  /\ t = LET tr == TreeInit(setup.taken)
         IN [tr EXCEPT !.root.e = setup.extents,
                       !.used = @ \cup UNION {x.p .. x.p + Len16(x) - 1 : x \in ToSet(setup.extents)}]
  /\ map = MapOf(t)
  /\ last = [call |-> "none", err |-> "EOK"]

Write(b) ==
  /\ b < setup.size
  /\ setup.sparse \/ \A c \in Logical : c < b => map[c] # Hole
  /\ setup.joins \/ ~Joins(t, b)
  /\ \E r \in {GetBlocks(t, b, TRUE)} :
       /\ t' = r.t /\ map' = MapOf(r.t)
       /\ last' = [call |-> "write", b |-> b, err |-> r.err]
  /\ UNCHANGED setup

GiveBack(from, to) ==
  \E r \in {RemoveSpace(t, from, to)} :
     /\ t' = r.t /\ map' = MapOf(r.t)
     /\ last' = [call |-> "remove", from |-> from, to |-> to, err |-> r.err]
     /\ UNCHANGED setup

Next ==
  \/ \E b \in Logical : Write(b)
  \/ \E from \in Logical, to \in setup.ends : from <= to /\ GiveBack(from, to)

Spec == Init /\ [][Next]_vars
=============================================================================
