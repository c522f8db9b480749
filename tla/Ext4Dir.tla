------------------------------ MODULE Ext4Dir ------------------------------
(***************************************************************************)
(* One directory on disk: the entries of its blocks (ext4_dir.c) and the    *)
(* index over them (ext4_dir_idx.c), a root in block 0 and at most one      *)
(* level of nodes below it.                                                 *)
(*                                                                          *)
(* The directory is a sequence of blocks; block b of the code is b + 1      *)
(* here. An entry is [ino, name, len]; ino 0 is an entry not in use, and    *)
(* len, its rec_len, reaches to the next one. Lengths are in units.         *)
(***************************************************************************)
EXTENDS Integers, FiniteSets, SequencesExt

CONSTANTS
  Names,      \* the names callers use, numbers from 1
  RootMax,    \* entries the root has room for, the first without a hash
  NodeMax,    \* and a node
  Setups      \* [index, room, hash, goes, size, need]: EXT4_INODE_FLAG_INDEX, the
              \* blocks the directory may have, the hash of each name, an even number,
              \* the names that are taken out, the units of a block, and those an
              \* entry of each name takes

ASSUME DirAssumption ==
  /\ Names \subseteq Nat \ {0}
  /\ \A s \in Setups, n \in Names : s.hash[n] % 2 = 0 /\ 2 * s.need[n] \in 2 .. s.size
  /\ RootMax \in Nat \ {0, 1} /\ NodeMax \in Nat /\ NodeMax > RootMax

VARIABLES
  setup,  \* a member of Setups, fixed
  dir,    \* [index, b]: the flag, the blocks
  held,   \* not in the code: the names that were added, with their inodes
  found,  \* not in the code: what looking up each name gives
  last    \* the last call and what it returned

vars == <<setup, dir, held, found, last>>

\* Blocks and their entries. Checksums are written with them, and one that does
\* not match is logged and no more.
Entry(ino, name, len) == [ino |-> ino, name |-> name, len |-> len]
Null(len) == Entry(0, 0, len)
Leaf(e) == [kind |-> "leaf", e |-> e]
Node(e) == [kind |-> "node", e |-> e]
Root(e, levels) == [kind |-> "root", e |-> e, levels |-> levels]
To(h, b) == [h |-> h, b |-> b]     \* an entry of the index; h of the first is not used

Dot == -1
DotDot == -2
Units(e) == IF e.name \in {Dot, DotDot} THEN 1 ELSE setup.need[e.name]

\* A block as the linear search sees it: the root is the two dots, a node an
\* entry not in use (ext4_dir_idx.c lays them out so).
Linear(blk) ==
  CASE blk.kind = "leaf" -> blk.e
    [] blk.kind = "node" -> <<Null(setup.size)>>
    [] OTHER -> <<Entry(2, Dot, 1), Entry(2, DotDot, setup.size - 1)>>

----------------------------------------------------------------------------
(* Entries of a block (ext4_dir.c) *)

\* An entry whose space has room for n: one not in use, or one with space behind it.
RoomFor(e, n) == IF e.ino = 0 THEN e.len >= setup.need[n] ELSE e.len - Units(e) >= setup.need[n]

\* ext4_dir_try_insert_entry, in the first entry with room; the same block when
\* there is none (ENOSPC).
Insert(e, n, ino) ==
  LET i == SelectInSeq(e, LAMBDA x : RoomFor(x, n))
  IN IF i = 0 THEN e
     ELSE IF e[i].ino = 0 THEN [e EXCEPT ![i] = Entry(ino, n, e[i].len)]
     ELSE SubSeq(e, 1, i - 1)
          \o <<[e[i] EXCEPT !.len = Units(e[i])], Entry(ino, n, e[i].len - Units(e[i]))>>
          \o SubSeq(e, i + 1, Len(e))

\* ext4_dir_find_in_block; 0: ENOENT
FindIn(e, n) == SelectInSeq(e, LAMBDA x : x.ino # 0 /\ x.name = n)

\* mutant: the entry before it does not get the space of an entry taken out
TakeOutOnly(e, i) ==
  IF i = 1 THEN [e EXCEPT ![1].ino = 0] ELSE SubSeq(e, 1, i - 1) \o SubSeq(e, i + 1, Len(e))

\* ext4_dir_remove_entry, of entry i of a block: the first is marked, another is
\* space of the one before it.
TakeOut(e, i) ==
  IF i = 1 THEN [e EXCEPT ![1].ino = 0]
  ELSE SubSeq(e, 1, i - 2) \o <<[e[i - 1] EXCEPT !.len = @ + e[i].len]>> \o SubSeq(e, i + 1, Len(e))

----------------------------------------------------------------------------
(* The index (ext4_dir_idx.c) *)

\* The entry of an index block that covers hash h: the last that is not above it.
Position(e, h) == Max({1} \cup {i \in 2 .. Len(e) : e[i].h <= h})

\* ext4_dir_dx_get_leaf: the path to the leaf of h, as [block, entry] pairs.
Path(d, h) ==
  LET top == [blk |-> 1, at |-> Position(d.b[1].e, h)]
      down == d.b[1].e[top.at].b
  IN IF d.b[1].levels = 0 THEN <<top>>
     ELSE <<top, [blk |-> down, at |-> Position(d.b[down].e, h)]>>

LeafOf(d, path) == LET p == path[Len(path)] IN d.b[p.blk].e[p.at].b

\* ext4_dir_dx_next_block: the path to the next leaf when h may go on there, else <<>>.
NextPath(d, path, h) ==
  LET more(p) == p.at < Len(d.b[p.blk].e)
      step(p) == [p EXCEPT !.at = @ + 1]
      goes(p) == h % 2 # 0 \/ d.b[p.blk].e[p.at].h \div 2 = h \div 2
      deep == Len(path) = 2
      p == step(path[1])
  IN IF more(path[Len(path)])
     THEN LET q == step(path[Len(path)]) IN IF goes(q) THEN [path EXCEPT ![Len(path)] = q] ELSE <<>>
     ELSE IF deep /\ more(path[1]) /\ goes(p)
     THEN <<p, [blk |-> d.b[1].e[p.at].b, at |-> 1]>>
     ELSE <<>>

\* mutant: only the leaf of the hash is searched
SearchOneLeaf(d, n) ==
  LET leaf == LeafOf(d, Path(d, setup.hash[n]))
      i == FindIn(Linear(d.b[leaf]), n)
  IN IF i = 0 THEN <<0, 0>> ELSE <<leaf, i>>

\* ext4_dir_dx_find_entry: <<block, entry>>, or <<0, 0>>
Search(d, n) ==
  LET h == setup.hash[n]
      try[k \in 0 .. Len(d.b)] ==     \* the paths tried, at most one for each leaf
        IF k = 0 THEN Path(d, h)
        ELSE LET p == try[k - 1]
             IN IF p = <<>> \/ FindIn(Linear(d.b[LeafOf(d, p)]), n) # 0 THEN p ELSE NextPath(d, p, h)
      p == try[Len(d.b)]
      leaf == IF p = <<>> THEN 0 ELSE LeafOf(d, p)
  IN IF leaf = 0 THEN <<0, 0>> ELSE <<leaf, FindIn(Linear(d.b[leaf]), n)>>

\* ext4_dir_find_entry
Find(d, n) ==
  LET k == SelectInSeq(d.b, LAMBDA blk : FindIn(Linear(blk), n) # 0)
  IN IF d.index THEN Search(d, n)
     ELSE IF k = 0 THEN <<0, 0>> ELSE <<k, FindIn(Linear(d.b[k]), n)>>

InodeAt(d, at) == IF at[1] = 0 THEN 0 ELSE Linear(d.b[at[1]])[at[2]].ino

\* mutant: before position `at`
IndexInsertBefore(e, at, h, b) == SubSeq(e, 1, at - 1) \o <<To(h, b)>> \o SubSeq(e, at, Len(e))

\* ext4_dir_dx_insert_entry, after position `at`
IndexInsert(e, at, h, b) == SubSeq(e, 1, at) \o <<To(h, b)>> \o SubSeq(e, at + 1, Len(e))

\* ext4_dir_dx_split_index: the index block of the path gets room for an entry,
\* by moving the entries of the root to a new node or half of a node to one.
\* <<directory, path, error>>
SplitIndex(d, path) ==
  LET deep == Len(path) = 2
      p == path[Len(path)]
      e == d.b[p.blk].e
      new == Len(d.b) + 1
      left == Len(e) \div 2
      right == SubSeq(e, left + 1, Len(e))
      moved == [d EXCEPT !.b = [@ EXCEPT ![1] = Root(<<To(0, new)>>, 1)] \o <<Node(e)>>]
      halved == [d EXCEPT !.b = [@ EXCEPT ![p.blk].e = SubSeq(e, 1, left),
                                          ![1].e = IndexInsert(@, path[1].at, e[left + 1].h, new)]
                                \o <<Node(right)>>]
  IN IF Len(e) < (IF deep THEN NodeMax ELSE RootMax) THEN <<d, path, "EOK">>
     ELSE IF deep /\ Len(d.b[1].e) = RootMax THEN <<d, path, "ENOSPC">>
     ELSE IF Len(d.b) >= setup.room THEN <<d, path, "ENOSPC">>
     ELSE IF deep
     THEN <<halved, <<path[1], IF p.at > left THEN [blk |-> new, at |-> p.at - left] ELSE p>>, "EOK">>
     ELSE <<moved, <<path[1], [blk |-> new, at |-> p.at]>>, "EOK">>

\* Entries one after the other, the last to the end of the block.
Packed(s) ==
  LET used[i \in 0 .. Len(s)] == IF i = 0 THEN 0 ELSE used[i - 1] + Units(s[i])
  IN [i \in DOMAIN s |-> [s[i] EXCEPT !.len = IF i < Len(s) THEN Units(s[i]) ELSE setup.size - used[i - 1]]]

\* The first entry, in the order of hashes, that does not go into half a block;
\* 0 when all of them do and the code leaves mid at 0. The first one always goes in.
Middle(s) ==
  LET used[i \in 0 .. Len(s)] == IF i = 0 THEN 0 ELSE used[i - 1] + Units(s[i])
      over == {i \in DOMAIN s : 2 * used[i] > setup.size}
  IN IF over = {} THEN 0 ELSE Min(over)

\* continued: the hash of the upper half is also that of an entry left below.
Continued(s, mid) == IF setup.hash[s[mid].name] = setup.hash[s[mid - 1].name] THEN 1 ELSE 0

\* ext4_dir_dx_split_data: the entries of the leaf by hash, the upper half to a
\* new leaf, after the leaf in the index. The order of equal hashes is qsort's. When
\* all of them go into half a block, the old leaf stays as it is, the new one gets
\* them all, and the code compares new_hash, 0, with sort[mid - 1], which for a mid
\* of 0 is before the array or, with pointers of 64 bits, 2^32 - 1 entries behind its
\* start. The process ends there, which is no step here, or goes on with either
\* outcome, which is more.
SplitData(d, path, leaf, more) ==
  LET p == path[Len(path)]
      inUse == SelectSeq(d.b[leaf].e, LAMBDA x : x.ino # 0)
      s == SortSeq(inUse, LAMBDA x, y : setup.hash[x.name] < setup.hash[y.name])
      mid == Middle(s)
      new == Len(d.b) + 1
      hash == IF mid = 0 THEN more ELSE setup.hash[s[mid].name] + Continued(s, mid)
      lower == IF mid = 0 THEN d.b[leaf].e ELSE Packed(SubSeq(s, 1, mid - 1))
      upper == Packed(IF mid = 0 THEN s ELSE SubSeq(s, mid, Len(s)))
  IN [d EXCEPT !.b = [@ EXCEPT ![leaf] = Leaf(lower),
                               ![p.blk].e = IndexInsert(@, p.at, hash, new)]
                     \o <<Leaf(upper)>>]

----------------------------------------------------------------------------
(* The calls *)

\* ext4_dir_dx_init, or the first block of ext4_link
NewDir ==
  IF setup.index THEN [index |-> TRUE, b |-> <<Root(<<To(0, 2)>>, 0), Leaf(<<Null(setup.size)>>)>>]
  ELSE [index |-> FALSE, b |-> <<Leaf(<<Entry(2, Dot, 1), Entry(2, DotDot, setup.size - 1)>>)>>]

\* ext4_dir_dx_add_entry: <<directory, error>>. What the second attempt to insert
\* says is not looked at. When the index cannot be split the code releases
\* target_block, which it has not set; here that does nothing.
AddIndexed(d, n, ino, more) ==
  LET path == Path(d, setup.hash[n])
      leaf == LeafOf(d, path)
      i == SplitIndex(d, path)
      e == i[1].b[leaf].e
      s == SplitData(i[1], i[2], leaf, more)
      p == i[2][Len(i[2])]
      where == IF setup.hash[n] >= s.b[p.blk].e[p.at + 1].h THEN Len(s.b) ELSE leaf
  IN IF i[3] # "EOK" THEN <<d, i[3]>>
     ELSE IF Insert(e, n, ino) # e THEN <<[i[1] EXCEPT !.b[leaf].e = Insert(e, n, ino)], "EOK">>
     ELSE IF Len(i[1].b) >= setup.room THEN <<i[1], "ENOSPC">>
     ELSE <<[s EXCEPT !.b[where].e = Insert(@, n, ino)], "EOK">>

\* ext4_dir_add_entry without an index: the first block with room, or a new one
AddLinear(d, n, ino) ==
  LET k == SelectInSeq(d.b, LAMBDA blk : Insert(Linear(blk), n, ino) # Linear(blk))
  IN IF k # 0 THEN <<[d EXCEPT !.b[k] = Leaf(Insert(Linear(d.b[k]), n, ino))], "EOK">>
     ELSE IF Len(d.b) >= setup.room THEN <<d, "ENOSPC">>
     ELSE <<[d EXCEPT !.b = @ \o <<Leaf(<<Entry(ino, n, setup.size)>>)>>], "EOK">>

Become(d) == /\ dir' = d /\ found' = [n \in Names |-> InodeAt(d, Find(d, n))] /\ UNCHANGED setup
Return(op, n, err) == last' = [op |-> op, n |-> n, err |-> err]

\* The callers look a name up before they add it. Names are added in their order,
\* but for those that are taken out (bound of the model).
AddEntry(n, ino) ==
  /\ found[n] = 0
  /\ \A m \in 1 .. n - 1 : m \in setup.goes \/ held[m] # 0
  /\ \E more \in {0, 1} :
       LET a == IF dir.index THEN AddIndexed(dir, n, ino, more) ELSE AddLinear(dir, n, ino)
       IN /\ Become(a[1]) /\ Return("add", n, a[2])
          /\ held' = IF a[2] = "EOK" THEN [held EXCEPT ![n] = ino] ELSE held

RemoveEntry(n) ==
  LET at == Find(dir, n)
  IN /\ n \in setup.goes
     /\ IF at[1] = 0 THEN Become(dir) /\ Return("remove", n, "ENOENT") /\ UNCHANGED held
        ELSE /\ Become([dir EXCEPT !.b[at[1]] = Leaf(TakeOut(Linear(@), at[2]))])
             /\ Return("remove", n, "EOK") /\ held' = [held EXCEPT ![n] = 0]

\* The root of the index is found damaged (EXT4_ERR_BAD_DX_DIR) by a call that
\* then goes on without the index.
Forget ==
  /\ dir.index /\ Become([dir EXCEPT !.index = FALSE]) /\ Return("forget", 0, "EOK")
  /\ UNCHANGED held

Init ==
  /\ setup \in Setups
  /\ dir = NewDir
  /\ held = [n \in Names |-> 0] /\ found = held
  /\ last = [op |-> "init", n |-> 0, err |-> "EOK"]

Next ==
  \/ \E n \in Names : AddEntry(n, 10) \/ RemoveEntry(n)
  \/ Forget

Spec == Init /\ [][Next]_vars
=============================================================================
