----------------------------- MODULE Ext4Alloc -----------------------------
(***************************************************************************)
(* Allocation of blocks and i-nodes (ext4_balloc.c, ext4_ialloc.c, with     *)
(* ext4_bitmap.c, the geometry of ext4_super.c and the group references of  *)
(* ext4_fs.c, which set up a group the first time it is touched).           *)
(*                                                                          *)
(* A bitmap is the set of its bits that are set. Bytes and the window near  *)
(* the goal are Byte and Near bits wide instead of 8 and 64.                *)
(***************************************************************************)
EXTENDS Integers, FiniteSets, Functions, FiniteSetsExt

CONSTANTS
  Byte, Near,     \* bits looked at together: a byte, the window near the goal
  BitmapBits,     \* bits of a bitmap: block_size * 8
  DescPerBlock,   \* group descriptors in a block
  InodesPerBlock, \* i-nodes in a block
  Setups          \* [first, total, bpg, ipg, inodes, reserved, sparse, flex, place,
                  \* lazy, goals, across]: first_data_block, blocks_count, blocks and
                  \* i-nodes per group, inodes_count, s_reserved_gdt_blocks,
                  \* SPARSE_SUPER, FLEX_BG, where each group's bitmaps and table are,
                  \* groups not set up yet, the goals asked for, and whether a range
                  \* that is freed may lie in two groups

ASSUME AllocAssumption ==
  /\ {Byte, Near, BitmapBits, DescPerBlock, InodesPerBlock} \subseteq Nat \ {0}
  /\ Near % Byte = 0 /\ BitmapBits % Byte = 0

VARIABLES
  setup,   \* a member of Setups, fixed
  a,       \* superblock counters, descriptors and bitmaps
  held,    \* the blocks the callers hold
  inodes,  \* the i-nodes they hold: number to whether it is a directory
  last     \* the last call and its result

vars == <<setup, a, held, inodes, last>>

RoundUp(n, m) == ((n + m - 1) \div m) * m

----------------------------------------------------------------------------
(* Geometry: the operators take a member s of Setups *)

GroupCount(s) == s.total \div s.bpg + IF s.total % s.bpg # 0 THEN 1 ELSE 0
Groups(s) == 0 .. GroupCount(s) - 1

BlocksIn(s, g) == IF g < GroupCount(s) - 1 THEN s.bpg ELSE s.total - (GroupCount(s) - 1) * s.bpg
InodesIn(s, g) == IF g < GroupCount(s) - 1 THEN s.ipg ELSE s.inodes - (GroupCount(s) - 1) * s.ipg

\* Block 0 of a device whose first block is 1 counts as block 1.
FromFirst(s, p) == IF s.first # 0 /\ p # 0 THEN p - 1 ELSE p
GroupOf(s, p) == FromFirst(s, p) \div s.bpg
IndexOf(s, p) == FromFirst(s, p) % s.bpg
BlockAt(s, i, g) == s.first + g * s.bpg + i

InodeGroup(s, i) == (i - 1) \div s.ipg
InodeIndex(s, i) == (i - 1) % s.ipg
InodeAt(s, i, g) == g * s.ipg + i + 1

\* Groups with a copy of the superblock: all of them, or 0, 1 and powers of 3, 5 and 7.
Sparse(g) == g <= 1 \/ (g % 2 = 1 /\ \E b \in {3, 5, 7}, n \in 1 .. g : b ^ n = g)
SuperIn(s, g) == s.sparse => Sparse(g)

\* The blocks of descriptors behind it, without META_BG.
NumGdb(s, g) == IF SuperIn(s, g) THEN (GroupCount(s) + DescPerBlock - 1) \div DescPerBlock ELSE 0

----------------------------------------------------------------------------
(* Bitmaps *)

\* The first clear bit of from .. to - 1, byte by byte; one found before the
\* first whole byte is reported as `from`. -1 when there is none (ENOSPC).
FindClear(bits, from, to) ==
  LET whole == RoundUp(from, Byte)
      clear == {i \in from .. to - 1 : i \notin bits}
  IN CASE clear = {} -> -1
       [] \E i \in clear : i < whole -> from
       [] OTHER -> Min(clear)

\* mutant: only whole bytes are filled
EndBytes(from) == LET whole == RoundUp(from, Byte) IN {i \in whole .. BitmapBits - 1 : TRUE}

\* Past the blocks of the group a bitmap is all ones; in whole bytes after the first.
EndBits(from) ==
  LET whole == RoundUp(from, Byte)
  IN IF from >= BitmapBits THEN {}
     ELSE from .. whole - 1 \cup whole .. whole + ((BitmapBits - whole) \div Byte) * Byte - 1

----------------------------------------------------------------------------
(* Groups *)

\* The copy of the superblock and of the descriptors.
Supers(s, g) == IF SuperIn(s, g) THEN 1 + NumGdb(s, g) + s.reserved ELSE 0

\* The bitmaps and the table of a group.
Meta(s, g) ==
  LET place == s.place[g]
  IN {place.blockBitmap, place.inodeBitmap}
     \cup place.table .. place.table + s.ipg \div InodesPerBlock - 1

InitBlockBitmap(s, g) ==
  LET here == IF g = GroupCount(s) - 1 THEN s.total - s.first - s.bpg * (GroupCount(s) - 1) ELSE s.bpg
  IN 0 .. Supers(s, g) - 1 \cup EndBits(here)
     \cup {p - BlockAt(s, 0, g) : p \in {q \in Meta(s, g) : ~s.flex \/ GroupOf(s, q) = g}}

InitInodeBitmap(s) == EndBits(s.ipg)

SetUp(s, g, group) == [group EXCEPT !.blocks = InitBlockBitmap(s, g),
                                    !.inodes = InitInodeBitmap(s), !.lazy = FALSE]

\* A reference to a group sets up the bitmaps that were left for later.
GetGroup(s, x, g) == IF x.group[g].lazy THEN [x EXCEPT !.group[g] = SetUp(s, g, @)] ELSE x

\* The block of the descriptor is on the device only that far.
GroupOnDevice(s, g) == s.first + 1 + g \div DescPerBlock < s.total

----------------------------------------------------------------------------
(* Blocks *)

TakeBlock(s, x, g, i) ==
  LET group == [x.group[g] EXCEPT !.blocks = @ \cup {i}, !.free = @ - 1]
  IN [x EXCEPT !.group[g] = group, !.freeBlocks = @ - 1, !.inodeBlocks = @ + 1]

\* mutant: the bitmap is searched from the goal on, without the bits near it first
AfterGoal(s, bits, i, g) == IF i \notin bits THEN i ELSE FindClear(bits, i, BlocksIn(s, g))

\* In the group of the goal: the goal, the bits near it, those after it.
NearGoal(s, bits, i, g) ==
  LET count == BlocksIn(s, g)
      end == Min({RoundUp(i, Near), count})
      near == {j \in i + 1 .. end - 1 : j \notin bits}
  IN CASE i \notin bits -> i
       [] i \in bits /\ near # {} -> Min(near)
       [] OTHER -> FindClear(bits, i, count)

\* The groups tried after that of the goal, in order, its own again last.
Others(s, g) == [k \in 1 .. GroupCount(s) |-> (g + k) % GroupCount(s)]

\* One turn of the search, which ends at the first block: the group h, set up as
\* the search comes by.
TryGroup(s, w, h) ==
  LET y == GetGroup(s, w.x, h)
  IN IF w.at # -1 THEN w
     ELSE [x |-> y, g |-> h,
           at |-> IF y.group[h].free = 0 THEN -1
                  ELSE FindClear(y.group[h].blocks, 0, BlocksIn(s, h))]

AllocBlock(s, x, goal) ==
  LET g == GroupOf(s, goal)
      known == g \in Groups(s)
      own == IF known THEN GetGroup(s, x, g) ELSE x
      at == IF known /\ own.group[g].free # 0
            THEN NearGoal(s, own.group[g].blocks, IndexOf(s, goal), g) ELSE -1
      walk[k \in 0 .. GroupCount(s)] ==
        IF k = 0 THEN [x |-> own, at |-> -1, g |-> g]
        ELSE TryGroup(s, walk[k - 1], Others(s, g)[k])
      end == walk[GroupCount(s)]
  IN CASE ~GroupOnDevice(s, g) -> [x |-> x, p |-> 0, err |-> "ENXIO"]
       [] GroupOnDevice(s, g) /\ at # -1 ->
            [x |-> TakeBlock(s, own, g, at), p |-> BlockAt(s, at, g), err |-> "EOK"]
       [] GroupOnDevice(s, g) /\ at = -1 /\ end.at # -1 ->
            [x |-> TakeBlock(s, end.x, end.g, end.at), p |-> BlockAt(s, end.at, end.g), err |-> "EOK"]
       [] OTHER -> [x |-> end.x, p |-> 0, err |-> "ENOSPC"]

\* One given block, if it is free.
TryAllocBlock(s, x, p) ==
  LET g == GroupOf(s, p)
      y == GetGroup(s, x, g)
      free == IndexOf(s, p) \notin y.group[g].blocks
  IN [free |-> free, x |-> IF free THEN TakeBlock(s, y, g, IndexOf(s, p)) ELSE y]

\* n bits of a group are cleared.
GiveBits(s, x, g, i, n) ==
  LET y == GetGroup(s, x, g)
      group == [y.group[g] EXCEPT !.blocks = @ \ (i .. i + n - 1), !.free = @ + n]
  IN [y EXCEPT !.group[g] = group, !.freeBlocks = @ + n, !.inodeBlocks = @ - n]

FreeBlock(s, x, p) == GiveBits(s, x, GroupOf(s, p), IndexOf(s, p), 1)

\* One turn of the freeing of a range. What a group takes is reckoned by the bits
\* of its bitmap, not by its blocks.
FreeInGroup(s, w, g) ==
  LET i == IndexOf(s, w.p)
      n == Min({BitmapBits - i, w.count})
  IN [x |-> GiveBits(s, w.x, g, i, n), p |-> w.p + n, count |-> w.count - n]

\* A range, group by group.
FreeBlocks(s, x, p, count) ==
  LET from == GroupOf(s, p)
      turns == GroupOf(s, p + count - 1) - from + 1
      turn[k \in 0 .. turns] ==
        IF k = 0 THEN [x |-> x, p |-> p, count |-> count]
        ELSE FreeInGroup(s, turn[k - 1], from + k - 1)
  IN turn[turns].x

----------------------------------------------------------------------------
(* I-nodes *)

TakeInode(s, x, g, i, isDir) ==
  LET count == InodesIn(s, g)
      group == [x.group[g] EXCEPT !.inodes = @ \cup {i}, !.freeInodes = @ - 1,
                                  !.dirs = IF isDir THEN @ + 1 ELSE @,
                                  !.unused = IF i >= count - @ THEN count - (i + 1) ELSE @]
  IN [x EXCEPT !.group[g] = group, !.freeInodes = @ - 1, !.lastGroup = g]

\* The groups in the order they are tried: from the one that gave the last
\* i-node, then those before it.
InodeGroups(s, x) == [k \in 1 .. GroupCount(s) |-> (x.lastGroup + k - 1) % GroupCount(s)]

\* A group that counts free i-nodes and has no clear bit is tried again and again.
Endless == -2
ClearInode(s, group, h) ==
  LET at == FindClear(group.inodes, 0, InodesIn(s, h))
  IN IF group.freeInodes = 0 THEN -1 ELSE IF at = -1 THEN Endless ELSE at

\* One turn of the search, which ends at the first i-node.
TryInodes(s, w, h) ==
  LET y == GetGroup(s, w.x, h)
  IN IF w.at # -1 THEN w ELSE [x |-> y, g |-> h, at |-> ClearInode(s, y.group[h], h)]

AllocInode(s, x, isDir) ==
  LET walk[k \in 0 .. GroupCount(s)] ==
        IF k = 0 THEN [x |-> x, at |-> -1, g |-> 0]
        ELSE TryInodes(s, walk[k - 1], InodeGroups(s, x)[k])
      end == walk[GroupCount(s)]
  IN IF end.at \in {-1, Endless}
     THEN [x |-> end.x, i |-> 0, err |-> IF end.at = -1 THEN "ENOSPC" ELSE "never returns"]
     ELSE [x |-> TakeInode(s, end.x, end.g, end.at, isDir), i |-> InodeAt(s, end.at, end.g),
           err |-> "EOK"]

FreeInode(s, x, i, isDir) ==
  LET g == InodeGroup(s, i)
      y == GetGroup(s, x, g)
      group == [y.group[g] EXCEPT !.inodes = @ \ {InodeIndex(s, i)}, !.freeInodes = @ + 1,
                                  !.dirs = IF isDir THEN @ - 1 ELSE @]
  IN [y EXCEPT !.group[g] = group, !.freeInodes = @ + 1]

----------------------------------------------------------------------------
(* A file system as mke2fs leaves it, and the calls on it *)

\* The bits of a group that stand for blocks of the device.
Existing(s, g) == {i \in 0 .. s.bpg - 1 : BlockAt(s, i, g) < s.total}

\* The blocks of the device no file may have.
Fixed(s) ==
  0 .. s.first - 1
  \cup UNION {Meta(s, g) \cup {BlockAt(s, i, g) : i \in 0 .. Supers(s, g) - 1} : g \in Groups(s)}

\* What mke2fs makes of a device, without META_BG: the bitmaps and tables lie on it, with flex_bg in
\* any group but one that is set up late and not theirs, and the copies of the
\* superblock find room.
Geometry(s) ==
  /\ s.first \in {0, 1} /\ s.total \in Nat \ {0} /\ s.reserved \in Nat /\ s.goals \subseteq Nat
  /\ s.sparse \in BOOLEAN
  /\ s.bpg \in 1 .. BitmapBits /\ s.ipg \in 1 .. BitmapBits
  /\ s.inodes \in (GroupCount(s) - 1) * s.ipg .. GroupCount(s) * s.ipg
  /\ s.lazy \subseteq Groups(s) /\ (s.across => s.bpg = BitmapBits)
  /\ \A g \in Groups(s) :
       /\ 0 .. Supers(s, g) - 1 \subseteq Existing(s, g)
       /\ \A p \in Meta(s, g) : /\ p \in s.first .. s.total - 1
                                /\ GroupOf(s, p) = g \/ (s.flex /\ GroupOf(s, p) \notin s.lazy)

ASSUME GeometryAssumption == \A s \in Setups : Geometry(s)

NewGroup(s, g) ==
  LET used == {i \in Existing(s, g) : BlockAt(s, i, g) \in Fixed(s)}
      lazy == g \in s.lazy
  IN [blocks |-> IF lazy THEN {} ELSE used \cup (0 .. BitmapBits - 1 \ Existing(s, g)),
      free |-> Cardinality(Existing(s, g)) - Cardinality(used),
      inodes |-> IF lazy THEN {} ELSE EndBits(s.ipg),
      freeInodes |-> InodesIn(s, g), dirs |-> 0, unused |-> InodesIn(s, g), lazy |-> lazy]

\* The free blocks of all groups.
Total(s, group) ==
  LET upTo[k \in 0 .. GroupCount(s)] == IF k = 0 THEN 0 ELSE upTo[k - 1] + group[k - 1].free
  IN upTo[GroupCount(s)]

Init ==
  /\ setup \in Setups
  /\ a = LET group == [g \in Groups(setup) |-> NewGroup(setup, g)]
         IN [group |-> group, lastGroup |-> 0, inodeBlocks |-> 0,
             freeBlocks |-> Total(setup, group), freeInodes |-> setup.inodes]
  /\ held = {} /\ inodes = <<>>
  /\ last = [call |-> "none"]

Alloc(goal) ==
  LET r == AllocBlock(setup, a, goal)
  IN /\ a' = r.x
     /\ held' = IF r.err = "EOK" THEN held \cup {r.p} ELSE held
     /\ last' = [call |-> "alloc", p |-> r.p, err |-> r.err]
     /\ UNCHANGED <<setup, inodes>>

TryAlloc(p) ==
  LET r == TryAllocBlock(setup, a, p)
  IN /\ a' = r.x
     /\ held' = IF r.free THEN held \cup {p} ELSE held
     /\ last' = [call |-> "try", p |-> p, err |-> "EOK"]
     /\ UNCHANGED <<setup, inodes>>

\* A caller gives back blocks it holds, one or a range of them.
Free(p) ==
  /\ a' = FreeBlock(setup, a, p)
  /\ held' = held \ {p}
  /\ last' = [call |-> "free", p |-> p, err |-> "EOK"]
  /\ UNCHANGED <<setup, inodes>>

FreeRange(p, n) ==
  /\ p .. p + n - 1 \subseteq held
  /\ setup.across \/ GroupOf(setup, p) = GroupOf(setup, p + n - 1)
  /\ a' = FreeBlocks(setup, a, p, n)
  /\ held' = held \ (p .. p + n - 1)
  /\ last' = [call |-> "free", p |-> p, err |-> "EOK"]
  /\ UNCHANGED <<setup, inodes>>

NewInode(isDir) ==
  LET r == AllocInode(setup, a, isDir)
  IN /\ a' = r.x
     /\ inodes' = IF r.err = "EOK"
                  THEN [i \in DOMAIN inodes \cup {r.i} |-> IF i = r.i THEN isDir ELSE inodes[i]]
                  ELSE inodes
     /\ last' = [call |-> "inode", p |-> r.i, err |-> r.err]
     /\ UNCHANGED <<setup, held>>

DropInode(i) ==
  /\ a' = FreeInode(setup, a, i, inodes[i])
  /\ inodes' = Restrict(inodes, DOMAIN inodes \ {i})
  /\ last' = [call |-> "drop", p |-> i, err |-> "EOK"]
  /\ UNCHANGED <<setup, held>>

Next ==
  \/ \E goal \in setup.goals : Alloc(goal)
  \/ \E p \in setup.goals : p \in setup.first .. setup.total - 1 /\ TryAlloc(p)
  \/ \E p \in held : Free(p)
  \/ \E p \in held, n \in 2 .. 4 : FreeRange(p, n)
  \/ \E isDir \in BOOLEAN : NewInode(isDir)
  \/ \E i \in DOMAIN inodes : DropInode(i)

Spec == Init /\ [][Next]_vars

----------------------------------------------------------------------------
(* Properties *)

\* A block is marked when it is fixed or held, and only then, and the counters
\* of the groups, of the superblock and of the i-node agree with that; groups
\* set up late included (balloc, init_block_bitmap).
BlocksAccounted ==
  /\ \A g \in Groups(setup) :
       LET x == a.group[g]
           free == {i \in Existing(setup, g) : BlockAt(setup, i, g) \notin held \cup Fixed(setup)}
       IN /\ x.free = Cardinality(free)
          /\ ~x.lazy => free = (0 .. BlocksIn(setup, g) - 1) \ x.blocks
  /\ a.freeBlocks = Total(setup, a.group)
  /\ a.inodeBlocks = Cardinality(held)
  /\ held \cap Fixed(setup) = {} /\ held \subseteq 0 .. setup.total - 1

\* The same of i-nodes and directories; no i-node in use lies in the part of a
\* table that the descriptor says was never used (ialloc).
InodesAccounted ==
  /\ \A g \in Groups(setup) :
       LET x == a.group[g]
           mine == {i \in DOMAIN inodes : InodeGroup(setup, i) = g}
       IN /\ x.freeInodes = InodesIn(setup, g) - Cardinality(mine)
          /\ x.dirs = Cardinality({i \in mine : inodes[i]})
          /\ ~x.lazy => {InodeIndex(setup, i) : i \in mine} = x.inodes \cap (0 .. InodesIn(setup, g) - 1)
          /\ \A i \in mine : InodeIndex(setup, i) < InodesIn(setup, g) - x.unused
  /\ a.freeInodes = setup.inodes - Cardinality(DOMAIN inodes)

\* Both, after every call.
Accounted == BlocksAccounted /\ InodesAccounted

\* Space is refused only when there is none, no block or i-node is given twice, and
\* the search for an i-node ends (alloc_block, alloc_inode).
GivesWhatIsFree ==
  [][/\ last'.call = "alloc" =>
          IF last'.err = "EOK" THEN last'.p \notin held
          ELSE last'.err = "ENOSPC" => 0 .. setup.total - 1 \subseteq held \cup Fixed(setup)
     /\ last'.call = "inode" =>
          IF last'.err = "EOK" THEN last'.p \notin DOMAIN inodes /\ last'.p <= setup.inodes
          ELSE last'.err = "ENOSPC" /\ DOMAIN inodes = 1 .. setup.inodes]_vars

=============================================================================
