----------------------------- MODULE Ext4Files -----------------------------
(***************************************************************************)
(* The contents of one file (ext4.c: ext4_fopen, fread, fwrite, fseek,      *)
(* ftruncate, fremove, fsymlink, readlink) over its block map (ext4_fs.c:   *)
(* append, release, truncate and free of the direct, single, double and     *)
(* triple indirect blocks; an extent tree is the map Ext4Extents keeps).    *)
(*                                                                          *)
(* A block is a function from 0 .. Ids - 1 to numbers: block numbers in an  *)
(* indirect block, units of data in a data block. A unit stands for the     *)
(* four bytes of a block number.                                            *)
(***************************************************************************)
EXTENDS Integers, FiniteSets, SequencesExt

CONSTANTS
  Direct,       \* EXT4_INODE_DIRECT_BLOCK_COUNT
  Ids,          \* block numbers in a block; units in a block
  Device,       \* the last block of the device; block 0 holds the boot sector
  Handles,      \* the ext4_file's of the callers
  Inline,       \* units of a symbolic link the inode itself has room for
  MaxTruncate,  \* CONFIG_MAX_TRUNCATE_SIZE
  MaxSteps,     \* bound on the calls of a behaviour
  Setups        \* [free, file, extents, link, handles, flags, seeks, sizes]: the blocks it
                \* may have, its inode at first, whether that has an extent tree
                \* and whether it is a symbolic link, the handles, and the flags,
                \* offsets and sizes of the calls

ASSUME FilesAssumption ==
  /\ {Direct, Ids, Device, MaxTruncate, MaxSteps} \subseteq Nat \ {0}
  /\ \A s \in Setups : s.free \subseteq 1 .. Device

VARIABLES
  setup,   \* a member of Setups, fixed
  ino,     \* the inode: [used, size, blocks, ext, count]: i_block, its extents, i_blocks
  disk,    \* the blocks of the device
  free,    \* the blocks no one has
  handle,  \* h -> [flags, pos, size]: ext4_file
  last,    \* the last call and what it returned
  steps,   \* calls so far
  view     \* not in the code: the contents a reader of the disk would find

vars == <<setup, ino, disk, free, handle, last, steps, view>>

\* An inode not in use.
NoInode == [used |-> FALSE, size |-> 0, blocks |-> [i \in 0 .. Direct + 2 |-> 0],
            ext |-> <<>>, count |-> 0]

Zeros == [i \in 0 .. Ids - 1 |-> 0]
Blocks(units) == (units + Ids - 1) \div Ids
Least(m, n) == IF m < n THEN m ELSE n

\* What the calls below the lock work on, with their error code and the block
\* they return.
State(in, di, fr) == [ino |-> in, disk |-> di, free |-> fr, err |-> "EOK", got |-> 0]
Fail(st, err) == [st EXCEPT !.err = err]

----------------------------------------------------------------------------
(* The block map of ext4_fs.c *)

\* Where the inode has the indirect block of a level.
Slot(l) == Direct + l - 1

Limit(l) == Direct + IF l = 0 THEN 0 ELSE IF l = 1 THEN Ids ELSE
                     IF l = 2 THEN Ids + Ids ^ 2 ELSE Ids + Ids ^ 2 + Ids ^ 3

\* The level of indirection of a block; 4: past the largest file (EIO).
Level(b) == CHOOSE l \in 0 .. 4 : (l = 4 \/ b < Limit(l)) /\ (l = 0 \/ b >= Limit(l - 1))

\* The entry of the block at level l that leads to block b, whose level is top.
EntryAt(b, top, l) == ((b - Limit(top - 1)) \div (Ids ^ (l - 1))) % Ids

\* The blocks on the way from the inode to block b, 0 from a hole on.
Way(st, b) ==
  LET top == Level(b)
      at[l \in 0 .. top] == IF l = top THEN st.ino.blocks[Slot(top)]
                            ELSE LET up == at[l + 1]
                                 IN IF up = 0 THEN 0 ELSE st.disk[up][EntryAt(b, top, l + 1)]
  IN at

GetDblk(st, b) ==
  IF st.ino.size = 0 THEN 0
  ELSE IF setup.extents THEN IF b \in DOMAIN st.ino.ext THEN st.ino.ext[b] ELSE 0
  ELSE IF Level(b) = 0 THEN st.ino.blocks[b]
  ELSE Way(st, b)[0]

\* The block after the last one (ext4_fs_indirect_find_goal).
Goal(st) ==
  LET n == Blocks(st.ino.size) IN IF n > 0 THEN GetDblk(st, n - 1) + 1 ELSE 1

\* Block p is taken for the file.
Taken(st, p) == [st EXCEPT !.free = @ \ {p}, !.ino.count = @ + 1, !.got = p]

\* mutant: blocks before the goal are not looked at
AllocForward(st) ==
  LET from(goal) == {p \in st.free : p >= goal}
      take(near) == IF near = {} THEN Fail(st, "ENOSPC") ELSE Taken(st, Min(near))
  IN take(from(Goal(st)))

\* ext4_balloc_alloc_block: the first free block from the goal on, else any
\* (Ext4Alloc has the search).
Alloc(st) ==
  LET from(goal) == {p \in st.free : p >= goal}
      take(near) == Taken(st, Min(IF near = {} THEN st.free ELSE near))
  IN IF st.free = {} THEN Fail(st, "ENOSPC") ELSE take(from(Goal(st)))

Release(st, p) == [st EXCEPT !.free = @ \cup {p}, !.ino.count = @ - 1]

\* A new indirect block, zeroed: linked from the inode before it is, from an
\* indirect block after.
NewIndirect(st) ==
  LET zeroed(a) == IF a.err # "EOK" THEN a ELSE [a EXCEPT !.disk[a.got] = Zeros]
  IN zeroed(Alloc(st))

\* ext4_fs_set_inode_data_block_index. A failure on the way leaves the indirect
\* blocks that were made, linked and empty.
SetIndex(st, b, p) ==
  LET top == Level(b)
      entry(l) == EntryAt(b, top, l)
      inInode(n) == IF n.err # "EOK" THEN n ELSE [n EXCEPT !.ino.blocks[Slot(top)] = n.got]
      inBlock(n, up, l) == IF n.err # "EOK" THEN n ELSE [n EXCEPT !.disk[up][entry(l)] = n.got]
      \* acc.got is the block at level l
      step(acc, l) ==
        LET next == acc.disk[acc.got][entry(l)] IN
        IF acc.err # "EOK" THEN acc
        ELSE IF l = 1 THEN [acc EXCEPT !.disk[acc.got][entry(1)] = p]
        ELSE IF next # 0 THEN [acc EXCEPT !.got = next]
        ELSE inBlock(NewIndirect(acc), acc.got, l)
  IN IF top = 0 THEN [st EXCEPT !.ino.blocks[b] = p]
     ELSE IF top = 4 THEN Fail(st, "EIO")
     ELSE FoldLeft(step,
                   IF st.ino.blocks[Slot(top)] # 0 THEN [st EXCEPT !.got = st.ino.blocks[Slot(top)]]
                   ELSE inInode(NewIndirect(st)),
                   [i \in 1 .. top |-> top + 1 - i])

\* Block p becomes block b of the map.
SetMap(st, b, p) ==
  IF setup.extents THEN [st EXCEPT !.ino.ext = @ @@ (b :> p)] ELSE SetIndex(st, b, p)

\* The size with a block more, which is p.
Grown(st, size, p) ==
  [st EXCEPT !.got = p,
             !.ino.size = IF setup.extents THEN size + Ids ELSE (Blocks(size) + 1) * Ids]

\* mutant: the block that found no place in the map is kept
AppendKeeps(st) ==
  LET put(s, p) == IF s.err # "EOK" THEN s ELSE Grown(s, st.ino.size, p)
      map(a) == IF a.err # "EOK" THEN a ELSE put(SetMap(a, Blocks(st.ino.size), a.got), a.got)
  IN map(Alloc(st))

\* ext4_fs_append_inode_dblk: a block after the last one; .got is the block.
AppendDblk(st) ==
  LET put(s, p) == IF s.err # "EOK" THEN Release(s, p) ELSE Grown(s, st.ino.size, p)
      map(a) == IF a.err # "EOK" THEN a ELSE put(SetMap(a, Blocks(st.ino.size), a.got), a.got)
  IN map(Alloc(st))

\* ext4_fs_init_inode_dblk_idx: an extent tree fills a hole, a block map does not.
InitDblk(st, b) ==
  LET map(a) == IF a.err # "EOK" THEN a ELSE SetMap(a, b, a.got)
  IN IF setup.extents /\ st.ino.size > 0 /\ b \notin DOMAIN st.ino.ext THEN map(Alloc(st))
     ELSE [st EXCEPT !.got = GetDblk(st, b)]

\* ext4_fs_release_inode_block
ReleaseBlock(st, b) ==
  LET without(way) == IF Level(b) = 0 THEN [st EXCEPT !.ino.blocks[b] = 0]
                      ELSE [st EXCEPT !.disk[way[1]][EntryAt(b, Level(b), 1)] = 0]
      release(p, way) == IF p = 0 THEN st ELSE Release(without(way), p)
      along(way) == release(IF Level(b) = 0 THEN st.ino.blocks[b] ELSE way[0], way)
  IN along(Way(st, b))

\* ext4_extent_remove_space, from a block to the end
ReleaseExtents(st, from) ==
  LET kept == {b \in DOMAIN st.ino.ext : b < from}
      gone == DOMAIN st.ino.ext \ kept
  IN [st EXCEPT !.ino.ext = [b \in kept |-> @[b]], !.ino.count = @ - Cardinality(gone),
                !.free = @ \cup {st.ino.ext[b] : b \in gone}]

\* The target of a short link is where the block numbers would be.
IsInline(st) == setup.link /\ st.ino.size < Inline /\ st.ino.count = 0
CutInline(st, size) ==
  [st EXCEPT !.ino.blocks = [i \in DOMAIN @ |-> IF i < size THEN @[i] ELSE 0]]

\* ext4_fs_truncate_inode, to a size no larger
Truncated(st, size) ==
  LET from == Blocks(size)
      data == IF IsInline(st) THEN CutInline(st, size)
              ELSE IF setup.extents THEN ReleaseExtents(st, from)
              ELSE FoldLeft(ReleaseBlock, st, [i \in 1 .. Blocks(st.ino.size) - from |-> from + i - 1])
  IN IF st.ino.size = size THEN st ELSE [data EXCEPT !.ino.size = size]

\* ext4_fs_free_inode: every indirect block, the data blocks being gone. An
\* attribute block would go too; these files have none.
FreeInode(st) ==
  LET ids(p) == IF p = 0 THEN {} ELSE {st.disk[p][i] : i \in DOMAIN st.disk[p]} \ {0}
      top(l) == st.ino.blocks[Slot(l)]
      indirect == {top(1), top(2), top(3)} \cup ids(top(2)) \cup ids(top(3))
                  \cup UNION {ids(p) : p \in ids(top(3))}
  IN [st EXCEPT !.free = IF setup.extents THEN @ ELSE @ \cup (indirect \ {0}), !.ino = NoInode]

----------------------------------------------------------------------------
(* Reading and writing (ext4.c) *)

\* Blocks are transferred in runs that are contiguous on the device: r is
\* [start, count, out], out the device blocks transferred so far, p the next
\* block. A start of 0 is taken for no start.
NoRun == [start |-> 0, count |-> 0, out |-> <<>>]
Flushed(r) == r.out \o [i \in 1 .. r.count |-> r.start + i - 1]
Track(r, p) ==
  LET start == IF r.start = 0 THEN p ELSE r.start
  IN IF start + r.count = p THEN [r EXCEPT !.start = start, !.count = @ + 1]
     ELSE [start |-> p, count |-> 1, out |-> Flushed([r EXCEPT !.start = start])]

\* mutant: the offset in the first block is forgotten
ReadFromStart(st, pos, n) ==
  [i \in 1 .. n |-> st.disk[GetDblk(st, (pos + i - 1) \div Ids)][(i - 1) % Ids]]

\* ext4_fread of n units at pos, n no more than the file has. A hole reads as
\* zeros in the block pos is inside of.
ReadData(st, pos, n) ==
  LET head == pos % Ids # 0
      first == Blocks(pos)             \* of the whole blocks
      whole == Flushed(FoldLeft(LAMBDA r, b : Track(r, GetDblk(st, b)), NoRun,
                                [i \in 1 .. (pos + n) \div Ids - first |-> first + i - 1]))
      source(b) == IF b - first + 1 \in DOMAIN whole THEN whole[b - first + 1] ELSE GetDblk(st, b)
      unit(u) == IF head /\ u \div Ids < first /\ GetDblk(st, u \div Ids) = 0 THEN 0
                 ELSE st.disk[source(u \div Ids)][u % Ids]
  IN [i \in 1 .. n |-> unit(pos + i - 1)]

\* d is put in block p from unit `at` on.
Put(st, p, at, d) ==
  [st EXCEPT !.disk[p] = [i \in DOMAIN @ |-> IF i - at + 1 \in DOMAIN d THEN d[i - at + 1] ELSE @[i]]]

\* The next block of a write: one the file had when the call began, or one
\* appended. `lost`: a block of the file could not be made (goto Finish).
NextBlock(st, b, had) ==
  LET made(s) == s @@ [lost |-> s.err # "EOK"]
  IN IF b < had THEN made(InitDblk(st, b)) ELSE AppendDblk(st) @@ [lost |-> FALSE]

\* mutant: the size is not updated when the device gets full
SizeForgotten(old, st, end, lost) ==
  IF st.err = "EOK" /\ end > old.ino.size THEN [st EXCEPT !.ino.size = end] ELSE st

\* The size after a write that came as far as `end`.
Sized(old, st, end, lost) ==
  IF ~lost /\ end > old.ino.size THEN [st EXCEPT !.ino.size = end] ELSE st

\* ext4_fwrite of d at pos: what is left of the block pos is inside of, whole
\* blocks, the rest. st.err is not what the call returns: it ends with that of
\* putting the inode back.
WriteData(st, pos, d) ==
  LET n == Len(d)
      had == Blocks(st.ino.size)
      len == IF pos % Ids = 0 THEN 0 ELSE Least(n, Ids - (pos % Ids))
      first == Blocks(pos)
      count == (pos + n) \div Ids - first
      result(s, done, lost) == [st |-> Sized(st, s, pos + done, lost), n |-> done]
      rest(b, done, lost) ==
        IF b.err # "EOK" THEN result(b, done, lost \/ b.lost)
        ELSE result(Put(b, b.got, 0, SubSeq(d, done + 1, n)), n, lost)
      wrote(s, done, lost) ==
        IF done = n \/ s.err # "EOK" THEN result(s, done, lost)
        ELSE rest(NextBlock(s, first + count, had), done, lost)
      put(s, i, p) == Put(s, p, 0, SubSeq(d, len + (i - 1) * Ids + 1, len + i * Ids))
      transfer(all, out) ==
        wrote(FoldLeft(LAMBDA s, i : put(s, i, out[i]), all.st, [i \in DOMAIN out |-> i]),
              len + Len(out) * Ids, all.lost)
      runs(all) == transfer(all, IF all.lost THEN all.run.out ELSE Flushed(all.run))
      next(acc, s) == IF s.err # "EOK" THEN [acc EXCEPT !.st = s, !.lost = s.lost]
                      ELSE [acc EXCEPT !.st = s, !.run = Track(@, s.got)]
      block(acc, b) == IF acc.st.err # "EOK" THEN acc ELSE next(acc, NextBlock(acc.st, b, had))
      whole(s) == runs(FoldLeft(block, [st |-> s, run |-> NoRun, lost |-> FALSE],
                                [i \in 1 .. count |-> first + i - 1]))
      head(b) == IF b.err # "EOK" THEN [st |-> b, n |-> 0]
                 ELSE whole(Put(b, b.got, pos % Ids, SubSeq(d, 1, len)))
  IN IF len = 0 THEN whole(st) ELSE head(InitDblk(st, pos \div Ids))

\* ext4_trunc_inode: the sizes of its transactions, MaxTruncate apart.
TruncateSizes(from, to) ==
  LET cuts == IF from > to + MaxTruncate THEN (from - to - 1) \div MaxTruncate ELSE 0
  IN [i \in 1 .. cuts |-> from - i * MaxTruncate] \o <<to>>
TruncInode(st, size) ==
  IF st.ino.size <= size THEN st ELSE FoldLeft(Truncated, st, TruncateSizes(st.ino.size, size))

----------------------------------------------------------------------------
(* The calls *)

\* What a reader of the disk finds, by the block map alone.
Contents(st) ==
  [i \in 1 .. st.ino.size |->
     IF IsInline(st) THEN st.ino.blocks[i - 1]
     ELSE LET p == GetDblk(st, (i - 1) \div Ids)
          IN IF p = 0 THEN 0 ELSE st.disk[p][(i - 1) % Ids]]

Now == State(ino, disk, free)
Become(st) ==
  /\ ino' = st.ino /\ disk' = st.disk /\ free' = st.free /\ view' = Contents(st)
  /\ steps' = steps + 1 /\ UNCHANGED setup
Keep == /\ steps' = steps + 1 /\ UNCHANGED <<setup, ino, disk, free, view>>
Return(op, h, n, done, data) == last' = [op |-> op, h |-> h, n |-> n, done |-> done, data |-> data]
Called == steps < MaxSteps

Closed == [flags |-> "closed", pos |-> 0, size |-> 0]
Open(h) == handle[h].flags # "closed" /\ h \in setup.handles

\* The data of a write: value v, and each unit its place.
Payload(n, v) == [i \in 1 .. n |-> 100 * v + i]

\* No call cuts the file below the position of another handle, and none seeks
\* past its end by a size that is no longer true: a handle beyond the end reads
\* and writes elsewhere (bound of the model, not of the code).
Within(h, size) == \A k \in setup.handles \ {h} : handle[k].pos <= size

\* ext4_fopen; the directory entry is Ext4Names's.
Fopen(h, flags) ==
  LET made == [NoInode EXCEPT !.used = TRUE]
      st == [Now EXCEPT !.ino = IF ino.used THEN ino ELSE made]
  IN /\ Called /\ h \in setup.handles /\ ~setup.link
     /\ ino.used \/ flags \notin {"r", "r+"}
     /\ flags \in {"w", "w+"} => Within(h, 0)
     /\ \E cut \in {IF flags \in {"w", "w+"} THEN TruncInode(st, 0) ELSE st} :
          /\ Become(cut)
          /\ handle' = [handle EXCEPT ![h] = [flags |-> flags, size |-> cut.ino.size,
                         pos |-> IF flags \in {"a", "a+"} THEN cut.ino.size ELSE 0]]
     /\ Return("open", h, 0, 0, <<>>)

\* ext4_fseek, by the size the handle has
Fseek(h, off) ==
  /\ Called /\ Open(h) /\ Keep
  /\ \E pos \in {off, handle[h].pos + off, handle[h].pos - off, handle[h].size - off} :
       /\ pos >= 0 /\ pos <= handle[h].size /\ pos <= ino.size
       /\ handle' = [handle EXCEPT ![h].pos = pos]
  /\ Return("seek", h, 0, 0, <<>>)

Fread(h, n) ==
  LET pos == handle[h].pos
      len == IF pos > ino.size THEN n ELSE Least(n, ino.size - pos)
  IN /\ Called /\ Open(h) /\ n > 0 /\ Keep
     /\ handle[h].flags \notin {"w", "a"}      \* O_WRONLY
     /\ handle' = [handle EXCEPT ![h] = [@ EXCEPT !.size = ino.size, !.pos = pos + len]]
     /\ Return("read", h, n, pos, ReadData(Now, pos, len))

\* flags & O_RDONLY, which is 0, refuses no handle.
Fwrite(h, n, v) ==
  /\ Called /\ Open(h) /\ n > 0
  /\ Blocks(handle[h].pos + n) <= Limit(3)
  /\ \E w \in {WriteData(Now, handle[h].pos, Payload(n, v))} :
       /\ Become(w.st)
       /\ handle' = [handle EXCEPT ![h] = [@ EXCEPT !.pos = @ + w.n, !.size = IF w.st.ino.size > ino.size
                                                                       THEN w.st.ino.size ELSE ino.size]]
       /\ Return("write", h, n, w.n, <<>>)

Ftruncate(h, size) ==
  LET cut == size < ino.size
  IN /\ Called /\ Open(h) /\ Within(h, size)
     /\ Become(TruncInode(Now, size))
     /\ handle' = [handle EXCEPT ![h] =
          [@ EXCEPT !.size = IF cut THEN size ELSE ino.size, !.pos = IF cut THEN Least(@, size) ELSE @]]
     /\ Return("truncate", h, size, 0, <<>>)

\* The power fails between two transactions of a truncation, and the handles
\* are gone.
CutShort(h, size) ==
  /\ Called /\ Open(h) /\ size + MaxTruncate < ino.size
  /\ \E i \in 1 .. Len(TruncateSizes(ino.size, size)) - 1 :
       Become(TruncInode(Now, TruncateSizes(ino.size, size)[i]))
  /\ handle' = [k \in Handles |-> Closed]
  /\ Return("cut", h, size, 0, <<>>)

\* ext4_fremove of the last name; the callers have closed their handles.
Fremove ==
  /\ Called /\ ino.used
  /\ Become(FreeInode(TruncInode(Now, 0)))
  /\ handle' = [k \in Handles |-> Closed]
  /\ Return("remove", 0, 0, 0, <<>>)

\* ext4_fsymlink, of a new link or one that has a target
Fsymlink(n, v) ==
  LET old == [Now EXCEPT !.ino = IF ino.used THEN ino ELSE [NoInode EXCEPT !.used = TRUE]]
      short(cut) == [cut EXCEPT !.ino.blocks = [i \in DOMAIN @ |-> IF i < n THEN Payload(n, v)[i + 1] ELSE 0]]
      long(a) == IF a.err # "EOK" THEN a ELSE Put(a, a.got, 0, Payload(n, v))
      target(cut) == IF n < Inline THEN short(cut) ELSE long(AppendDblk(cut))
  IN /\ Called /\ setup.link /\ n > 0
     /\ IF n > Ids THEN Become(old) /\ Return("symlink", 0, n, 0, <<>>)
        ELSE \E st \in {target(TruncInode(old, 0))} :
               IF st.err # "EOK" THEN Become(st) /\ Return("symlink", 0, n, 0, <<>>)
               ELSE Become([st EXCEPT !.ino.size = n]) /\ Return("symlink", 0, n, n, Payload(n, v))
     /\ UNCHANGED handle

\* The target in the inode, or what ext4_fread returns.
Readlink(n) ==
  LET len == Least(n, ino.size)
  IN /\ Called /\ setup.link /\ ino.used /\ n > 0 /\ Keep
     /\ Return("read", 0, n, 0, IF IsInline(Now) THEN [i \in 1 .. len |-> ino.blocks[i - 1]]
                                ELSE ReadData(Now, 0, len))
     /\ UNCHANGED handle

Init ==
  /\ setup \in Setups
  /\ ino = setup.file
  /\ disk = [p \in 0 .. Device |-> [i \in 0 .. Ids - 1 |-> 900 + p]]
  /\ free = setup.free \ {ino.blocks[i] : i \in DOMAIN ino.blocks}
  /\ handle = [h \in Handles |-> Closed]
  /\ last = [op |-> "mount", h |-> 0, n |-> 0, done |-> 0, data |-> <<>>]
  /\ steps = 0 /\ view = Contents(Now)

Next ==
  \/ \E h \in setup.handles :
       \/ \E flags \in setup.flags : Fopen(h, flags)
       \/ \E off \in setup.seeks : Fseek(h, off)
       \/ \E n \in setup.sizes : Fread(h, n) \/ Ftruncate(h, n) \/ CutShort(h, n)
       \/ \E n \in setup.sizes, v \in {1, 2} : Fwrite(h, n, v)
  \/ \E n \in setup.sizes : Readlink(n) \/ \E v \in {1, 2} : Fsymlink(n, v)
  \/ Fremove

Spec == Init /\ [][Next]_vars
=============================================================================
