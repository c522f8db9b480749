----------------------------- MODULE MCExt4Files -----------------------------
(***************************************************************************)
(* A file of up to fifteen blocks, by direct and indirect blocks or by      *)
(* extents, on devices with room and without, and a symbolic link.          *)
(***************************************************************************)
EXTENDS Ext4Files

\* The blocks reached from block p, p at level l over the data.
Reached[p \in 0 .. Device, l \in 0 .. 3] ==
  IF p = 0 THEN {} ELSE IF l = 0 THEN {p}
  ELSE {p} \cup UNION {Reached[disk[p][i], l - 1] : i \in 0 .. Ids - 1}

Owned ==
  IF IsInline(Now) THEN {}
  ELSE ToSet(ino.ext) \cup UNION {Reached[ino.blocks[b], 0] : b \in 0 .. Direct - 1}
       \cup UNION {Reached[ino.blocks[Slot(l)], l] : l \in 1 .. 3}

\* Each block is the file's or free, i_blocks counts those the file has, and a
\* file that is removed has none: no call loses a block or gives back one that
\* is in use, when the device gets full halfway too
\* (ext4_fs_set_inode_data_block_index, append, truncate and free_inode).
BlocksKept ==
  /\ Owned \cap free = {} /\ Owned \cup free = setup.free
  /\ ino.count = Cardinality(Owned)

\* The file implements a sequence of bytes: a write changes what it reports and
\* nothing else, what it wrote is there even when the device got full, a cut
\* takes the end and no more (ext4_fwrite, ext4_ftruncate, ext4_fopen).
Promise == INSTANCE ByteFile WITH
  file <- view, pos <- [h \in Handles |-> handle[h].pos], link <- setup.link,
  Payloads <- {Payload(n, v) : n \in UNION {s.sizes : s \in Setups}, v \in {1, 2}}
KeepsFile == Promise!Spec

\* A read returns what the file has at the position, to the end of the file at
\* the most; a link gives its target back (ext4_fread, ext4_readlink).
ReadsBack ==
  last.op = "read" => last.data = SubSeq(view, last.done + 1, Least(last.done + last.n, Len(view)))

\* A write is short, and a link is left without a target, only when the device
\* has no room for one more block with those that lead to it.
ShortWhenFull ==
  last.op \in {"write", "symlink"} /\ last.done < last.n /\ (setup.link => last.n <= Ids) =>
    Cardinality(free) <= 1

MC_Files == [free |-> 1 .. Device, file |-> NoInode, extents |-> FALSE, link |-> FALSE,
             handles |-> {1}, flags |-> {"w", "r+", "a+"}, seeks |-> {0, 4}, sizes |-> {2, 5, 37}]
\* Blocks here and there, and too few of them.
MC_Tight == [MC_Files EXCEPT !.free = {2, 3, 5, 9, 10, 12, 13, 20}]
MC_Extents == [MC_Tight EXCEPT !.extents = TRUE]
MC_Two == [MC_Files EXCEPT !.handles = {1, 2}, !.flags = {"r+", "a"}, !.sizes = {2, 5}]
MC_Link == [MC_Files EXCEPT !.link = TRUE, !.sizes = 1 .. 4, !.free = {2}]
\* A file whose first block is the last one there is.
MC_High == [MC_Tight EXCEPT !.sizes = {2, 5}, !.file = [NoInode EXCEPT !.used = TRUE,
                            !.size = 3, !.count = 1, !.blocks[0] = 20]]
MC_Setups == {MC_High, MC_Files, MC_Tight, MC_Extents, MC_Two, MC_Link}
\* A file another system left with a hole in the place of its first two blocks.
MC_Sparse == {[MC_Files EXCEPT !.file = [NoInode EXCEPT !.used = TRUE, !.size = 5],
                               !.sizes = {5}]}
=============================================================================
