---------------------------- MODULE MCExt4Alloc ----------------------------
(***************************************************************************)
(* Allocation on devices of two and three groups.                           *)
(***************************************************************************)
EXTENDS Ext4Alloc, TLC

MC_Place(bb, ib, table) == [blockBitmap |-> bb, inodeBitmap |-> ib, table |-> table]

\* Two groups of eight blocks, the second set up late; bitmaps in each group.
MC_Plain == [first |-> 1, total |-> 14, bpg |-> 8, ipg |-> 2, inodes |-> 4, reserved |-> 0,
             sparse |-> TRUE, flex |-> FALSE, place |-> (0 :> MC_Place(3, 4, 5) @@ 1 :> MC_Place(11, 12, 13)),
             lazy |-> {1}, goals |-> {1, 6, 8, 10}, across |-> FALSE]
\* The bitmaps and tables of both groups in the first one.
MC_Flex == [first |-> 0, total |-> 16, bpg |-> 8, ipg |-> 2, inodes |-> 4, reserved |-> 0,
            sparse |-> TRUE, flex |-> TRUE, place |-> (0 :> MC_Place(2, 3, 4) @@ 1 :> MC_Place(5, 6, 7)),
            lazy |-> {1}, goals |-> {3, 10, 12, 15, 25}, across |-> TRUE]
\* Three groups with room for less than a bitmap, the last one short.
MC_Short == [first |-> 0, total |-> 15, bpg |-> 6, ipg |-> 2, inodes |-> 5, reserved |-> 0,
             sparse |-> TRUE, flex |-> FALSE,
             place |-> (0 :> MC_Place(2, 3, 4) @@ 1 :> MC_Place(8, 9, 10) @@ 2 :> MC_Place(12, 13, 14)),
             lazy |-> {2}, goals |-> {0, 7, 14}, across |-> FALSE]
\* A copy of the superblock in each of three groups.
MC_Copies == [first |-> 0, total |-> 20, bpg |-> 7, ipg |-> 2, inodes |-> 4, reserved |-> 0,
              sparse |-> FALSE, flex |-> FALSE,
              place |-> (0 :> MC_Place(2, 3, 4) @@ 1 :> MC_Place(9, 10, 11) @@ 2 :> MC_Place(16, 17, 18)),
              lazy |-> {2}, goals |-> {19}, across |-> FALSE]
MC_Setups == {MC_Plain, MC_Flex, MC_Short, MC_Copies}
=============================================================================
