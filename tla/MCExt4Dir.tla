------------------------------ MODULE MCExt4Dir ------------------------------
(***************************************************************************)
(* A directory of a few names, with equal hashes among them.                *)
(***************************************************************************)
EXTENDS Ext4Dir

Total(s) == FoldLeft(LAMBDA x, e : x + e.len, 0, s)
Leaves == {k \in DOMAIN dir.b : dir.b[k].kind = "leaf"}
IndexBlocks == {k \in DOMAIN dir.b : dir.b[k].kind # "leaf"}

\* The entries of a block fill it, each is long enough for its name, and each
\* name held is in one entry of one block
\* (try_insert_entry, remove_entry, split_data).
EntriesSound ==
  /\ \A k \in Leaves :
       /\ Total(dir.b[k].e) = setup.size
       /\ \A i \in DOMAIN dir.b[k].e : dir.b[k].e[i].ino # 0 => dir.b[k].e[i].len >= Units(dir.b[k].e[i])
  /\ \A n \in Names :
       LET at == {<<k, i>> \in (DOMAIN dir.b) \X (1 .. setup.size) :
                    /\ i \in DOMAIN Linear(dir.b[k])
                    /\ Linear(dir.b[k])[i].ino # 0 /\ Linear(dir.b[k])[i].name = n}
       IN Cardinality(at) = IF held[n] = 0 THEN 0 ELSE 1

\* A name that was added is found, by the index or without it, until it is
\* removed, and no other is
\* (find_entry, dx_find_entry, dx_next_block, add_entry, remove_entry).
FindsWhatIsThere == found = held

\* An index block has no more entries than it has room for, in the order of
\* their hashes, and each leaf is in the index once
\* (dx_split_index, dx_split_data, dx_insert_entry).
IndexSound ==
  dir.index =>
    /\ \A k \in IndexBlocks :
         /\ Len(dir.b[k].e) \in 1 .. IF k = 1 THEN RootMax ELSE NodeMax
         /\ \A i \in 3 .. Len(dir.b[k].e) : dir.b[k].e[i - 1].h <= dir.b[k].e[i].h
    /\ \A j \in Leaves \cup (IndexBlocks \ {1}) :
         Cardinality({<<k, i>> \in IndexBlocks \X (1 .. RootMax + NodeMax) :
                        i \in DOMAIN dir.b[k].e /\ dir.b[k].e[i].b = j}) = 1

MC_Names == 1 .. 8
\* Each name takes half a block.
MC_Index == [index |-> TRUE, room |-> 14, goes |-> {2, 5}, hash |-> <<8, 4, 4, 12, 4, 2, 6, 4>>,
             size |-> 2, need |-> [n \in MC_Names |-> 1]]
MC_Up == [MC_Index EXCEPT !.hash = [n \in MC_Names |-> 2 * n]]
MC_Down == [MC_Index EXCEPT !.hash = [n \in MC_Names |-> 20 - 2 * n], !.goes = {6}]
MC_Same == [MC_Index EXCEPT !.hash = [n \in MC_Names |-> 4], !.goes = {2}]
MC_Full == [MC_Index EXCEPT !.room = 5]
MC_Linear == [MC_Index EXCEPT !.index = FALSE, !.room = 4, !.goes = {1, 3, 6}]
\* Names of different lengths, at most a third of a block; long ones are taken out.
MC_Mixed == [MC_Index EXCEPT !.size = 6, !.need = <<2, 2, 1, 2, 2, 1, 2, 2>>]
MC_MixedUp == [MC_Mixed EXCEPT !.hash = MC_Up.hash, !.goes = {2}]
MC_MixedSame == [MC_Mixed EXCEPT !.hash = MC_Same.hash, !.goes = {2}]
MC_MixedLinear == [MC_Mixed EXCEPT !.index = FALSE]
MC_Setups == {MC_Index, MC_Up, MC_Down, MC_Same, MC_Full, MC_Linear,
              MC_Mixed, MC_MixedUp, MC_MixedSame, MC_MixedLinear}

\* Three short names are taken out from between others, and the next one is longer
\* than each hole: the leaf is split when half of it is empty.
MC_Holes == {[MC_Mixed EXCEPT !.need = <<1, 1, 1, 1, 1, 1, 2, 1>>, !.goes = {2, 4, 6}]}

\* Names of 244 to 255 characters in blocks of 1024 bytes, in units of 4 bytes.
MC_Long == {[MC_Up EXCEPT !.goes = {}, !.size = 256, !.need = <<63, 66, 66, 61, 66, 66, 66, 66>>]}
=============================================================================
