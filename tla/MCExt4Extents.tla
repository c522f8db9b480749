---------------------------- MODULE MCExt4Extents ----------------------------
(***************************************************************************)
(* Extent trees of a few blocks against the map they stand for.             *)
(***************************************************************************)
EXTENDS Ext4Extents

\* The extents of the tree, and the blocks they name.
Leaves == {a \in {NoBlock} \cup DOMAIN t.node : Node(t, a).depth = 0}
Extents == UNION {ToSet(Node(t, a).e) : a \in Leaves}

\* Every node but an empty root has entries, in order and no more than it has
\* room for; the key of an index says where its child begins.
TreeSound ==
  \A a \in {NoBlock} \cup DOMAIN t.node :
    LET n == Node(t, a) IN
    /\ Len(n.e) <= n.max /\ (a # NoBlock \/ n.depth > 0 => n.e # <<>>)
    /\ \A i \in 1 .. Len(n.e) - 1 :
         IF n.depth = 0 THEN n.e[i].b + Len16(n.e[i]) <= n.e[i + 1].b
                        ELSE n.e[i].b < n.e[i + 1].b
    /\ n.depth > 0 => \A i \in DOMAIN n.e :
         /\ NodeAt(t, n.e[i].p, n.depth - 1)
         /\ n.e[i].b = Node(t, n.e[i].p).e[1].b

\* The blocks in use are those of other files, of the nodes and of the
\* extents, and none of them is two of these.
Accounted ==
  LET data(x) == x.p .. x.p + Len16(x) - 1 IN
  /\ t.used = setup.taken \cup DOMAIN t.node \cup UNION {data(x) : x \in Extents}
  /\ setup.taken \cap DOMAIN t.node = {}
  /\ \A x \in Extents : data(x) \cap (setup.taken \cup DOMAIN t.node) = {}
  /\ \A x, y \in Extents : x # y => data(x) \cap data(y) = {}

\* The tree implements the map: a write that succeeds gives its block a place of its
\* own, where it reads as written, and changes that of no other; giving back takes
\* the range, where it begins at a block the file has, and nothing outside it; a call
\* that fails, for want of space too, changes nothing (get_blocks, insert_extent,
\* remove_space).
Promise == INSTANCE BlockMap WITH
  Physical <- Device, Ends <- Logical \cup {Forever}, call <- last
KeepsMap == Promise!Spec

MC_Logical == 0 .. 5
MC_Device == 1 .. 22
MC_Odd == {p \in MC_Device : p % 2 = 1}

\* A file written from its start on, on a device that gets full.
MC_Log == [extents |-> <<>>, taken |-> {7} \cup 13 .. 22, size |-> 6, ends |-> {6},
           sparse |-> FALSE, joins |-> FALSE]
\* A sparse file on a device where no two free blocks are neighbours; the same
\* with room for seven of its blocks and nodes.
MC_Fragmented == [extents |-> <<>>, taken |-> MC_Odd, size |-> 4, ends |-> {6},
                  sparse |-> TRUE, joins |-> FALSE]
MC_Tight == [MC_Fragmented EXCEPT !.taken = @ \cup 15 .. 22, !.ends = {1, 6}, !.size = 3]
\* With room for eight: a split of a leaf gets no block when the tree has grown for it.
MC_Short == [MC_Fragmented EXCEPT !.taken = @ \cup 17 .. 22]
\* A file that begins with blocks reserved by another system.
MC_Reserved == [extents |-> <<Extent(0, 7, 5)>>, taken |-> {1, 2, 4, 9}, size |-> 6,
                ends |-> {6}, sparse |-> FALSE, joins |-> FALSE]
MC_Setups == {MC_Log, MC_Fragmented, MC_Tight, MC_Short, MC_Reserved}

\* The middle of the reserved blocks, and the block after them, are written.
MC_Parted == {[MC_Reserved EXCEPT !.joins = TRUE]}
\* With room for nine: the leaf is split and the node above it is not (0, 3, 2, 1).
MC_Halfway == {[MC_Fragmented EXCEPT !.taken = @ \cup 19 .. 22]}
=============================================================================
