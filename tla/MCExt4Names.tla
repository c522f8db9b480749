----------------------------- MODULE MCExt4Names -----------------------------
(***************************************************************************)
(* A filesystem of a few inodes and blocks.                                 *)
(***************************************************************************)
EXTENDS Ext4Names

Held == {i \in DOMAIN node : node[i].kind # "free"}
Dirs == {i \in Held : node[i].kind = "dir"}

\* The directories and slots that hold an entry of inode i, dots left out.
HeldBy(i) ==
  {<<d, k>> \in Dirs \X (1 .. Slots * Blocks) :
     /\ k \in DOMAIN node[d].ent
     /\ node[d].ent[k].ino = i /\ node[d].ent[k].name \notin Dots}

\* Every entry in use names an inode that is held and of its type, a name is in a
\* directory once, and every directory but the root is in the one its ".." names
\* and nowhere else
\* (link, unlink, frename, dir_rm).
TreeSound ==
  /\ \A d \in Dirs : \A j, k \in DOMAIN node[d].ent :
       LET e == node[d].ent[k]
       IN e.ino # Free => /\ e.ino \in Held /\ e.kind = node[e.ino].kind
                          /\ node[d].ent[j] = e => j = k
                          /\ node[d].ent[j].name = e.name /\ node[d].ent[j].ino # Free => j = k
  /\ \A d \in Dirs \ {Root} : \A held \in {HeldBy(d)} :
       /\ Cardinality(held) = 1 /\ InoOf(node, d, ".") = d
       /\ \A <<up, k>> \in held : up = InoOf(node, d, "..")

\* An inode is held as long as it has names, and its links are counted: a file's
\* names, a directory's own two and those of the directories in it
\* (links_count_inc, links_count_dec, unlink, fremove, dir_rm).
LinksCounted ==
  \A i \in Held :
    IF i \in Dirs
    THEN node[i].links = 2 + Cardinality({d \in Dirs \ {Root} : InoOf(node, d, "..") = i})
    ELSE node[i].links = Cardinality(HeldBy(i)) /\ node[i].links > 0

\* A call that returns EOK did what it says, and one that fails left the names as
\* they were, but for directories on the way to a path it was to make when no
\* journal takes them back (trans_abort)
\* (generic_open2, flink, frename, fremove of a file, dir_rm).
CallsKeepTheirWord ==
  LET p == Plain(last'.path)
      q == Plain(last'.to)
      had == p \in DOMAIN names
      has(x) == x \in DOMAIN names'
  IN CASE last'.res # "EOK" -> \/ names' = names
                               \/ ~journaled /\ last'.op = "make" /\ ~has(p)
                               \/ ~journaled /\ last'.op = "mkdir" /\ ~has(p)
       [] last'.op = "make" -> has(p) /\ (had => names'[p] = names[p])
       [] last'.op = "mkdir" -> has(p) /\ names'[p].kind = "dir" /\ (had => names'[p] = names[p])
       [] last'.op = "link" -> has(p) /\ has(q) /\ names'[p] = names'[q]
       [] last'.op = "rename" -> ~has(p) /\ has(q) /\ names'[q] = names[p]
       [] last'.op = "remove" -> ~has(p) \/ names[p].kind = "dir"
       [] last'.op = "rmdir" -> ~has(p)
       [] OTHER -> names' = names
OkMeansDone == [][steps' > steps => CallsKeepTheirWord]_vars

\* A name that is in a directory all the while it is listed is given once, whatever
\* else is made, renamed and removed in between
\* (dir_entry_next, dir_iterator_next, add_entry, remove_entry).
ListsWhatStays ==
  list.ino # Free /\ list.at = End =>
    \A n \in stays : Cardinality({k \in DOMAIN given : given[k] = n}) = 1

MC_Names == {"a", "b", "c"}
MC_Makes == {<<"a">>, <<"b">>, <<"a", "c">>, <<"b", "a", "">>, <<"a", "..", "c">>}
MC_Sources == {<<"a">>, <<"b">>, <<"a", "c">>, <<"a", "..", "c">>}
MC_Targets == {<<"b">>, <<"c">>, <<"b", "c">>, <<"a", "b">>}
=============================================================================
