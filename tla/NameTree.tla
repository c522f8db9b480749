------------------------------ MODULE NameTree ------------------------------
(***************************************************************************)
(* What a mounted filesystem promises about its names: a tree of paths in   *)
(* which only a directory has names below it, and in which one file may     *)
(* have several names. A path is a nonempty sequence of names.              *)
(***************************************************************************)
EXTENDS Naturals, FiniteSets, Sequences

VARIABLE tree   \* path -> [ino, kind]

Parent(p) == SubSeq(p, 1, Len(p) - 1)

\* p is q or lies below it.
Under(p, q) == Len(q) <= Len(p) /\ SubSeq(p, 1, Len(q)) = q

IsDir(m, p) == p = <<>> \/ (p \in DOMAIN m /\ m[p].kind = "dir")

Inodes(m) == {m[p].ino : p \in DOMAIN m}

Without(m, gone) == [p \in DOMAIN m \ gone |-> m[p]]

\* A path is made, with the directories on the way that are missing, or some of
\* them, each a new inode. They are no chain when the path goes up on its way.
Make(m, n) ==
  LET new == DOMAIN n \ DOMAIN m
  IN /\ DOMAIN m \subseteq DOMAIN n /\ Without(n, new) = m
     /\ Cardinality({p \in new : n[p].kind # "dir"}) <= 1
     /\ \A p \in new : IsDir(n, Parent(p)) /\ n[p].ino \notin Inodes(m)
     /\ Cardinality({n[p].ino : p \in new}) = Cardinality(new)

\* A file gets one more name.
Link(m, n) ==
  \E p \in DOMAIN m : \E q \in DOMAIN n \ DOMAIN m :
    /\ m[p].kind # "dir" /\ IsDir(m, Parent(q))
    /\ n = [x \in DOMAIN m \cup {q} |-> IF x = q THEN m[p] ELSE m[x]]

\* A name is changed, and everything below it goes along.
Rename(m, n) ==
  \E p \in DOMAIN m : \E q \in DOMAIN n \ DOMAIN m :
    LET moved == {x \in DOMAIN m : Under(x, p)}
        To(x) == q \o SubSeq(x, Len(p) + 1, Len(x))
    IN /\ IsDir(m, Parent(q)) /\ ~Under(q, p)
       /\ DOMAIN n = (DOMAIN m \ moved) \cup {To(x) : x \in moved}
       /\ \A x \in DOMAIN m : n[IF x \in moved THEN To(x) ELSE x] = m[x]

\* A name is removed, with all that is below it.
Remove(m, n) == \E p \in DOMAIN m : n = Without(m, {x \in DOMAIN m : Under(x, p)})

Init == tree = <<>>

Next == \E m \in {tree}, n \in {tree'} : Make(m, n) \/ Link(m, n) \/ Rename(m, n) \/ Remove(m, n)

Spec == Init /\ [][Next]_tree
=============================================================================
