------------------------------ MODULE PathMap ------------------------------
(***************************************************************************)
(* What a filesystem image promises to the script that edits it: a map from *)
(* paths to entries in which the parent of every entry is a directory. A    *)
(* step adds one entry, changes one, or removes one with all that is below  *)
(* it; a load replaces the map as a whole.                                  *)
(***************************************************************************)
EXTENDS Naturals, Sequences

CONSTANTS
  Paths,     \* sequences of path components
  Entries,   \* records with a field kind
  Images,    \* the maps of the images that can be loaded
  NoMap      \* nothing is mounted

VARIABLE map

Top == <<".">>

Parent(p) == IF Len(p) = 1 THEN Top ELSE SubSeq(p, 1, Len(p) - 1)

\* p is q or lies below it.
Under(p, q) == Len(q) <= Len(p) /\ SubSeq(p, 1, Len(q)) = q

IsDirectory(m, p) == p \in DOMAIN m /\ m[p].kind = "dir"

\* The parent of every entry is there and is a directory.
Closed(m) == /\ IsDirectory(m, Top)
             /\ \A p \in DOMAIN m : IsDirectory(m, Parent(p))

IsMap(m) == /\ m = [p \in DOMAIN m |-> m[p]]
            /\ \A p \in DOMAIN m : p \in Paths \cup {Top} /\ m[p] \in Entries
            /\ Closed(m)

----------------------------------------------------------------------------

Init == map = NoMap

\* The changes of the map m into the map n.

Mount(m, n) == n \in Images

Unmount(m, n) == n = NoMap

\* Nothing but p differs, and p has become one of Entries.
Set(m, n, p) ==
  /\ m # NoMap /\ n # NoMap
  /\ p \in DOMAIN n /\ n[p] \in Entries
  /\ n = [q \in DOMAIN m \cup {p} |-> IF q = p THEN n[p] ELSE m[q]]

Create(m, n, p) == /\ Set(m, n, p)
                   /\ p \notin DOMAIN m
                   /\ IsDirectory(m, Parent(p))

Amend(m, n, p) == /\ Set(m, n, p)
                  /\ p \in DOMAIN m
                  /\ n[p].kind = m[p].kind

Remove(m, n, p) == /\ m # NoMap /\ n # NoMap
                   /\ p \in DOMAIN m \ {Top}
                   /\ n = [q \in {r \in DOMAIN m : ~Under(r, p)} |-> m[q]]

Step(m, n) == \/ Unmount(m, n)
              \/ \E p \in Paths : Create(m, n, p) \/ Remove(m, n, p)
              \/ \E p \in Paths \cup {Top} : Amend(m, n, p)
              \/ Mount(m, n)

Next == \E m \in {map}, n \in {map'} : Step(m, n)

Spec == Init /\ [][Next]_map

=============================================================================
