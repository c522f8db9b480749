------------------------------ MODULE CpioMap ------------------------------
(***************************************************************************)
(* What editing a cpio archive promises: the archive is a map from paths to *)
(* entries, and a step changes the entries it names and no others. A path   *)
(* that ends in a slash names all entries whose path starts with it.        *)
(***************************************************************************)
EXTENDS Naturals, Sequences

CONSTANTS
  Names,   \* the paths that can be asked for
  Blank    \* the component that is empty

VARIABLE map

IsPrefix(p) == Len(p) > 1 /\ p[Len(p)] = Blank

\* The paths of m that p names.
Named(m, p) ==
  IF IsPrefix(p)
  THEN {q \in DOMAIN m : Len(q) >= Len(p) /\ SubSeq(q, 1, Len(p) - 1) = SubSeq(p, 1, Len(p) - 1)}
  ELSE {q \in DOMAIN m : q = p}

Init == \A p \in DOMAIN map : p # <<>>

\* The changes of the map m into the map n.

\* New data and nothing else.
Refill(m, n) == /\ DOMAIN n = DOMAIN m
                /\ \A q \in DOMAIN m : n[q] = [m[q] EXCEPT !.data = n[q].data]

\* Those that p names have other rights at most; a prefix gives modes to regular
\* files only.
Regraded(m, n, p, P) ==
  \A q \in P :
    IF q \notin Named(m, p) THEN n[q] = m[q]
    ELSE /\ n[q] = [m[q] EXCEPT !.perm = n[q].perm, !.user = n[q].user, !.group = n[q].group]
         /\ IsPrefix(p) /\ n[q].perm # m[q].perm => m[q].kind = "file"

\* New rights for what p names.
Rights(m, n, p) == DOMAIN n = DOMAIN m /\ Regraded(m, n, p, DOMAIN m)

\* One new entry, with an inode of its own. Its rights are given to its path, and
\* so to all others this path names.
Add(m, n) == \E p \in DOMAIN n \ DOMAIN m :
               /\ DOMAIN n = DOMAIN m \cup {p}
               /\ \A q \in DOMAIN m : n[q].ino # n[p].ino
               /\ Regraded(m, n, p, DOMAIN m)

\* A regular file is replaced: data and rights of one entry, and the rights of all
\* others its path names.
Renew(m, n, p) == /\ DOMAIN n = DOMAIN m
                  /\ p \in DOMAIN m /\ m[p].kind = "file"
                  /\ n[p].kind = "file" /\ n[p].ino = m[p].ino
                  /\ Regraded(m, n, p, DOMAIN m \ {p})

Remove(m, n, P) == n = [q \in DOMAIN m \ P |-> m[q]]

Step(m, n) == \/ Add(m, n)
              \/ Refill(m, n)
              \/ \E p \in Names : Rights(m, n, p)
              \/ \E p \in DOMAIN m : Renew(m, n, p)
              \/ \E p \in Names : Remove(m, n, {q \in DOMAIN m : q = p}) \/ Remove(m, n, Named(m, p))
              \/ Remove(m, n, {q \in DOMAIN m : q # <<".">>})

Next == Step(map, map')

Spec == Init /\ [][Next]_map

=============================================================================
