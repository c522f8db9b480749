------------------------------- MODULE Lists -------------------------------
(***************************************************************************)
(* Lists as the code uses them: List<T> of .NET.                            *)
(***************************************************************************)
EXTENDS Naturals, Sequences, FiniteSets

\* What List.RemoveAll leaves of s when the elements at the positions K stay, in
\* their order: the set of that one sequence.
Selections(s, K) ==
  {[k \in DOMAIN f |-> s[f[k]]] :
     f \in {g \in [1 .. Cardinality(K) -> K] :
              \A i, j \in DOMAIN g : i < j => g[i] < g[j]}}

\* A loop over list q: Do turns what it has into what it has after an element.
ForEach(Do(_, _), from, q) ==
  LET after[n \in 0 .. Len(q)] == IF n = 0 THEN from ELSE Do(after[n - 1], q[n])
  IN after[Len(q)]

=============================================================================
