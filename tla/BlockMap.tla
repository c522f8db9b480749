------------------------------ MODULE BlockMap ------------------------------
(***************************************************************************)
(* What the block tree of a file promises, whatever its form on disk: a map *)
(* from the logical blocks of the file to physical blocks, where a block is *)
(* written, reserved but unwritten, or a hole; and what each call may do to *)
(* it, by the answer it gives.                                              *)
(***************************************************************************)
EXTENDS Integers

CONSTANTS
  Logical,    \* the logical blocks of the file
  Physical,   \* the physical blocks of the device
  Ends,       \* where ranges given back end
  Hole        \* no physical block

Place == {Hole} \cup [p : Physical, written : BOOLEAN]

VARIABLES
  map,
  call        \* the last call with its range, and err, its answer

\* No physical block is used for two logical ones.
Init ==
  /\ map \in [Logical -> Place]
  /\ \A a, b \in Logical : a # b /\ map[a] # Hole /\ map[b] # Hole => map[a].p # map[b].p
  /\ call = [call |-> "none", err |-> "EOK"]

\* A block of the file is about to be written: a hole gets a physical block
\* nothing else has, a reserved block stays where it is.
Provide(b) ==
  /\ call' = [call |-> "write", b |-> b, err |-> "EOK"]
  /\ \E p \in Physical :
       /\ IF map[b] = Hole THEN \A a \in Logical : map[a] # Hole => map[a].p # p
                           ELSE map[b].p = p
       /\ map' = [map EXCEPT ![b] = [p |-> p, written |-> TRUE]]

\* The blocks from `from` on, up to `to`, are given back; a range that begins in
\* a hole may be left alone.
Release(from, to) ==
  /\ call' = [call |-> "remove", from |-> from, to |-> to, err |-> "EOK"]
  /\ \/ map' = [b \in Logical |-> IF b < from \/ to < b THEN map[b] ELSE Hole]
     \/ map[from] = Hole /\ map' = map

\* A call that fails changes nothing.
Fail == call'.err # "EOK" /\ map' = map

Next == \/ \E b \in Logical : Provide(b)
        \/ \E from \in Logical, to \in Ends : Release(from, to)
        \/ Fail

Spec == Init /\ [][Next]_<<map, call>>
=============================================================================
