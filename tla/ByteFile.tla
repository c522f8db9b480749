------------------------------ MODULE ByteFile ------------------------------
(***************************************************************************)
(* What an open file promises: a sequence of bytes, and for each handle a   *)
(* position where the next read or write begins.                            *)
(***************************************************************************)
EXTENDS Integers, Sequences

CONSTANTS
  Handles,
  Payloads   \* the sequences a caller may write

VARIABLES file, pos, link

vars == <<file, pos, link>>

Smaller(m, n) == IF m < n THEN m ELSE n

\* f with d put at offset `at`, longer if d ends past its end.
Overwritten(f, at, d) ==
  SubSeq(f, 1, at) \o d \o SubSeq(f, at + Len(d) + 1, Len(f))

Init == file \in Seq(Int) /\ pos = [h \in Handles |-> 0] /\ link \in BOOLEAN

\* The first n bytes of a payload get in, all of them unless the device is full.
Write(h) ==
  \E d \in Payloads : \E n \in 0 .. Len(d) :
    /\ file' = Overwritten(file, pos[h], SubSeq(d, 1, n))
    /\ pos' = [pos EXCEPT ![h] = @ + n]

\* Reading and seeking.
Move(h) == \E p \in 0 .. Len(file) : pos' = [pos EXCEPT ![h] = p] /\ UNCHANGED file

Cut(h, n) ==
  /\ file' = SubSeq(file, 1, n)
  /\ pos' = [pos EXCEPT ![h] = Smaller(@, n)]

\* The file is opened, again or not, cut to nothing or not.
Reopen(h) ==
  /\ file' \in {file, <<>>}
  /\ pos' \in {[pos EXCEPT ![h] = p] : p \in {0, Len(file')}}

\* It is removed, or the power failed while it was being cut: no handle is left.
Restart ==
  /\ \E n \in 0 .. Len(file) : file' = SubSeq(file, 1, n)
  /\ pos' = [h \in Handles |-> 0]

\* A symbolic link gets a target, or none when the device is full.
Replace == link /\ file' \in Payloads \cup {<<>>} /\ UNCHANGED pos

Next ==
  /\ UNCHANGED link
  /\ \/ Restart \/ Replace
     \/ \E h \in Handles : \/ Write(h) \/ Move(h) \/ Reopen(h)
                           \/ \E n \in 0 .. Len(file) : Cut(h, n)

Spec == Init /\ [][Next]_vars
=============================================================================
