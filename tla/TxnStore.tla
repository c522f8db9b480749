------------------------------ MODULE TxnStore ------------------------------
(***************************************************************************)
(* What a journal promises: a store whose contents change by transactions.  *)
(* Whatever the program is doing when it dies, the next start finds the     *)
(* contents the last finished transaction left, or those of the one being   *)
(* committed; and a commit that returned is never undone.                   *)
(***************************************************************************)
CONSTANT States         \* the contents the store may have

VARIABLES
  stable,   \* what a start after a crash would find
  working,  \* what the running program sees
  phase     \* "down", "idle", "txn" or "busy" with writes

vars == <<stable, working, phase>>

Init == phase = "down" /\ stable \in States /\ working = stable

\* The program starts; it sees what is stable.
Start == phase = "down" /\ phase' \in {"busy", "idle"} /\ UNCHANGED <<stable, working>>

\* Within a transaction the program changes what it sees, and nothing else.
Begin == phase = "idle" /\ phase' = "txn" /\ UNCHANGED <<stable, working>>
Change == phase = "txn" /\ working' \in States /\ UNCHANGED <<stable, phase>>

\* The transaction ends: its changes are kept or given up.
Commit == phase = "txn" /\ phase' \in {"busy", "idle"} /\ UNCHANGED <<stable, working>>
Abort == phase = "txn" /\ phase' \in {"busy", "idle"} /\ working' = stable /\ UNCHANGED stable

\* At one moment of a commit the changes become stable, all of them.
Land == phase \in {"busy", "idle"} /\ stable' = working /\ UNCHANGED <<working, phase>>

\* What it does besides commits: the cache and the journal are written back.
Work == phase = "idle" /\ phase' = "busy" /\ UNCHANGED <<stable, working>>

\* Nothing returns before what it commits is stable.
Return == phase = "busy" /\ stable' = working /\ phase' = "idle" /\ UNCHANGED working

Stop == phase = "idle" /\ phase' = "down" /\ UNCHANGED <<stable, working>>

\* Power is lost: the program's view goes.
Crash == phase' = "down" /\ working' = stable /\ UNCHANGED stable

Next == Start \/ Begin \/ Change \/ Commit \/ Abort \/ Land \/ Work \/ Return \/ Stop \/ Crash

Spec == Init /\ [][Next]_vars
=============================================================================
