-------------------------- MODULE Ext4Journal_proofs --------------------------
(***************************************************************************)
(* Proof that the records of journaled blocks, the transactions and the     *)
(* callbacks of the buffers stay linked, for any number of blocks, any      *)
(* cache mode and any length of the journal.                                *)
(***************************************************************************)
EXTENDS Ext4Journal, TLAPS, SequenceTheorems, FiniteSetTheorems, WellFoundedInduction

----------------------------------------------------------------------------
(* Numbers and loops *)

LEMMA AllNumbers ==
  ASSUME NEW S, 0 \in S, \A n \in Nat : n \in S => n + 1 \in S
  PROVE  \A n \in Nat : n \in S
<1> DEFINE T == {n \in Nat : n \notin S}
<1>1. SUFFICES ASSUME T # {} PROVE FALSE
  OBVIOUS
<1>2. PICK least \in T : \A j \in T : ~ (<<j, least>> \in OpToRel(<, Nat))
  BY <1>1, NatLessThanWellFounded, WFMin
<1>3. least \in Nat /\ least \notin S /\ least # 0
  BY <1>2
<1>4. least - 1 \in Nat /\ least - 1 + 1 = least /\ least - 1 < least
  BY <1>3
<1>5. least - 1 \in S
  BY <1>2, <1>4 DEF OpToRel
<1> QED
  BY <1>3, <1>4, <1>5

\* What holds before a loop and is kept by each of its n turns holds after it.
LEMMA AllTurns ==
  ASSUME NEW n \in Nat, NEW S, 0 \in S, \A i \in 1 .. n : i - 1 \in S => i \in S
  PROVE  n \in S
<1> DEFINE T == {k \in Nat : k <= n => k \in S}
<1>1. 0 \in T
  OBVIOUS
<1>2. ASSUME NEW k \in Nat, k \in T PROVE k + 1 \in T
  <2>1. k + 1 <= n => k + 1 \in 1 .. n /\ k + 1 - 1 = k /\ k <= n
    OBVIOUS
  <2> QED
    BY <1>2, <2>1
<1> HIDE DEF T
<1>3. n \in T
  BY <1>1, <1>2, AllNumbers
<1> QED
  BY <1>3 DEF T

LEMMA PlacesUpTo ==
  ASSUME NEW n \in Nat
  PROVE  /\ \A i \in 0 .. n + 1 : \/ i = n + 1 \/ i = 0
                                  \/ i \in 0 .. n /\ i - 1 \in 0 .. n /\ i - 1 \in 0 .. n + 1
         /\ \A i \in 0 .. n : i # n + 1
         /\ n \in 0 .. n /\ n + 1 - 1 = n /\ n + 1 # 0 /\ n \in 0 .. n + 1 /\ 0 \in 0 .. n
OBVIOUS

\* What each loop of the journal has after each of its turns: a recursive
\* function, which exists.
PurgedHeads(s, q, n, f) == f = [i \in 0 .. n |-> IF i = 0 THEN s ELSE PurgeHead(f[i - 1], q[i])]
AllPurgeHead(s, q) == ForEach(PurgeHead, s, q)

LEMMA PurgeHeadSteps ==
  ASSUME NEW s, NEW q, Len(q) \in Nat
  PROVE  \E f : /\ f[0] = s /\ AllPurgeHead(s, q) = f[Len(q)]
                /\ \A i \in 1 .. Len(q) : f[i] = PurgeHead(f[i - 1], q[i])
<1> DEFINE S == {n \in Nat : \E f : PurgedHeads(s, q, n, f)}
<1>1. 0 \in S
  <2> DEFINE f == [i \in 0 .. 0 |-> s]
  <2>1. PurgedHeads(s, q, 0, f)
    BY DEF PurgedHeads
  <2> QED
    BY <2>1
<1>2. ASSUME NEW n \in Nat, n \in S PROVE n + 1 \in S
  <2>1. PICK f : PurgedHeads(s, q, n, f)
    BY <1>2
  <2> DEFINE g == [i \in 0 .. n + 1 |-> IF i = n + 1 THEN PurgeHead(f[n], q[i]) ELSE f[i]]
  <2>2. \A i \in 0 .. n : f[i] = IF i = 0 THEN s ELSE PurgeHead(f[i - 1], q[i])
    BY <2>1 DEF PurgedHeads
  <2>3. \A i \in 0 .. n + 1 : g[i] = IF i = 0 THEN s ELSE PurgeHead(g[i - 1], q[i])
    BY <2>2, PlacesUpTo
  <2>4. g = [i \in 0 .. n + 1 |-> g[i]]
    OBVIOUS
  <2>5. PurgedHeads(s, q, n + 1, g)
    BY <2>3, <2>4 DEF PurgedHeads
  <2> QED
    BY <2>5
<1> HIDE DEF S
<1>3. Len(q) \in S
  BY <1>1, <1>2, AllNumbers
<1> DEFINE f == CHOOSE g : PurgedHeads(s, q, Len(q), g)
<1>4. PurgedHeads(s, q, Len(q), f)
  BY <1>3 DEF S
<1>5. AllPurgeHead(s, q) = f[Len(q)]
  BY DEF AllPurgeHead, ForEach, PurgedHeads
<1> HIDE DEF f
<1>6. \A i \in 0 .. Len(q) : f[i] = IF i = 0 THEN s ELSE PurgeHead(f[i - 1], q[i])
  BY <1>4 DEF PurgedHeads
<1> QED
  BY <1>5, <1>6

EndedOlders(s, q, n, f) == f = [i \in 0 .. n |-> IF i = 0 THEN s ELSE EndOlder(f[i - 1], q[i])]
AllEndOlder(s, q) == ForEach(EndOlder, s, q)

LEMMA EndOlderSteps ==
  ASSUME NEW s, NEW q, Len(q) \in Nat
  PROVE  \E f : /\ f[0] = s /\ AllEndOlder(s, q) = f[Len(q)]
                /\ \A i \in 1 .. Len(q) : f[i] = EndOlder(f[i - 1], q[i])
<1> DEFINE S == {n \in Nat : \E f : EndedOlders(s, q, n, f)}
<1>1. 0 \in S
  <2> DEFINE f == [i \in 0 .. 0 |-> s]
  <2>1. EndedOlders(s, q, 0, f)
    BY DEF EndedOlders
  <2> QED
    BY <2>1
<1>2. ASSUME NEW n \in Nat, n \in S PROVE n + 1 \in S
  <2>1. PICK f : EndedOlders(s, q, n, f)
    BY <1>2
  <2> DEFINE g == [i \in 0 .. n + 1 |-> IF i = n + 1 THEN EndOlder(f[n], q[i]) ELSE f[i]]
  <2>2. \A i \in 0 .. n : f[i] = IF i = 0 THEN s ELSE EndOlder(f[i - 1], q[i])
    BY <2>1 DEF EndedOlders
  <2>3. \A i \in 0 .. n + 1 : g[i] = IF i = 0 THEN s ELSE EndOlder(g[i - 1], q[i])
    BY <2>2, PlacesUpTo
  <2>4. g = [i \in 0 .. n + 1 |-> g[i]]
    OBVIOUS
  <2>5. EndedOlders(s, q, n + 1, g)
    BY <2>3, <2>4 DEF EndedOlders
  <2> QED
    BY <2>5
<1> HIDE DEF S
<1>3. Len(q) \in S
  BY <1>1, <1>2, AllNumbers
<1> DEFINE f == CHOOSE g : EndedOlders(s, q, Len(q), g)
<1>4. EndedOlders(s, q, Len(q), f)
  BY <1>3 DEF S
<1>5. AllEndOlder(s, q) = f[Len(q)]
  BY DEF AllEndOlder, ForEach, EndedOlders
<1> HIDE DEF f
<1>6. \A i \in 0 .. Len(q) : f[i] = IF i = 0 THEN s ELSE EndOlder(f[i - 1], q[i])
  BY <1>4 DEF EndedOlders
<1> QED
  BY <1>5, <1>6

FlushedOnes(s, q, n, f) == f = [i \in 0 .. n |-> IF i = 0 THEN s ELSE FlushOne(f[i - 1], q[i])]
AllFlushOne(s, q) == ForEach(FlushOne, s, q)

FlushOneRun(s, q, f) == /\ f[0] = s /\ AllFlushOne(s, q) = f[Len(q)]
                        /\ \A i \in 1 .. Len(q) : f[i] = FlushOne(f[i - 1], q[i])

LEMMA FlushOneSteps ==
  ASSUME NEW s, NEW q, Len(q) \in Nat
  PROVE  \E f : FlushOneRun(s, q, f)
<1> DEFINE S == {n \in Nat : \E f : FlushedOnes(s, q, n, f)}
<1>1. 0 \in S
  <2> DEFINE f == [i \in 0 .. 0 |-> s]
  <2>1. FlushedOnes(s, q, 0, f)
    BY DEF FlushedOnes
  <2> QED
    BY <2>1
<1>2. ASSUME NEW n \in Nat, n \in S PROVE n + 1 \in S
  <2>1. PICK f : FlushedOnes(s, q, n, f)
    BY <1>2
  <2> DEFINE g == [i \in 0 .. n + 1 |-> IF i = n + 1 THEN FlushOne(f[n], q[i]) ELSE f[i]]
  <2>2. \A i \in 0 .. n : f[i] = IF i = 0 THEN s ELSE FlushOne(f[i - 1], q[i])
    BY <2>1 DEF FlushedOnes
  <2>3. \A i \in 0 .. n + 1 : g[i] = IF i = 0 THEN s ELSE FlushOne(g[i - 1], q[i])
    BY <2>2, PlacesUpTo
  <2>4. g = [i \in 0 .. n + 1 |-> g[i]]
    OBVIOUS
  <2>5. FlushedOnes(s, q, n + 1, g)
    BY <2>3, <2>4 DEF FlushedOnes
  <2> QED
    BY <2>5
<1> HIDE DEF S
<1>3. Len(q) \in S
  BY <1>1, <1>2, AllNumbers
<1> DEFINE f == CHOOSE g : FlushedOnes(s, q, Len(q), g)
<1>4. FlushedOnes(s, q, Len(q), f)
  BY <1>3 DEF S
<1>5. AllFlushOne(s, q) = f[Len(q)]
  BY DEF AllFlushOne, ForEach, FlushedOnes
<1> HIDE DEF f
<1>6. \A i \in 0 .. Len(q) : f[i] = IF i = 0 THEN s ELSE FlushOne(f[i - 1], q[i])
  BY <1>4 DEF FlushedOnes
<1> QED
  BY <1>3, <1>4, <1>5, <1>6 DEF FlushOneRun, FlushedOnes

PurgedTwice(s, q, n, f) == f = [i \in 0 .. n |-> IF i = 0 THEN s ELSE PurgeTwice(f[i - 1], q[i])]
AllPurgeTwice(s, q) == ForEach(PurgeTwice, s, q)

LEMMA PurgeTwiceSteps ==
  ASSUME NEW s, NEW q, Len(q) \in Nat
  PROVE  \E f : /\ f[0] = s /\ AllPurgeTwice(s, q) = f[Len(q)]
                /\ \A i \in 1 .. Len(q) : f[i] = PurgeTwice(f[i - 1], q[i])
<1> DEFINE S == {n \in Nat : \E f : PurgedTwice(s, q, n, f)}
<1>1. 0 \in S
  <2> DEFINE f == [i \in 0 .. 0 |-> s]
  <2>1. PurgedTwice(s, q, 0, f)
    BY DEF PurgedTwice
  <2> QED
    BY <2>1
<1>2. ASSUME NEW n \in Nat, n \in S PROVE n + 1 \in S
  <2>1. PICK f : PurgedTwice(s, q, n, f)
    BY <1>2
  <2> DEFINE g == [i \in 0 .. n + 1 |-> IF i = n + 1 THEN PurgeTwice(f[n], q[i]) ELSE f[i]]
  <2>2. \A i \in 0 .. n : f[i] = IF i = 0 THEN s ELSE PurgeTwice(f[i - 1], q[i])
    BY <2>1 DEF PurgedTwice
  <2>3. \A i \in 0 .. n + 1 : g[i] = IF i = 0 THEN s ELSE PurgeTwice(g[i - 1], q[i])
    BY <2>2, PlacesUpTo
  <2>4. g = [i \in 0 .. n + 1 |-> g[i]]
    OBVIOUS
  <2>5. PurgedTwice(s, q, n + 1, g)
    BY <2>3, <2>4 DEF PurgedTwice
  <2> QED
    BY <2>5
<1> HIDE DEF S
<1>3. Len(q) \in S
  BY <1>1, <1>2, AllNumbers
<1> DEFINE f == CHOOSE g : PurgedTwice(s, q, Len(q), g)
<1>4. PurgedTwice(s, q, Len(q), f)
  BY <1>3 DEF S
<1>5. AllPurgeTwice(s, q) = f[Len(q)]
  BY DEF AllPurgeTwice, ForEach, PurgedTwice
<1> HIDE DEF f
<1>6. \A i \in 0 .. Len(q) : f[i] = IF i = 0 THEN s ELSE PurgeTwice(f[i - 1], q[i])
  BY <1>4 DEF PurgedTwice
<1> QED
  BY <1>5, <1>6

Undone(s, q, n, f) == f = [i \in 0 .. n |-> IF i = 0 THEN s ELSE Undo(f[i - 1], q[i])]
AllUndo(s, q) == ForEach(Undo, s, q)

UndoRun(s, q, f) == /\ f[0] = s /\ AllUndo(s, q) = f[Len(q)]
                    /\ \A i \in 1 .. Len(q) : f[i] = Undo(f[i - 1], q[i])

LEMMA UndoSteps ==
  ASSUME NEW s, NEW q, Len(q) \in Nat
  PROVE  \E f : UndoRun(s, q, f)
<1> DEFINE S == {n \in Nat : \E f : Undone(s, q, n, f)}
<1>1. 0 \in S
  <2> DEFINE f == [i \in 0 .. 0 |-> s]
  <2>1. Undone(s, q, 0, f)
    BY DEF Undone
  <2> QED
    BY <2>1
<1>2. ASSUME NEW n \in Nat, n \in S PROVE n + 1 \in S
  <2>1. PICK f : Undone(s, q, n, f)
    BY <1>2
  <2> DEFINE g == [i \in 0 .. n + 1 |-> IF i = n + 1 THEN Undo(f[n], q[i]) ELSE f[i]]
  <2>2. \A i \in 0 .. n : f[i] = IF i = 0 THEN s ELSE Undo(f[i - 1], q[i])
    BY <2>1 DEF Undone
  <2>3. \A i \in 0 .. n + 1 : g[i] = IF i = 0 THEN s ELSE Undo(g[i - 1], q[i])
    BY <2>2, PlacesUpTo
  <2>4. g = [i \in 0 .. n + 1 |-> g[i]]
    OBVIOUS
  <2>5. Undone(s, q, n + 1, g)
    BY <2>3, <2>4 DEF Undone
  <2> QED
    BY <2>5
<1> HIDE DEF S
<1>3. Len(q) \in S
  BY <1>1, <1>2, AllNumbers
<1> DEFINE f == CHOOSE g : Undone(s, q, Len(q), g)
<1>4. Undone(s, q, Len(q), f)
  BY <1>3 DEF S
<1>5. AllUndo(s, q) = f[Len(q)]
  BY DEF AllUndo, ForEach, Undone
<1> HIDE DEF f
<1>6. \A i \in 0 .. Len(q) : f[i] = IF i = 0 THEN s ELSE Undo(f[i - 1], q[i])
  BY <1>4 DEF Undone
<1> QED
  BY <1>3, <1>4, <1>5, <1>6 DEF UndoRun, Undone

DroppedAtTail(s, q, n, f) == f = [i \in 0 .. n |-> IF i = 0 THEN s ELSE DropAtTail(f[i - 1], q[i])]
AllDropAtTail(s, q) == ForEach(DropAtTail, s, q)

DropAtTailRun(s, q, f) == /\ f[0] = s /\ AllDropAtTail(s, q) = f[Len(q)]
                          /\ \A i \in 1 .. Len(q) : f[i] = DropAtTail(f[i - 1], q[i])

LEMMA DropAtTailSteps ==
  ASSUME NEW s, NEW q, Len(q) \in Nat
  PROVE  \E f : DropAtTailRun(s, q, f)
<1> DEFINE S == {n \in Nat : \E f : DroppedAtTail(s, q, n, f)}
<1>1. 0 \in S
  <2> DEFINE f == [i \in 0 .. 0 |-> s]
  <2>1. DroppedAtTail(s, q, 0, f)
    BY DEF DroppedAtTail
  <2> QED
    BY <2>1
<1>2. ASSUME NEW n \in Nat, n \in S PROVE n + 1 \in S
  <2>1. PICK f : DroppedAtTail(s, q, n, f)
    BY <1>2
  <2> DEFINE g == [i \in 0 .. n + 1 |-> IF i = n + 1 THEN DropAtTail(f[n], q[i]) ELSE f[i]]
  <2>2. \A i \in 0 .. n : f[i] = IF i = 0 THEN s ELSE DropAtTail(f[i - 1], q[i])
    BY <2>1 DEF DroppedAtTail
  <2>3. \A i \in 0 .. n + 1 : g[i] = IF i = 0 THEN s ELSE DropAtTail(g[i - 1], q[i])
    BY <2>2, PlacesUpTo
  <2>4. g = [i \in 0 .. n + 1 |-> g[i]]
    OBVIOUS
  <2>5. DroppedAtTail(s, q, n + 1, g)
    BY <2>3, <2>4 DEF DroppedAtTail
  <2> QED
    BY <2>5
<1> HIDE DEF S
<1>3. Len(q) \in S
  BY <1>1, <1>2, AllNumbers
<1> DEFINE f == CHOOSE g : DroppedAtTail(s, q, Len(q), g)
<1>4. DroppedAtTail(s, q, Len(q), f)
  BY <1>3 DEF S
<1>5. AllDropAtTail(s, q) = f[Len(q)]
  BY DEF AllDropAtTail, ForEach, DroppedAtTail
<1> HIDE DEF f
<1>6. \A i \in 0 .. Len(q) : f[i] = IF i = 0 THEN s ELSE DropAtTail(f[i - 1], q[i])
  BY <1>4 DEF DroppedAtTail
<1> QED
  BY <1>3, <1>4, <1>5, <1>6 DEF DropAtTailRun, DroppedAtTail

LoggedBuffers(s, q, n, f) == f = [i \in 0 .. n |-> IF i = 0 THEN s ELSE LogBuffer(f[i - 1], q[i])]
AllLogBuffer(s, q) == ForEach(LogBuffer, s, q)

LogBufferRun(s, q, f) == /\ f[0] = s /\ AllLogBuffer(s, q) = f[Len(q)]
                         /\ \A i \in 1 .. Len(q) : f[i] = LogBuffer(f[i - 1], q[i])

LEMMA LogBufferSteps ==
  ASSUME NEW s, NEW q, Len(q) \in Nat
  PROVE  \E f : LogBufferRun(s, q, f)
<1> DEFINE S == {n \in Nat : \E f : LoggedBuffers(s, q, n, f)}
<1>1. 0 \in S
  <2> DEFINE f == [i \in 0 .. 0 |-> s]
  <2>1. LoggedBuffers(s, q, 0, f)
    BY DEF LoggedBuffers
  <2> QED
    BY <2>1
<1>2. ASSUME NEW n \in Nat, n \in S PROVE n + 1 \in S
  <2>1. PICK f : LoggedBuffers(s, q, n, f)
    BY <1>2
  <2> DEFINE g == [i \in 0 .. n + 1 |-> IF i = n + 1 THEN LogBuffer(f[n], q[i]) ELSE f[i]]
  <2>2. \A i \in 0 .. n : f[i] = IF i = 0 THEN s ELSE LogBuffer(f[i - 1], q[i])
    BY <2>1 DEF LoggedBuffers
  <2>3. \A i \in 0 .. n + 1 : g[i] = IF i = 0 THEN s ELSE LogBuffer(g[i - 1], q[i])
    BY <2>2, PlacesUpTo
  <2>4. g = [i \in 0 .. n + 1 |-> g[i]]
    OBVIOUS
  <2>5. LoggedBuffers(s, q, n + 1, g)
    BY <2>3, <2>4 DEF LoggedBuffers
  <2> QED
    BY <2>5
<1> HIDE DEF S
<1>3. Len(q) \in S
  BY <1>1, <1>2, AllNumbers
<1> DEFINE f == CHOOSE g : LoggedBuffers(s, q, Len(q), g)
<1>4. LoggedBuffers(s, q, Len(q), f)
  BY <1>3 DEF S
<1>5. AllLogBuffer(s, q) = f[Len(q)]
  BY DEF AllLogBuffer, ForEach, LoggedBuffers
<1> HIDE DEF f
<1>6. \A i \in 0 .. Len(q) : f[i] = IF i = 0 THEN s ELSE LogBuffer(f[i - 1], q[i])
  BY <1>4 DEF LoggedBuffers
<1> QED
  BY <1>3, <1>4, <1>5, <1>6 DEF LogBufferRun, LoggedBuffers

LoggedRevokes(s, q, n, f) == f = [i \in 0 .. n |-> IF i = 0 THEN s ELSE LogRevokes(f[i - 1], q[i])]
AllLogRevokes(s, q) == ForEach(LogRevokes, s, q)

LogRevokesRun(s, q, f) == /\ f[0] = s /\ AllLogRevokes(s, q) = f[Len(q)]
                          /\ \A i \in 1 .. Len(q) : f[i] = LogRevokes(f[i - 1], q[i])

LEMMA LogRevokesSteps ==
  ASSUME NEW s, NEW q, Len(q) \in Nat
  PROVE  \E f : LogRevokesRun(s, q, f)
<1> DEFINE S == {n \in Nat : \E f : LoggedRevokes(s, q, n, f)}
<1>1. 0 \in S
  <2> DEFINE f == [i \in 0 .. 0 |-> s]
  <2>1. LoggedRevokes(s, q, 0, f)
    BY DEF LoggedRevokes
  <2> QED
    BY <2>1
<1>2. ASSUME NEW n \in Nat, n \in S PROVE n + 1 \in S
  <2>1. PICK f : LoggedRevokes(s, q, n, f)
    BY <1>2
  <2> DEFINE g == [i \in 0 .. n + 1 |-> IF i = n + 1 THEN LogRevokes(f[n], q[i]) ELSE f[i]]
  <2>2. \A i \in 0 .. n : f[i] = IF i = 0 THEN s ELSE LogRevokes(f[i - 1], q[i])
    BY <2>1 DEF LoggedRevokes
  <2>3. \A i \in 0 .. n + 1 : g[i] = IF i = 0 THEN s ELSE LogRevokes(g[i - 1], q[i])
    BY <2>2, PlacesUpTo
  <2>4. g = [i \in 0 .. n + 1 |-> g[i]]
    OBVIOUS
  <2>5. LoggedRevokes(s, q, n + 1, g)
    BY <2>3, <2>4 DEF LoggedRevokes
  <2> QED
    BY <2>5
<1> HIDE DEF S
<1>3. Len(q) \in S
  BY <1>1, <1>2, AllNumbers
<1> DEFINE f == CHOOSE g : LoggedRevokes(s, q, Len(q), g)
<1>4. LoggedRevokes(s, q, Len(q), f)
  BY <1>3 DEF S
<1>5. AllLogRevokes(s, q) = f[Len(q)]
  BY DEF AllLogRevokes, ForEach, LoggedRevokes
<1> HIDE DEF f
<1>6. \A i \in 0 .. Len(q) : f[i] = IF i = 0 THEN s ELSE LogRevokes(f[i - 1], q[i])
  BY <1>4 DEF LoggedRevokes
<1> QED
  BY <1>3, <1>4, <1>5, <1>6 DEF LogRevokesRun, LoggedRevokes

EndedLasts(s, q, n, f) == f = [i \in 0 .. n |-> IF i = 0 THEN s ELSE EndLast(f[i - 1], q[i])]
AllEndLast(s, q) == ForEach(EndLast, s, q)

EndLastRun(s, q, f) == /\ f[0] = s /\ AllEndLast(s, q) = f[Len(q)]
                       /\ \A i \in 1 .. Len(q) : f[i] = EndLast(f[i - 1], q[i])

LEMMA EndLastSteps ==
  ASSUME NEW s, NEW q, Len(q) \in Nat
  PROVE  \E f : EndLastRun(s, q, f)
<1> DEFINE S == {n \in Nat : \E f : EndedLasts(s, q, n, f)}
<1>1. 0 \in S
  <2> DEFINE f == [i \in 0 .. 0 |-> s]
  <2>1. EndedLasts(s, q, 0, f)
    BY DEF EndedLasts
  <2> QED
    BY <2>1
<1>2. ASSUME NEW n \in Nat, n \in S PROVE n + 1 \in S
  <2>1. PICK f : EndedLasts(s, q, n, f)
    BY <1>2
  <2> DEFINE g == [i \in 0 .. n + 1 |-> IF i = n + 1 THEN EndLast(f[n], q[i]) ELSE f[i]]
  <2>2. \A i \in 0 .. n : f[i] = IF i = 0 THEN s ELSE EndLast(f[i - 1], q[i])
    BY <2>1 DEF EndedLasts
  <2>3. \A i \in 0 .. n + 1 : g[i] = IF i = 0 THEN s ELSE EndLast(g[i - 1], q[i])
    BY <2>2, PlacesUpTo
  <2>4. g = [i \in 0 .. n + 1 |-> g[i]]
    OBVIOUS
  <2>5. EndedLasts(s, q, n + 1, g)
    BY <2>3, <2>4 DEF EndedLasts
  <2> QED
    BY <2>5
<1> HIDE DEF S
<1>3. Len(q) \in S
  BY <1>1, <1>2, AllNumbers
<1> DEFINE f == CHOOSE g : EndedLasts(s, q, Len(q), g)
<1>4. EndedLasts(s, q, Len(q), f)
  BY <1>3 DEF S
<1>5. AllEndLast(s, q) = f[Len(q)]
  BY DEF AllEndLast, ForEach, EndedLasts
<1> HIDE DEF f
<1>6. \A i \in 0 .. Len(q) : f[i] = IF i = 0 THEN s ELSE EndLast(f[i - 1], q[i])
  BY <1>4 DEF EndedLasts
<1> QED
  BY <1>3, <1>4, <1>5, <1>6 DEF EndLastRun, EndedLasts

PutBufs(s, q, n, f) == f = [i \in 0 .. n |-> IF i = 0 THEN s ELSE PutBuf(f[i - 1], q[i])]
AllPutBuf(s, q) == ForEach(PutBuf, s, q)

PutBufRun(s, q, f) == /\ f[0] = s /\ AllPutBuf(s, q) = f[Len(q)]
                      /\ \A i \in 1 .. Len(q) : f[i] = PutBuf(f[i - 1], q[i])

LEMMA PutBufSteps ==
  ASSUME NEW s, NEW q, Len(q) \in Nat
  PROVE  \E f : PutBufRun(s, q, f)
<1> DEFINE S == {n \in Nat : \E f : PutBufs(s, q, n, f)}
<1>1. 0 \in S
  <2> DEFINE f == [i \in 0 .. 0 |-> s]
  <2>1. PutBufs(s, q, 0, f)
    BY DEF PutBufs
  <2> QED
    BY <2>1
<1>2. ASSUME NEW n \in Nat, n \in S PROVE n + 1 \in S
  <2>1. PICK f : PutBufs(s, q, n, f)
    BY <1>2
  <2> DEFINE g == [i \in 0 .. n + 1 |-> IF i = n + 1 THEN PutBuf(f[n], q[i]) ELSE f[i]]
  <2>2. \A i \in 0 .. n : f[i] = IF i = 0 THEN s ELSE PutBuf(f[i - 1], q[i])
    BY <2>1 DEF PutBufs
  <2>3. \A i \in 0 .. n + 1 : g[i] = IF i = 0 THEN s ELSE PutBuf(g[i - 1], q[i])
    BY <2>2, PlacesUpTo
  <2>4. g = [i \in 0 .. n + 1 |-> g[i]]
    OBVIOUS
  <2>5. PutBufs(s, q, n + 1, g)
    BY <2>3, <2>4 DEF PutBufs
  <2> QED
    BY <2>5
<1> HIDE DEF S
<1>3. Len(q) \in S
  BY <1>1, <1>2, AllNumbers
<1> DEFINE f == CHOOSE g : PutBufs(s, q, Len(q), g)
<1>4. PutBufs(s, q, Len(q), f)
  BY <1>3 DEF S
<1>5. AllPutBuf(s, q) = f[Len(q)]
  BY DEF AllPutBuf, ForEach, PutBufs
<1> HIDE DEF f
<1>6. \A i \in 0 .. Len(q) : f[i] = IF i = 0 THEN s ELSE PutBuf(f[i - 1], q[i])
  BY <1>4 DEF PutBufs
<1> QED
  BY <1>3, <1>4, <1>5, <1>6 DEF PutBufRun, PutBufs

FlushedBufs(s, q, n, f) == f = [i \in 0 .. n |-> IF i = 0 THEN s ELSE FlushBuf(f[i - 1], q[i])]
AllFlushBuf(s, q) == ForEach(FlushBuf, s, q)

FlushBufRun(s, q, f) == /\ f[0] = s /\ AllFlushBuf(s, q) = f[Len(q)]
                        /\ \A i \in 1 .. Len(q) : f[i] = FlushBuf(f[i - 1], q[i])

LEMMA FlushBufSteps ==
  ASSUME NEW s, NEW q, Len(q) \in Nat
  PROVE  \E f : FlushBufRun(s, q, f)
<1> DEFINE S == {n \in Nat : \E f : FlushedBufs(s, q, n, f)}
<1>1. 0 \in S
  <2> DEFINE f == [i \in 0 .. 0 |-> s]
  <2>1. FlushedBufs(s, q, 0, f)
    BY DEF FlushedBufs
  <2> QED
    BY <2>1
<1>2. ASSUME NEW n \in Nat, n \in S PROVE n + 1 \in S
  <2>1. PICK f : FlushedBufs(s, q, n, f)
    BY <1>2
  <2> DEFINE g == [i \in 0 .. n + 1 |-> IF i = n + 1 THEN FlushBuf(f[n], q[i]) ELSE f[i]]
  <2>2. \A i \in 0 .. n : f[i] = IF i = 0 THEN s ELSE FlushBuf(f[i - 1], q[i])
    BY <2>1 DEF FlushedBufs
  <2>3. \A i \in 0 .. n + 1 : g[i] = IF i = 0 THEN s ELSE FlushBuf(g[i - 1], q[i])
    BY <2>2, PlacesUpTo
  <2>4. g = [i \in 0 .. n + 1 |-> g[i]]
    OBVIOUS
  <2>5. FlushedBufs(s, q, n + 1, g)
    BY <2>3, <2>4 DEF FlushedBufs
  <2> QED
    BY <2>5
<1> HIDE DEF S
<1>3. Len(q) \in S
  BY <1>1, <1>2, AllNumbers
<1> DEFINE f == CHOOSE g : FlushedBufs(s, q, Len(q), g)
<1>4. FlushedBufs(s, q, Len(q), f)
  BY <1>3 DEF S
<1>5. AllFlushBuf(s, q) = f[Len(q)]
  BY DEF AllFlushBuf, ForEach, FlushedBufs
<1> HIDE DEF f
<1>6. \A i \in 0 .. Len(q) : f[i] = IF i = 0 THEN s ELSE FlushBuf(f[i - 1], q[i])
  BY <1>4 DEF FlushedBufs
<1> QED
  BY <1>3, <1>4, <1>5, <1>6 DEF FlushBufRun, FlushedBufs

----------------------------------------------------------------------------
(* Lists of buffers *)

Elems(q) == {q[i] : i \in DOMAIN q}
Distinct(q) == \A i, k \in DOMAIN q : Key(q[i]) = Key(q[k]) => i = k
Apart(q) == \A i, k \in DOMAIN q : q[i].lba = q[k].lba => i = k

LEMMA RemoveAtParts ==
  ASSUME NEW S, NEW q \in Seq(S), NEW i \in DOMAIN q
  PROVE  /\ RemoveAt(q, i) \in Seq(S) /\ Len(RemoveAt(q, i)) = Len(q) - 1
         /\ \A k \in 1 .. Len(q) - 1 : RemoveAt(q, i)[k] = IF k < i THEN q[k] ELSE q[k + 1]
<1> DEFINE a == SubSeq(q, 1, i - 1)
           b == SubSeq(q, i + 1, Len(q))
<1>1. i \in 1 .. Len(q) /\ Len(q) \in Nat /\ \A k \in 1 .. Len(q) : q[k] \in S
  OBVIOUS
<1>2. a \in Seq(S) /\ Len(a) = i - 1 /\ \A k \in 1 .. i - 1 : a[k] = q[k]
  BY <1>1
<1>3. b \in Seq(S) /\ Len(b) = Len(q) - i /\ \A k \in 1 .. Len(q) - i : b[k] = q[k + i]
  BY <1>1
<1> HIDE DEF a, b
<1>4. a \o b \in Seq(S) /\ Len(a \o b) = Len(q) - 1
  BY <1>1, <1>2, <1>3
<1>5. \A k \in 1 .. Len(q) - 1 : (a \o b)[k] = IF k < i THEN q[k] ELSE q[k + 1]
  <2> TAKE k \in 1 .. Len(q) - 1
  <2>1. CASE k < i
    BY <1>1, <1>2, <1>3, <2>1
  <2>2. CASE ~(k < i)
    <3>1. (a \o b)[k] = b[k - (i - 1)]
      BY <1>1, <1>2, <1>3, <2>2
    <3>2. k - (i - 1) \in 1 .. Len(q) - i /\ k - (i - 1) + i = k + 1
      BY <1>1, <2>2
    <3> QED
      BY <1>3, <2>2, <3>1, <3>2
  <2> QED
    BY <2>1, <2>2
<1> QED
  BY <1>4, <1>5 DEF RemoveAt, a, b

\* What is left when an element is taken out: the others, in their order.
LEMMA RemovedParts ==
  ASSUME NEW S, NEW q \in Seq(S), NEW i \in DOMAIN q
  PROVE  /\ Len(RemoveAt(q, i)) = Len(q) - 1 /\ RemoveAt(q, i) \in Seq(S)
         /\ \A k \in DOMAIN RemoveAt(q, i) : \E l \in DOMAIN q \ {i} :
              RemoveAt(q, i)[k] = q[l] /\ l = IF k < i THEN k ELSE k + 1
         /\ \A l \in DOMAIN q \ {i} : \E k \in DOMAIN RemoveAt(q, i) : RemoveAt(q, i)[k] = q[l]
<1> DEFINE r == RemoveAt(q, i)
<1>1. r \in Seq(S) /\ Len(r) = Len(q) - 1 /\ i \in 1 .. Len(q) /\ Len(q) \in Nat
  BY RemoveAtParts
<1>2. \A k \in 1 .. Len(q) - 1 : r[k] = IF k < i THEN q[k] ELSE q[k + 1]
  BY RemoveAtParts
<1>3. DOMAIN r = 1 .. Len(q) - 1 /\ DOMAIN q = 1 .. Len(q)
  BY <1>1
<1> HIDE DEF r
<1>4. ASSUME NEW k \in DOMAIN r
      PROVE  \E l \in DOMAIN q \ {i} : r[k] = q[l] /\ l = IF k < i THEN k ELSE k + 1
  <2>1. k \in 1 .. Len(q) - 1 /\ k \in 1 .. Len(q) /\ k + 1 \in 1 .. Len(q)
    BY <1>1, <1>3
  <2>2. CASE k < i
    BY <1>2, <1>3, <2>1, <2>2
  <2>3. CASE ~(k < i)
    <3>1. k + 1 # i
      BY <1>1, <2>1, <2>3
    <3> QED
      BY <1>2, <1>3, <2>1, <2>3, <3>1
  <2> QED
    BY <2>2, <2>3
<1>5. ASSUME NEW l \in DOMAIN q \ {i} PROVE \E k \in DOMAIN r : r[k] = q[l]
  <2>1. CASE l < i
    <3>1. l \in 1 .. Len(q) - 1
      BY <1>1, <1>3, <2>1
    <3> QED
      BY <1>2, <1>3, <2>1, <3>1
  <2>2. CASE ~(l < i)
    <3>1. l - 1 \in 1 .. Len(q) - 1 /\ ~(l - 1 < i) /\ l - 1 + 1 = l
      BY <1>1, <1>3, <2>2
    <3> QED
      BY <1>2, <1>3, <3>1
  <2> QED
    BY <2>1, <2>2
<1> QED
  BY <1>1, <1>4, <1>5 DEF r

LEMMA WithoutParts ==
  ASSUME NEW S, NEW q \in Seq(S), Distinct(q), NEW j \in Elems(q)
  PROVE  /\ Without(q, j) \in Seq(S) /\ Len(Without(q, j)) = Len(q) - 1
         /\ Elems(Without(q, j)) = Elems(q) \ {j}
         /\ Distinct(Without(q, j)) /\ (Apart(q) => Apart(Without(q, j)))
         /\ Key(Last(q)) # Key(j) => /\ Without(q, j) # <<>>
                                     /\ Last(Without(q, j)) = Last(q)
<1> DEFINE i == CHOOSE k \in DOMAIN q : Key(q[k]) = Key(j)
           r == RemoveAt(q, i)
<1>1. i \in DOMAIN q /\ Key(q[i]) = Key(j) /\ Without(q, j) = r
  BY DEF Without, Elems
<1>2. q[i] = j /\ \A l \in DOMAIN q \ {i} : q[l] # j
  BY <1>1 DEF Distinct, Elems
<1> HIDE DEF i
<1>3. /\ Len(r) = Len(q) - 1 /\ r \in Seq(S)
      /\ \A k \in DOMAIN r : \E l \in DOMAIN q \ {i} : r[k] = q[l] /\ l = IF k < i THEN k ELSE k + 1
      /\ \A l \in DOMAIN q \ {i} : \E k \in DOMAIN r : r[k] = q[l]
  BY <1>1, RemovedParts
<1>4. Len(q) \in Nat /\ DOMAIN q = 1 .. Len(q) /\ DOMAIN r = 1 .. Len(q) - 1 /\ i \in 1 .. Len(q)
  BY <1>1, <1>3
<1>5. \A k \in DOMAIN r : r[k] = RemoveAt(q, i)[k]
  OBVIOUS
<1> HIDE DEF r
<1>6. Elems(r) = Elems(q) \ {j}
  BY <1>2, <1>3 DEF Elems
<1>7. ASSUME NEW k \in DOMAIN r, NEW l \in DOMAIN r,
             (IF k < i THEN k ELSE k + 1) = (IF l < i THEN l ELSE l + 1)
      PROVE  k = l
  BY <1>4, <1>7
<1>8. Distinct(r)
  BY <1>3, <1>7 DEF Distinct
<1>9. Apart(q) => Apart(r)
  BY <1>3, <1>7, SMTT(30) DEF Apart
<1>10. ASSUME Key(Last(q)) # Key(j) PROVE r # <<>> /\ Last(r) = Last(q)
  <2>1. i # Len(q) /\ Len(q) - 1 \in 1 .. Len(q) - 1
    BY <1>1, <1>4, <1>10 DEF Last
  <2>2. PICK l \in DOMAIN q \ {i} : r[Len(q) - 1] = q[l] /\ l = IF Len(q) - 1 < i THEN Len(q) - 1 ELSE Len(q) - 1 + 1
    BY <1>3, <1>4, <2>1
  <2>3. l = Len(q)
    <3>1. \A n \in Nat : \A k \in 1 .. n : k # n => ~(n - 1 < k) /\ n - 1 + 1 = n
      OBVIOUS
    <3>2. ~(Len(q) - 1 < i) /\ Len(q) - 1 + 1 = Len(q)
      BY <1>4, <2>1, <3>1
    <3> QED
      BY <2>2, <3>2
  <2>4. r # <<>>
    BY <1>3, <1>4, <2>1
  <2> QED
    BY <1>3, <2>2, <2>3, <2>4 DEF Last
<1> QED
  BY <1>1, <1>3, <1>6, <1>8, <1>9, <1>10

----------------------------------------------------------------------------
(* What the memory of the process is like *)

Keys == [t : Nat, k : Nat]
Bufs == [t : Nat, k : Nat, lba : Blocks, at : Int]
Trans == [id : Nat, start : Int, blocks : Int, data : Int, written : Nat,
          bufs : Seq(Bufs), revokes : SUBSET Pool, freed : SUBSET Pool]
Recs == [t : Nat, queue : Seq(Bufs)]

IsBuf(x) ==
  /\ x.cached \in BOOLEAN
  /\ x.cached => /\ DOMAIN x = {"cached", "val", "dirty", "upto", "refs", "end"}
                 /\ x.dirty \in BOOLEAN /\ x.upto \in BOOLEAN /\ x.refs \in Nat /\ x.end \in Keys

\* A write of the superblock has a sequence in it.
IsWrite(w) == w.to \in {"disk", "log", "jsb"} /\ (w.to = "jsb" => w.val.seq \in Nat)
Told(q) == \E S : q \in Seq(S) /\ \A w \in S : IsWrite(w)

\* What is no part of the links.
Fit(s) ==
  /\ DOMAIN s = {"up", "io", "buf", "rec", "cp", "cur", "start", "last", "tid", "alloc", "sb", "dirty"}
  /\ s.up = TRUE /\ setup.maxlen \in Int
  /\ s.tid \in Nat /\ s.sb.seq \in Nat /\ s.start \in Int /\ s.last \in Int /\ Told(s.io)

Typed(s) ==
  /\ s.cp \in Seq(Trans) /\ s.cur \in Trans /\ s.rec \in [Blocks -> Recs] /\ s.alloc \in Nat
  /\ DOMAIN s.buf = Blocks /\ \A b \in Blocks : IsBuf(s.buf[b])

\* Ids name transactions.
Ids(s) ==
  /\ \A i \in DOMAIN s.cp : s.cp[i].id \in 1 .. s.alloc - 1 /\ s.cp[i].id # s.cur.id
  /\ \A i, k \in DOMAIN s.cp : s.cp[i].id = s.cp[k].id => i = k

\* A transaction of the checkpoint queue has the buffers that are not written yet;
\* one that is out of the list of transaction o has not been counted.
Counts(s, o) ==
  /\ \A i \in DOMAIN s.cp :
       s.cp[i].data = s.cp[i].written + Len(s.cp[i].bufs) + IF s.cp[i].id = o THEN 1 ELSE 0
  /\ o # 0 => \E i \in DOMAIN s.cp : s.cp[i].id = o

Mine(t) == Distinct(t.bufs) /\ Apart(t.bufs) /\ \A x \in Elems(t.bufs) : x.t = t.id
Owned(s) == Mine(s.cur) /\ \A i \in DOMAIN s.cp : Mine(s.cp[i])

\* The buffers that wait for their place are in the records of their blocks.
Waiting(s) ==
  {x \in Bufs : x \in Elems(s.cur.bufs) \/ \E i \in DOMAIN s.cp : x \in Elems(s.cp[i].bufs)}
Listed(s) ==
  \A b \in Blocks : /\ Elems(s.rec[b].queue) = {x \in Waiting(s) : x.lba = b}
                    /\ Distinct(s.rec[b].queue)

\* A record belongs to the transaction that changed its block last, a callback
\* is that transaction's; but for block e, when its buffer of o has just gone.
LatestOwns(s, b) == s.rec[b].queue # <<>> => s.rec[b].t = Last(s.rec[b].queue).t
EndIsKnown(s, b) ==
  s.buf[b].cached /\ s.buf[b].end # None =>
    s.buf[b].end.t = s.rec[b].t /\ \E x \in Elems(s.rec[b].queue) : Key(x) = s.buf[b].end
Settles(s, b) == LatestOwns(s, b) /\ EndIsKnown(s, b)
Latest(s, o, e) ==
  \A b \in Blocks : Settles(s, b) \/ (o # 0 /\ b = e /\ s.rec[b].t = o)

\* The open transaction owns the records of its blocks and holds a reference of
\* each buffer; X are the blocks a caller holds one of too.
Lbas(t) == {x.lba : x \in Elems(t.bufs)}
Refs(s, X, b) == (IF b \in Lbas(s.cur) THEN 1 ELSE 0) + (IF b \in X THEN 1 ELSE 0)
Held(s, X) ==
  \A b \in Blocks :
    /\ b \in Lbas(s.cur) => s.rec[b].t = s.cur.id
    /\ IF s.buf[b].cached THEN s.buf[b].refs = Refs(s, X, b) ELSE b \notin Lbas(s.cur) \cup X

Linked(s, X, o, e) ==
  /\ Typed(s) /\ Ids(s) /\ Counts(s, o) /\ Owned(s) /\ Listed(s) /\ Latest(s, o, e) /\ Held(s, X)

----------------------------------------------------------------------------
(* Changes that leave the links alone *)

Same(s, u) ==
  u.cp = s.cp /\ u.cur = s.cur /\ u.rec = s.rec /\ u.buf = s.buf /\ u.alloc = s.alloc

LEMMA SameLinked ==
  ASSUME NEW s, NEW u, NEW X, NEW o, NEW e, Same(s, u), Linked(s, X, o, e)
  PROVE  Linked(u, X, o, e)
<1>1. Typed(u) /\ Ids(u) /\ Counts(u, o) /\ Owned(u)
  BY DEF Same, Linked, Typed, Ids, Counts, Owned
<1>2. Listed(u)
  BY DEF Same, Linked, Listed, Waiting
<1>3. Latest(u, o, e)
  BY DEF Same, Linked, Latest, Settles, LatestOwns, EndIsKnown
<1>4. Held(u, X)
  BY DEF Same, Linked, Held, Refs
<1> QED
  BY <1>1, <1>2, <1>3, <1>4 DEF Linked

\* Only the buffer of b changes.
LEMMA BufLinked ==
  ASSUME NEW s, NEW u, NEW X, NEW Y, NEW o, NEW e, Linked(s, X, o, e),
         u.cp = s.cp, u.cur = s.cur, u.rec = s.rec, u.alloc = s.alloc,
         NEW b \in Blocks, NEW x, u.buf = [s.buf EXCEPT ![b] = x], IsBuf(x),
         \A c \in Blocks : c # b => (c \in X <=> c \in Y),
         x.cached => /\ x.refs = Refs(s, Y, b)
                     /\ x.end # None => s.buf[b].cached /\ x.end = s.buf[b].end,
         ~x.cached => b \notin Lbas(s.cur) \cup Y
  PROVE  Linked(u, Y, o, e)
<1>1. DOMAIN s.buf = Blocks
  BY DEF Linked, Typed
<1>2. u.buf[b] = x /\ \A c \in Blocks : c # b => u.buf[c] = s.buf[c]
  BY <1>1
<1>3. Typed(u) /\ Ids(u) /\ Counts(u, o) /\ Owned(u)
  BY <1>1, <1>2 DEF Linked, Typed, Ids, Counts, Owned
<1>4. Listed(u)
  BY DEF Linked, Listed, Waiting
<1>5. Latest(u, o, e)
  BY <1>2 DEF Linked, Latest, Settles, LatestOwns, EndIsKnown
<1>6. Held(u, Y)
  BY <1>2 DEF Linked, Held, Refs
<1> QED
  BY <1>3, <1>4, <1>5, <1>6 DEF Linked

LEMMA AppendTold ==
  ASSUME NEW q, Told(q), NEW w, IsWrite(w)
  PROVE  Told(Append(q, w))
<1>1. PICK S : q \in Seq(S) /\ \A v \in S : IsWrite(v)
  BY DEF Told
<1>2. q \in Seq(S \cup {w})
  BY <1>1
<1>3. Append(q, w) \in Seq(S \cup {w})
  BY <1>2
<1> QED
  BY <1>1, <1>3 DEF Told

LEMMA IssueSame ==
  ASSUME NEW s, Fit(s), NEW to \in {"disk", "log"}, NEW at, NEW val
  PROVE  /\ Fit(Issue(s, Write(to, at, val))) /\ Same(s, Issue(s, Write(to, at, val)))
         /\ Issue(s, Write(to, at, val)).last = s.last
<1> DEFINE w == Write(to, at, val)
<1>1. Told(Append(s.io, w))
  <2>1. IsWrite(w)
    BY DEF Write, IsWrite
  <2> QED
    BY <2>1, AppendTold DEF Fit
<1> HIDE DEF w
<1> QED
  BY <1>1 DEF Fit, Issue, Same, w

LEMMA TellSbSame ==
  ASSUME NEW s, Fit(s)
  PROVE  Fit(TellSb(s)) /\ Same(s, TellSb(s))
BY DEF Fit, TellSb, Same

LEMMA WriteSbSame ==
  ASSUME NEW s, Fit(s)
  PROVE  Fit(WriteSb(s)) /\ Same(s, WriteSb(s))
<1> DEFINE w == Write("jsb", 0, s.sb)
<1>1. Told(Append(s.io, w))
  <2>1. IsWrite(w)
    BY DEF Write, Fit, IsWrite
  <2> QED
    BY <2>1, AppendTold DEF Fit
<1>2. Fit([Issue(s, w) EXCEPT !.dirty = FALSE]) /\ Same(s, [Issue(s, w) EXCEPT !.dirty = FALSE])
  <2> HIDE DEF w
  <2> QED
    BY <1>1 DEF Fit, Issue, Same
<1> QED
  BY <1>2 DEF WriteSb, Same

----------------------------------------------------------------------------
(* Who waits for what *)

LEMMA OwnerOf ==
  ASSUME NEW s, NEW X, NEW o, NEW e, Linked(s, X, o, e), NEW x \in Waiting(s)
  PROVE  /\ x \in Bufs /\ x.lba \in Blocks /\ x \in Elems(s.rec[x.lba].queue)
         /\ x.t = s.cur.id => x \in Elems(s.cur.bufs) /\ x.lba \in Lbas(s.cur)
         /\ x.t # s.cur.id => \E i \in DOMAIN s.cp : s.cp[i].id = x.t /\ x \in Elems(s.cp[i].bufs)
<1>1. x \in Bufs /\ x.lba \in Blocks /\ (x \in Elems(s.cur.bufs) \/ \E i \in DOMAIN s.cp : x \in Elems(s.cp[i].bufs))
  BY DEF Waiting, Bufs
<1>2. \A i \in DOMAIN s.cp : \A y \in Elems(s.cp[i].bufs) : y.t = s.cp[i].id /\ s.cp[i].id # s.cur.id
  BY DEF Linked, Owned, Mine, Ids
<1>3. \A y \in Elems(s.cur.bufs) : y.t = s.cur.id
  BY DEF Linked, Owned, Mine
<1>4. x \in Elems(s.rec[x.lba].queue)
  BY <1>1 DEF Linked, Listed
<1> QED
  BY <1>1, <1>2, <1>3, <1>4 DEF Lbas

LEMMA InRecord ==
  ASSUME NEW s, NEW X, NEW o, NEW e, Linked(s, X, o, e), NEW b \in Blocks,
         NEW x \in Elems(s.rec[b].queue)
  PROVE  x \in Waiting(s) /\ x.lba = b
BY DEF Linked, Listed

LEMMA LastOfRecord ==
  ASSUME NEW s, NEW X, NEW o, NEW e, Linked(s, X, o, e), NEW b \in Blocks, s.rec[b].queue # <<>>
  PROVE  Last(s.rec[b].queue) \in Elems(s.rec[b].queue)
<1>1. s.rec[b].queue \in Seq(Bufs)
  BY DEF Linked, Typed, Recs
<1>2. Len(s.rec[b].queue) \in DOMAIN s.rec[b].queue
  <2> DEFINE q == s.rec[b].queue
  <2>1. Len(q) \in Nat /\ Len(q) # 0 /\ DOMAIN q = 1 .. Len(q)
    BY <1>1, EmptySeq
  <2> HIDE DEF q
  <2>2. Len(q) \in 1 .. Len(q)
    BY <2>1
  <2> QED
    BY <2>1, <2>2 DEF q
<1> QED
  BY <1>2 DEF Last, Elems

LEMMA PositionIs ==
  ASSUME NEW s, NEW X, NEW o, NEW e, Linked(s, X, o, e), NEW i \in DOMAIN s.cp
  PROVE  PositionOf(s, s.cp[i].id) = i
<1>1. \A k \in DOMAIN s.cp : s.cp[k].id = s.cp[i].id => k = i
  BY DEF Linked, Ids
<1> QED
  BY <1>1 DEF PositionOf

----------------------------------------------------------------------------
(* A transaction leaves the checkpoint queue *)

\* What has gone on elsewhere: records that were empty may be forgotten.
Passed(s, u) ==
  /\ u.buf = s.buf /\ u.cur = s.cur /\ u.alloc = s.alloc
  /\ \A b \in Blocks : u.rec[b] = s.rec[b] \/ (u.rec[b] = NoRec /\ s.rec[b].queue = <<>>)

LEMMA PassedTwice ==
  ASSUME NEW s, NEW u, NEW v, Passed(s, u), Passed(u, v)
  PROVE  Passed(s, v)
BY DEF Passed, NoRec

LEMMA SamePassed ==
  ASSUME NEW s, NEW u, Same(s, u)
  PROVE  Passed(s, u)
BY DEF Passed, Same

LEMMA PassedParts ==
  ASSUME NEW s, NEW u, Passed(s, u), NEW b \in Blocks
  PROVE  /\ u.rec[b].queue = s.rec[b].queue
         /\ s.rec[b].queue # <<>> => u.rec[b] = s.rec[b]
BY DEF Passed, NoRec

LEMMA FreeTransLinked ==
  ASSUME NEW s, Fit(s), NEW X, NEW o, NEW e, Linked(s, X, o, e), NEW t, o = 0 \/ t # o,
         \A b \in Blocks : s.rec[b].t = t => s.rec[b].queue = <<>> /\ b \notin Lbas(s.cur)
  PROVE  /\ Fit(FreeTrans(s, t)) /\ Linked(FreeTrans(s, t), X, o, e) /\ Passed(s, FreeTrans(s, t))
         /\ FreeTrans(s, t).cp = s.cp
<1> DEFINE u == FreeTrans(s, t)
<1>1. /\ Fit(u) /\ u.cp = s.cp /\ u.cur = s.cur /\ u.buf = s.buf /\ u.alloc = s.alloc
      /\ u.rec = [b \in Blocks |-> IF s.rec[b].t = t THEN NoRec ELSE s.rec[b]]
  BY DEF FreeTrans, Fit
<1> HIDE DEF u
<1>2. \A b \in Blocks : /\ u.rec[b] = IF s.rec[b].t = t THEN NoRec ELSE s.rec[b]
                        /\ u.rec[b].queue = s.rec[b].queue
  BY <1>1 DEF NoRec
<1>3. Passed(s, u)
  BY <1>1, <1>2 DEF Passed
<1>4. Typed(u)
  <2>1. NoRec \in Recs
    BY DEF NoRec, Recs
  <2>2. u.rec \in [Blocks -> Recs]
    BY <1>1, <2>1 DEF Linked, Typed
  <2> QED
    BY <1>1, <2>2 DEF Linked, Typed
<1>5. Ids(u) /\ Counts(u, o) /\ Owned(u)
  BY <1>1 DEF Linked, Ids, Counts, Owned
<1>6. Listed(u)
  BY <1>1, <1>2 DEF Linked, Listed, Waiting
<1>7. Latest(u, o, e)
  <2> SUFFICES ASSUME NEW b \in Blocks
               PROVE  Settles(u, b) \/ (o # 0 /\ b = e /\ u.rec[b].t = o)
    BY DEF Latest
  <2>1. CASE s.rec[b].t # t
    BY <1>1, <1>2, <2>1 DEF Linked, Latest, Settles, LatestOwns, EndIsKnown
  <2>2. CASE s.rec[b].t = t
    <3>1. s.rec[b].queue = <<>> /\ Settles(s, b)
      BY <2>2 DEF Linked, Latest
    <3>2. Elems(s.rec[b].queue) = {}
      BY <3>1 DEF Elems
    <3> QED
      BY <1>1, <1>2, <3>1, <3>2 DEF Settles, LatestOwns, EndIsKnown
  <2> QED
    BY <2>1, <2>2
<1>8. Held(u, X)
  BY <1>1, <1>2 DEF Linked, Held, Refs
<1> QED
  BY <1>1, <1>3, <1>4, <1>5, <1>6, <1>7, <1>8 DEF Linked, u

\* The record of a block of a transaction that is done is empty.
LEMMA DoneHasNoRecords ==
  ASSUME NEW s, NEW X, NEW o, NEW e, Linked(s, X, o, e), NEW i \in DOMAIN s.cp,
         s.cp[i].bufs = <<>>, s.cp[i].id # o, NEW b \in Blocks, s.rec[b].t = s.cp[i].id
  PROVE  s.rec[b].queue = <<>> /\ b \notin Lbas(s.cur)
<1>1. b \notin Lbas(s.cur)
  BY DEF Linked, Held, Ids
<1>2. ASSUME s.rec[b].queue # <<>> PROVE FALSE
  <2> DEFINE x == Last(s.rec[b].queue)
  <2>1. x.t = s.cp[i].id
    BY <1>2 DEF Linked, Latest, Settles, LatestOwns
  <2>2. x \in Waiting(s)
    BY <1>2, LastOfRecord, InRecord
  <2> HIDE DEF x
  <2>3. s.cp[i].id # s.cur.id
    BY DEF Linked, Ids
  <2>4. PICK k \in DOMAIN s.cp : s.cp[k].id = x.t /\ x \in Elems(s.cp[k].bufs)
    BY <2>1, <2>2, <2>3, OwnerOf
  <2>5. k = i
    BY <2>1, <2>4 DEF Linked, Ids
  <2>6. Elems(s.cp[i].bufs) = {}
    BY DEF Elems
  <2> QED
    BY <2>4, <2>5, <2>6
<1> QED
  BY <1>1, <1>2

LEMMA StartAfterLinked ==
  ASSUME NEW s, Fit(s), NEW X, NEW o, NEW e, Linked(s, X, o, e), NEW i \in DOMAIN s.cp,
         s.cp[i].bufs = <<>>, s.cp[i].id # o, NEW t \in Trans, t.id = s.cp[i].id
  PROVE  /\ Fit(StartAfter(s, t)) /\ Linked(StartAfter(s, t), X, o, e)
         /\ Passed(s, StartAfter(s, t))
<1> DEFINE cp == RemoveAt(s.cp, i)
           u == [s EXCEPT !.start = Wrapped(t.start + t.blocks), !.tid = t.id + 1, !.cp = cp]
<1>0. StartAfter(s, t) = FreeTrans(u, t.id)
  <2>1. PositionOf(s, t.id) = i
    BY PositionIs
  <2> QED
    BY <2>1 DEF StartAfter
<1>1. s.cp \in Seq(Trans)
  BY DEF Linked, Typed
<1>2. /\ cp \in Seq(Trans)
      /\ \A k \in DOMAIN cp : \E l \in DOMAIN s.cp \ {i} :
           cp[k] = s.cp[l] /\ l = IF k < i THEN k ELSE k + 1
      /\ \A l \in DOMAIN s.cp \ {i} : \E k \in DOMAIN cp : cp[k] = s.cp[l]
  <2> DEFINE q == s.cp
  <2>1. q \in Seq(Trans) /\ i \in DOMAIN q
    BY <1>1
  <2> HIDE DEF q
  <2>2. /\ RemoveAt(q, i) \in Seq(Trans)
        /\ \A k \in DOMAIN RemoveAt(q, i) : \E l \in DOMAIN q \ {i} :
             RemoveAt(q, i)[k] = q[l] /\ l = IF k < i THEN k ELSE k + 1
        /\ \A l \in DOMAIN q \ {i} : \E k \in DOMAIN RemoveAt(q, i) : RemoveAt(q, i)[k] = q[l]
    BY <2>1, RemovedParts
  <2> QED
    BY <2>2 DEF q
<1>3. /\ Fit(u) /\ u.cp = cp /\ u.cur = s.cur /\ u.buf = s.buf /\ u.alloc = s.alloc /\ u.rec = s.rec
  <2>1. Wrapped(t.start + t.blocks) \in Int /\ t.id + 1 \in Nat
    BY SMTT(30) DEF Fit, Wrapped, Trans, First
  <2> HIDE DEF cp
  <2> QED
    BY <2>1 DEF Fit
<1> HIDE DEF u
<1>4. Typed(u) /\ Owned(u) /\ Counts(u, o)
  <2> HIDE DEF cp
  <2>1. Typed(u)
    BY <1>2, <1>3 DEF Linked, Typed
  <2>2. Owned(u)
    BY <1>2, <1>3 DEF Linked, Owned
  <2>3. Counts(u, o)
    <3>1. ASSUME NEW l \in DOMAIN s.cp, s.cp[l].id = o PROVE \E k \in DOMAIN cp : cp[k].id = o
      BY <1>2, <3>1
    <3>2. o # 0 => \E k \in DOMAIN u.cp : u.cp[k].id = o
      BY <1>3, <3>1 DEF Linked, Counts
    <3> QED
      BY <1>2, <1>3, <3>2 DEF Linked, Counts
  <2> QED
    BY <2>1, <2>2, <2>3
<1>5. Ids(u)
  <2>1. DOMAIN cp \subseteq Int /\ i \in Int
    BY <1>1, <1>2
  <2> HIDE DEF cp
  <2>2. ASSUME NEW k \in DOMAIN cp, NEW l \in DOMAIN cp, cp[k].id = cp[l].id PROVE k = l
    <3>1. PICK a \in DOMAIN s.cp \ {i} : cp[k] = s.cp[a] /\ a = IF k < i THEN k ELSE k + 1
      BY <1>2
    <3>2. PICK c \in DOMAIN s.cp \ {i} : cp[l] = s.cp[c] /\ c = IF l < i THEN l ELSE l + 1
      BY <1>2
    <3>3. a = c
      BY <2>2, <3>1, <3>2 DEF Linked, Ids
    <3> QED
      BY <2>1, <3>1, <3>2, <3>3
  <2>3. \A k \in DOMAIN cp : cp[k].id \in 1 .. s.alloc - 1 /\ cp[k].id # s.cur.id
    BY <1>2 DEF Linked, Ids
  <2> QED
    BY <1>3, <2>2, <2>3 DEF Ids
<1>6. Waiting(u) = Waiting(s)
  <2> HIDE DEF cp
  <2>1. Elems(s.cp[i].bufs) = {}
    BY DEF Elems
  <2> QED
    BY <1>2, <1>3, <2>1 DEF Waiting
<1>7. Listed(u)
  BY <1>3, <1>6 DEF Linked, Listed
<1>8. Latest(u, o, e) /\ Held(u, X)
  BY <1>3 DEF Linked, Latest, Settles, LatestOwns, EndIsKnown, Held, Refs
<1>9. Linked(u, X, o, e) /\ Passed(s, u)
  BY <1>3, <1>4, <1>5, <1>7, <1>8 DEF Linked, Passed
<1>10. \A b \in Blocks : u.rec[b].t = t.id => u.rec[b].queue = <<>> /\ b \notin Lbas(u.cur)
  BY <1>3, DoneHasNoRecords
<1>11. o = 0 \/ t.id # o
  OBVIOUS
<1>12. /\ Fit(FreeTrans(u, t.id)) /\ Linked(FreeTrans(u, t.id), X, o, e)
       /\ Passed(u, FreeTrans(u, t.id))
  BY <1>3, <1>9, <1>10, <1>11, FreeTransLinked
<1> QED
  BY <1>0, <1>9, <1>12, PassedTwice

LEMMA StartAtSame ==
  ASSUME NEW s, Fit(s), NEW t \in Trans
  PROVE  Fit(StartAt(s, t)) /\ Same(s, StartAt(s, t))
<1> DEFINE u == [s EXCEPT !.start = Wrapped(t.start), !.tid = t.id]
<1>1. Wrapped(t.start) \in Int /\ t.id \in Nat
  BY DEF Fit, Wrapped, Trans, First
<1>2. Fit(u) /\ Same(s, u)
  BY <1>1 DEF Fit, Same
<1> HIDE DEF u
<1>3. Fit(TellSb(u)) /\ Same(u, TellSb(u))
  BY <1>2, TellSbSame
<1> QED
  BY <1>2, <1>3 DEF StartAt, u, Same

\* A transaction with nothing left to write has no buffers left.
LEMMA NothingLeft ==
  ASSUME NEW s, NEW X, NEW o, NEW e, Linked(s, X, o, e), NEW i \in DOMAIN s.cp,
         s.cp[i].data = 0 \/ s.cp[i].data = s.cp[i].written
  PROVE  s.cp[i].bufs = <<>> /\ s.cp[i].id # o
<1>1. s.cp[i] \in Trans
  BY DEF Linked, Typed
<1>2. Len(s.cp[i].bufs) \in Nat /\ s.cp[i].written \in Nat /\ s.cp[i].bufs \in Seq(Bufs)
  BY <1>1 DEF Trans
<1>3. s.cp[i].data = s.cp[i].written + Len(s.cp[i].bufs) + IF s.cp[i].id = o THEN 1 ELSE 0
  BY DEF Linked, Counts
<1>4. Len(s.cp[i].bufs) = 0 /\ s.cp[i].id # o
  BY <1>2, <1>3
<1> QED
  BY <1>2, <1>4, EmptySeq

LEMMA PurgeHeadLinked ==
  ASSUME NEW p, NEW k, Fit(p.s), NEW X, NEW o, NEW e, Linked(p.s, X, o, e)
  PROVE  /\ Fit(PurgeHead(p, k).s) /\ Linked(PurgeHead(p, k).s, X, o, e)
         /\ Passed(p.s, PurgeHead(p, k).s)
<1> DEFINE s == p.s
           t == Head(s.cp)
<1>1. Passed(s, s)
  BY DEF Passed
<1>2. ASSUME s.cp # <<>> PROVE 1 \in DOMAIN s.cp /\ t = s.cp[1] /\ t \in Trans
  <2> DEFINE q == s.cp
  <2>1. q \in Seq(Trans) /\ q # <<>>
    BY <1>2 DEF Linked, Typed
  <2> HIDE DEF q
  <2>2. 1 \in DOMAIN q /\ Head(q) = q[1] /\ Head(q) \in Trans
    BY <2>1
  <2> QED
    BY <2>2 DEF q
<1>3. CASE s.cp # <<>> /\ (t.data = 0 \/ t.data = t.written)
  <2>1. s.cp[1].bufs = <<>> /\ s.cp[1].id # o
    BY <1>2, <1>3, NothingLeft
  <2> DEFINE u == StartAfter(s, t)
  <2>2. Fit(u) /\ Linked(u, X, o, e) /\ Passed(s, u)
    BY <1>2, <1>3, <2>1, StartAfterLinked
  <2> HIDE DEF u
  <2>3. Fit(TellSb(u)) /\ Same(u, TellSb(u))
    BY <2>2, TellSbSame
  <2>4. Linked(TellSb(u), X, o, e) /\ Passed(s, TellSb(u))
    BY <2>2, <2>3, SameLinked, SamePassed, PassedTwice
  <2>5. PurgeHead(p, k).s = p.s \/ PurgeHead(p, k).s = TellSb(u)
    BY <1>3 DEF PurgeHead, u
  <2> QED
    BY <1>1, <2>3, <2>4, <2>5
<1>4. CASE s.cp # <<>> /\ ~(t.data = 0 \/ t.data = t.written)
  <2> DEFINE u == StartAt(s, t)
  <2>1. Fit(u) /\ Same(s, u)
    BY <1>2, <1>4, StartAtSame
  <2>2. Linked(u, X, o, e) /\ Passed(s, u)
    BY <2>1, SameLinked, SamePassed
  <2>3. PurgeHead(p, k).s = p.s \/ PurgeHead(p, k).s = u
    BY <1>4 DEF PurgeHead
  <2> HIDE DEF u
  <2> QED
    BY <1>1, <2>1, <2>2, <2>3
<1>5. CASE s.cp = <<>>
  <2>1. PurgeHead(p, k) = p
    BY <1>5 DEF PurgeHead
  <2> QED
    BY <1>1, <2>1
<1> QED
  BY <1>3, <1>4, <1>5

LEMMA PurgeLinked ==
  ASSUME NEW s, Fit(s), NEW X, NEW o, NEW e, Linked(s, X, o, e)
  PROVE  Fit(Purge(s)) /\ Linked(Purge(s), X, o, e) /\ Passed(s, Purge(s))
<1> DEFINE n == Len(s.cp)
           start == [s |-> s, stop |-> FALSE]
<1>1. n \in Nat
  BY DEF Linked, Typed
<1> HIDE DEF start
<1>2. PICK f : /\ f[0] = start /\ AllPurgeHead(start, s.cp) = f[n]
               /\ \A i \in 1 .. n : f[i] = PurgeHead(f[i - 1], s.cp[i])
  BY <1>1, PurgeHeadSteps
<1> DEFINE S == {i \in Int : Fit(f[i].s) /\ Linked(f[i].s, X, o, e) /\ Passed(s, f[i].s)}
<1>3. 0 \in S
  BY <1>2 DEF Passed, start
<1>4. ASSUME NEW i \in 1 .. n, i - 1 \in S PROVE i \in S
  <2> DEFINE p == f[i - 1]
  <2>1. Fit(p.s) /\ Linked(p.s, X, o, e) /\ Passed(s, p.s)
    BY <1>4
  <2> HIDE DEF p
  <2>2. /\ Fit(PurgeHead(p, s.cp[i]).s) /\ Linked(PurgeHead(p, s.cp[i]).s, X, o, e)
        /\ Passed(p.s, PurgeHead(p, s.cp[i]).s)
    BY <2>1, PurgeHeadLinked
  <2>3. Passed(s, PurgeHead(p, s.cp[i]).s)
    BY <2>1, <2>2, PassedTwice
  <2>4. f[i] = PurgeHead(p, s.cp[i])
    BY <1>2 DEF p
  <2> QED
    BY <2>2, <2>3, <2>4
<1> HIDE DEF S
<1>5. n \in S
  BY <1>1, <1>3, <1>4, AllTurns
<1>6. Purge(s) = f[n].s
  BY <1>2 DEF Purge, AllPurgeHead, start
<1> QED
  BY <1>5, <1>6 DEF S

LEMMA EndFirstLinked ==
  ASSUME NEW s, Fit(s), NEW X, NEW o, NEW e, Linked(s, X, o, e), NEW i \in DOMAIN s.cp, NEW first
  PROVE  /\ Fit(EndFirst(s, s.cp[i], first)) /\ Linked(EndFirst(s, s.cp[i], first), X, o, e)
         /\ Passed(s, EndFirst(s, s.cp[i], first))
<1> DEFINE t == s.cp[i]
           a == StartAfter(s, t)
           b == Purge(a)
           c == TellSb(b)
           d == WriteSb(c)
<1>1. CASE t.written = t.data
  <2>1. t.bufs = <<>> /\ t.id # o /\ t \in Trans
    BY <1>1, NothingLeft DEF Linked, Typed
  <2>2. Fit(a) /\ Linked(a, X, o, e) /\ Passed(s, a)
    BY <2>1, StartAfterLinked
  <2> HIDE DEF a
  <2>3. Fit(b) /\ Linked(b, X, o, e) /\ Passed(a, b)
    BY <2>2, PurgeLinked
  <2> HIDE DEF b
  <2>4. Fit(c) /\ Linked(c, X, o, e) /\ Passed(b, c)
    BY <2>3, TellSbSame, SameLinked, SamePassed
  <2> HIDE DEF c
  <2>5. Fit(d) /\ Linked(d, X, o, e) /\ Passed(c, d)
    BY <2>4, WriteSbSame, SameLinked, SamePassed
  <2> HIDE DEF d
  <2>6. Passed(s, d) /\ Passed(s, s)
    <3>1. Passed(s, b)
      BY <2>2, <2>3, PassedTwice
    <3>2. Passed(s, c)
      BY <2>4, <3>1, PassedTwice
    <3> QED
      BY <2>5, <3>2, PassedTwice DEF Passed
  <2>7. EndFirst(s, t, first) = d \/ EndFirst(s, t, first) = s
    BY DEF EndFirst, a, b, c, d
  <2> QED
    BY <2>5, <2>6, <2>7
<1>2. CASE t.written # t.data
  BY <1>2 DEF EndFirst, Passed
<1> QED
  BY <1>1, <1>2

----------------------------------------------------------------------------
(* A block has reached its place *)

\* The links without the counts and the owners of the records.
Parts(s, X) == Typed(s) /\ Ids(s) /\ Owned(s) /\ Listed(s) /\ Held(s, X)

LEMMA LinkedParts ==
  ASSUME NEW s, NEW X, NEW o, NEW e
  PROVE  Linked(s, X, o, e) <=> Parts(s, X) /\ Counts(s, o) /\ Latest(s, o, e)
BY DEF Linked, Parts

\* Buffer j is taken out of transaction i and of the record of block b.
Unlinked(s, u, i, b, j, X) ==
  /\ i \in DOMAIN s.cp /\ i = PositionOf(s, j.t) /\ s.cp[i].id = j.t /\ j.lba = b
  /\ j \in Elems(s.cp[i].bufs) /\ Fit(u) /\ Parts(u, X) /\ DOMAIN u.cp = DOMAIN s.cp
  /\ \A k \in DOMAIN s.cp : /\ u.cp[k].id = s.cp[k].id /\ u.cp[k].data = s.cp[k].data
                            /\ u.cp[k].written = s.cp[k].written
                            /\ Len(u.cp[k].bufs) = Len(s.cp[k].bufs) - IF k = i THEN 1 ELSE 0
  /\ u.rec[b].queue = Without(s.rec[b].queue, j) /\ u.rec[b].t = s.rec[b].t
  /\ Elems(u.rec[b].queue) = Elems(s.rec[b].queue) \ {j}
  /\ Key(Last(s.rec[b].queue)) # Key(j) => /\ u.rec[b].queue # <<>>
                                           /\ Last(u.rec[b].queue) = Last(s.rec[b].queue)
  /\ \A c \in Blocks \ {b} : u.rec[c] = s.rec[c]
  /\ u.cur = s.cur /\ u.buf = s.buf /\ u.alloc = s.alloc

LEMMA UnlinkParts ==
  ASSUME NEW s, Fit(s), NEW X, NEW o, NEW e, Linked(s, X, o, e), NEW b \in Blocks,
         NEW j \in Elems(s.rec[b].queue), j.t # s.cur.id
  PROVE  \E i \in DOMAIN s.cp : Unlinked(s, Unlink(s, j), i, b, j, X)
<1>1. j \in Waiting(s) /\ j.lba = b /\ j \in Bufs
  BY InRecord DEF Waiting
<1>2. PICK i \in DOMAIN s.cp : s.cp[i].id = j.t /\ j \in Elems(s.cp[i].bufs)
  BY <1>1, OwnerOf
<1>3. PositionOf(s, j.t) = i
  BY <1>2, PositionIs
<1> DEFINE u == Unlink(s, j)
           bufs == Without(s.cp[i].bufs, j)
           queue == Without(s.rec[b].queue, j)
<1>4. /\ s.cp \in Seq(Trans) /\ s.cp[i] \in Trans /\ s.cp[i].bufs \in Seq(Bufs)
      /\ s.rec \in [Blocks -> Recs] /\ s.rec[b].queue \in Seq(Bufs) /\ s.rec[b] \in Recs
  <2>1. s.cp \in Seq(Trans) /\ s.rec \in [Blocks -> Recs]
    BY DEF Linked, Typed
  <2>2. s.cp[i] \in Trans /\ s.rec[b] \in Recs
    BY <2>1
  <2> QED
    BY <2>1, <2>2 DEF Trans, Recs
<1>5. Distinct(s.cp[i].bufs) /\ Apart(s.cp[i].bufs) /\ Distinct(s.rec[b].queue)
  BY <1>2 DEF Linked, Owned, Mine, Listed
<1>6. /\ bufs \in Seq(Bufs) /\ Len(bufs) = Len(s.cp[i].bufs) - 1
      /\ Elems(bufs) = Elems(s.cp[i].bufs) \ {j} /\ Distinct(bufs) /\ Apart(bufs)
  BY <1>2, <1>4, <1>5, WithoutParts
<1>7. /\ queue \in Seq(Bufs) /\ Elems(queue) = Elems(s.rec[b].queue) \ {j} /\ Distinct(queue)
      /\ Key(Last(s.rec[b].queue)) # Key(j) => /\ queue # <<>>
                                               /\ Last(queue) = Last(s.rec[b].queue)
  BY <1>4, <1>5, WithoutParts
<1>8. /\ Fit(u) /\ u.cp = [s.cp EXCEPT ![i].bufs = bufs] /\ u.rec = [s.rec EXCEPT ![b].queue = queue]
      /\ u.cur = s.cur /\ u.buf = s.buf /\ u.alloc = s.alloc
  <2>1. u = [s EXCEPT !.cp[i].bufs = Without(@, j), !.rec[b].queue = Without(@, j)]
    BY <1>1, <1>3 DEF Unlink
  <2> QED
    BY <2>1 DEF Fit
<1> HIDE DEF u, bufs, queue
<1>9. /\ DOMAIN u.cp = DOMAIN s.cp
      /\ \A k \in DOMAIN s.cp : /\ u.cp[k].id = s.cp[k].id
                                /\ u.cp[k].bufs = IF k = i THEN bufs ELSE s.cp[k].bufs
      /\ \A k \in DOMAIN s.cp : k # i => u.cp[k] = s.cp[k]
      /\ u.cp \in Seq(Trans)
  <2> DEFINE q == s.cp
             t == q[i]
             v == [t EXCEPT !.bufs = bufs]
  <2>1. v \in Trans /\ v.id = t.id /\ v.bufs = bufs
    BY <1>4, <1>6 DEF Trans
  <2>2. u.cp = [q EXCEPT ![i] = v] /\ q \in Seq(Trans) /\ i \in DOMAIN q
    BY <1>2, <1>4, <1>8
  <2> HIDE DEF v
  <2>3. [q EXCEPT ![i] = v] \in Seq(Trans)
    <3> HIDE DEF q, t
    <3> QED
      BY <2>1, <2>2
  <2> QED
    BY <2>1, <2>2, <2>3
<1>10. /\ \A c \in Blocks : c # b => u.rec[c] = s.rec[c]
       /\ u.rec[b].queue = queue /\ u.rec[b].t = s.rec[b].t /\ u.rec \in [Blocks -> Recs]
  BY <1>4, <1>7, <1>8, ZenonT(30) DEF Recs
<1>11. Typed(u)
  BY <1>8, <1>9, <1>10 DEF Linked, Typed
<1>12. Ids(u)
  BY <1>8, <1>9 DEF Linked, Ids
<1>13. Owned(u)
  <2>1. Mine(u.cur)
    BY <1>8 DEF Linked, Owned
  <2>2. ASSUME NEW k \in DOMAIN s.cp PROVE Mine(u.cp[k])
    <3>1. Mine(s.cp[k])
      BY DEF Linked, Owned
    <3>2. CASE k = i
      BY <1>6, <1>9, <3>1, <3>2 DEF Mine
    <3>3. CASE k # i
      BY <1>9, <3>1, <3>3
    <3> QED
      BY <3>2, <3>3
  <2> QED
    BY <1>9, <2>1, <2>2 DEF Owned
<1>14. Waiting(u) = Waiting(s) \ {j}
  <2>1. j \notin Elems(s.cur.bufs)
    BY DEF Linked, Owned, Mine
  <2>2. \A k \in DOMAIN s.cp : k # i => j \notin Elems(s.cp[k].bufs)
    BY <1>2 DEF Linked, Owned, Mine, Ids
  <2>3. \A x : (\E k \in DOMAIN u.cp : x \in Elems(u.cp[k].bufs)) <=>
               (x # j /\ \E k \in DOMAIN s.cp : x \in Elems(s.cp[k].bufs))
    BY <1>2, <1>6, <1>9, <2>2
  <2> QED
    BY <1>8, <2>1, <2>3, SMTT(30) DEF Waiting
<1>15. Listed(u)
  <2> SUFFICES ASSUME NEW c \in Blocks
               PROVE  Elems(u.rec[c].queue) = {x \in Waiting(u) : x.lba = c} /\ Distinct(u.rec[c].queue)
    BY DEF Listed
  <2>1. Elems(s.rec[c].queue) = {x \in Waiting(s) : x.lba = c} /\ Distinct(s.rec[c].queue)
    BY DEF Linked, Listed
  <2>2. CASE c = b
    BY <1>7, <1>10, <1>14, <2>1, <2>2
  <2>3. CASE c # b
    BY <1>1, <1>10, <1>14, <2>1, <2>3
  <2> QED
    BY <2>2, <2>3
<1>16. Held(u, X)
  <2>1. \A c \in Blocks : u.rec[c].t = s.rec[c].t
    BY <1>10
  <2> QED
    BY <1>8, <2>1 DEF Linked, Held, Refs
<1>17. \A k \in DOMAIN s.cp : /\ u.cp[k].id = s.cp[k].id /\ u.cp[k].data = s.cp[k].data
                              /\ u.cp[k].written = s.cp[k].written
                              /\ Len(u.cp[k].bufs) = Len(s.cp[k].bufs) - IF k = i THEN 1 ELSE 0
  <2> TAKE k \in DOMAIN s.cp
  <2>1. CASE k = i
    <3>1. /\ u.cp[i].id = s.cp[i].id /\ u.cp[i].data = s.cp[i].data
          /\ u.cp[i].written = s.cp[i].written /\ u.cp[i].bufs = bufs
      BY <1>4, <1>8, <1>9 DEF Trans
    <3> QED
      BY <1>6, <2>1, <3>1
  <2>2. CASE k # i
    <3>1. u.cp[k] = s.cp[k] /\ Len(s.cp[k].bufs) \in Nat
      <4>1. s.cp[k] \in Trans
        BY <1>4
      <4> QED
        BY <1>9, <2>2, <4>1 DEF Trans
    <3> QED
      BY <2>2, <3>1
  <2> QED
    BY <2>1, <2>2
<1>18. Parts(u, X)
  BY <1>11, <1>12, <1>13, <1>15, <1>16 DEF Parts
<1>19. Unlinked(s, u, i, b, j, X)
  <2>1. \A c \in Blocks \ {b} : u.rec[c] = s.rec[c]
    BY <1>10
  <2>2. u.rec[b].queue = Without(s.rec[b].queue, j)
    BY <1>10 DEF queue
  <2> QED
    BY <1>1, <1>2, <1>3, <1>7, <1>8, <1>9, <1>10, <1>17, <1>18, <2>1, <2>2 DEF Unlinked
<1> QED
  BY <1>19 DEF u

\* One more written block in the count of transaction i.
Counted(s, i) == [s EXCEPT !.cp[i].written = @ + 1]

CountedAs(s, u, i, X) ==
  /\ Fit(u) /\ Parts(u, X)
  /\ u.cp[i] = [s.cp[i] EXCEPT !.written = @ + 1] /\ DOMAIN u.cp = DOMAIN s.cp
  /\ \A k \in DOMAIN s.cp : /\ u.cp[k].id = s.cp[k].id /\ u.cp[k].bufs = s.cp[k].bufs
                            /\ u.cp[k].data = s.cp[k].data
                            /\ u.cp[k].written = s.cp[k].written + IF k = i THEN 1 ELSE 0
  /\ u.rec = s.rec /\ u.cur = s.cur /\ u.buf = s.buf /\ u.alloc = s.alloc

LEMMA CountedParts ==
  ASSUME NEW s, Fit(s), NEW X, Parts(s, X), NEW i \in DOMAIN s.cp
  PROVE  CountedAs(s, Counted(s, i), i, X)
<1> DEFINE u == Counted(s, i)
           v == [s.cp[i] EXCEPT !.written = @ + 1]
<1>1. s.cp \in Seq(Trans) /\ s.cp[i] \in Trans /\ \A k \in DOMAIN s.cp : s.cp[k] \in Trans
  BY DEF Parts, Typed
<1>2. v \in Trans /\ v.id = s.cp[i].id /\ v.bufs = s.cp[i].bufs /\ v.data = s.cp[i].data
      /\ v.written = s.cp[i].written + 1
  <2> DEFINE t == s.cp[i]
  <2>1. t \in Trans
    BY <1>1
  <2> HIDE DEF t
  <2>2. /\ [t EXCEPT !.written = @ + 1] \in Trans /\ [t EXCEPT !.written = @ + 1].id = t.id
        /\ [t EXCEPT !.written = @ + 1].bufs = t.bufs /\ [t EXCEPT !.written = @ + 1].data = t.data
        /\ [t EXCEPT !.written = @ + 1].written = t.written + 1
    BY <2>1 DEF Trans
  <2> QED
    BY <2>2 DEF t
<1>3. /\ Fit(u) /\ u.cp = [s.cp EXCEPT ![i] = v] /\ u.rec = s.rec /\ u.cur = s.cur
      /\ u.buf = s.buf /\ u.alloc = s.alloc
  BY DEF Fit, Counted
<1> HIDE DEF u, v
<1>4. /\ DOMAIN u.cp = DOMAIN s.cp /\ u.cp \in Seq(Trans) /\ u.cp[i] = v
      /\ \A k \in DOMAIN s.cp : k # i => u.cp[k] = s.cp[k]
  <2> DEFINE q == s.cp
  <2>1. q \in Seq(Trans) /\ i \in DOMAIN q /\ u.cp = [q EXCEPT ![i] = v]
    BY <1>1, <1>3
  <2> HIDE DEF q
  <2>2. [q EXCEPT ![i] = v] \in Seq(Trans)
    BY <1>2, <2>1
  <2>3. DOMAIN u.cp = DOMAIN q /\ u.cp[i] = v /\ \A k \in DOMAIN q : k # i => u.cp[k] = q[k]
    BY <2>1
  <2> QED
    BY <2>1, <2>2, <2>3 DEF q
<1>5. \A k \in DOMAIN s.cp : /\ u.cp[k].id = s.cp[k].id /\ u.cp[k].bufs = s.cp[k].bufs
                             /\ u.cp[k].data = s.cp[k].data
                             /\ u.cp[k].written = s.cp[k].written + IF k = i THEN 1 ELSE 0
  <2>1. \A k \in DOMAIN s.cp : s.cp[k].written \in Nat
    BY <1>1 DEF Trans
  <2> QED
    BY <1>2, <1>4, <2>1
<1>6. Typed(u) /\ Ids(u)
  BY <1>3, <1>4, <1>5 DEF Parts, Typed, Ids
<1>7. Owned(u)
  BY <1>3, <1>4, <1>5 DEF Parts, Owned, Mine
<1>8. Listed(u)
  <2>1. Waiting(u) = Waiting(s)
    BY <1>3, <1>4, <1>5 DEF Waiting
  <2> QED
    BY <1>3, <2>1 DEF Parts, Listed
<1>9. Held(u, X)
  BY <1>3 DEF Parts, Held, Refs
<1> QED
  BY <1>3, <1>4, <1>5, <1>6, <1>7, <1>8, <1>9 DEF Parts, CountedAs, u, v

LEMMA Lengths ==
  ASSUME NEW s, Typed(s), NEW k \in DOMAIN s.cp
  PROVE  Len(s.cp[k].bufs) \in Nat /\ s.cp[k].written \in Nat /\ s.cp[k] \in Trans
<1>1. s.cp[k] \in Trans
  BY DEF Typed
<1> QED
  BY <1>1 DEF Trans

\* The counts while j is neither in its transaction nor written.
LEMMA UnlinkedCounts ==
  ASSUME NEW s, NEW u, NEW X, NEW e, Linked(s, X, 0, e), NEW b, NEW j, NEW i,
         Unlinked(s, u, i, b, j, X)
  PROVE  Counts(u, j.t)
<1>1. \A k \in DOMAIN s.cp : u.cp[k].id = j.t <=> k = i
  BY ZenonT(30) DEF Linked, Ids, Unlinked
<1>2. ASSUME NEW k \in DOMAIN s.cp
      PROVE  u.cp[k].data = u.cp[k].written + Len(u.cp[k].bufs) + IF u.cp[k].id = j.t THEN 1 ELSE 0
  <2>1. s.cp[k].id # 0
    BY DEF Linked, Ids
  <2>2. s.cp[k].data = s.cp[k].written + Len(s.cp[k].bufs) + 0
    BY <2>1 DEF Linked, Counts
  <2>3. Len(s.cp[k].bufs) \in Nat /\ s.cp[k].written \in Nat
    BY Lengths DEF Linked
  <2>4. /\ u.cp[k].data = s.cp[k].data /\ u.cp[k].written = s.cp[k].written
        /\ Len(u.cp[k].bufs) = Len(s.cp[k].bufs) - IF k = i THEN 1 ELSE 0
    BY DEF Unlinked
  <2>5. \A w, l \in Nat : w + l + 0 = w + (l - 1) + 1 /\ w + l + 0 = w + (l - 0) + 0
    OBVIOUS
  <2>6. CASE k = i
    BY <1>1, <2>2, <2>3, <2>4, <2>5, <2>6
  <2>7. CASE k # i
    BY <1>1, <2>2, <2>3, <2>4, <2>5, <2>7
  <2> QED
    BY <2>6, <2>7
<1>3. i \in DOMAIN u.cp /\ u.cp[i].id = j.t
  BY DEF Unlinked
<1> QED
  BY <1>2, <1>3 DEF Counts, Unlinked

\* The counts when j of another transaction is written meanwhile.
LEMMA UnlinkedCountedCounts ==
  ASSUME NEW s, NEW u, NEW v, NEW X, NEW o, NEW e, Linked(s, X, o, e), NEW b, NEW j, NEW i,
         Unlinked(s, u, i, b, j, X), CountedAs(u, v, i, X)
  PROVE  Counts(v, o)
<1>1. ASSUME NEW k \in DOMAIN s.cp
      PROVE  v.cp[k].data = v.cp[k].written + Len(v.cp[k].bufs) + IF v.cp[k].id = o THEN 1 ELSE 0
  <2>1. s.cp[k].data = s.cp[k].written + Len(s.cp[k].bufs) + IF s.cp[k].id = o THEN 1 ELSE 0
    BY DEF Linked, Counts
  <2>2. Len(s.cp[k].bufs) \in Nat /\ s.cp[k].written \in Nat
    BY Lengths DEF Linked
  <2>3. /\ u.cp[k].data = s.cp[k].data /\ u.cp[k].id = s.cp[k].id /\ k \in DOMAIN u.cp
        /\ u.cp[k].written = s.cp[k].written
        /\ Len(u.cp[k].bufs) = Len(s.cp[k].bufs) - IF k = i THEN 1 ELSE 0
    BY DEF Unlinked
  <2>4. /\ v.cp[k].data = u.cp[k].data /\ v.cp[k].id = u.cp[k].id /\ v.cp[k].bufs = u.cp[k].bufs
        /\ v.cp[k].written = u.cp[k].written + IF k = i THEN 1 ELSE 0
    BY <2>3 DEF CountedAs
  <2> DEFINE a == IF s.cp[k].id = o THEN 1 ELSE 0
  <2>5. a \in Nat
    OBVIOUS
  <2>6. v.cp[k].data = s.cp[k].data /\ (IF v.cp[k].id = o THEN 1 ELSE 0) = a
        /\ s.cp[k].data = s.cp[k].written + Len(s.cp[k].bufs) + a
    BY <2>1, <2>3, <2>4
  <2> HIDE DEF a
  <2>8. /\ v.cp[k].written = s.cp[k].written + IF k = i THEN 1 ELSE 0
        /\ Len(v.cp[k].bufs) = Len(s.cp[k].bufs) - IF k = i THEN 1 ELSE 0
    BY <2>3, <2>4
  <2>9. v.cp[k].written + Len(v.cp[k].bufs) + a = s.cp[k].written + Len(s.cp[k].bufs) + a
    <3> DEFINE W == s.cp[k].written
               L == Len(s.cp[k].bufs)
               V == v.cp[k].written
               M == Len(v.cp[k].bufs)
    <3>1. /\ W \in Nat /\ L \in Nat /\ a \in Nat
          /\ (k = i => V = W + 1 /\ M = L - 1) /\ (k # i => V = W + 0 /\ M = L - 0)
      BY <2>2, <2>5, <2>8
    <3> HIDE DEF W, L, V, M
    <3>2. V + M + a = W + L + a
      BY <3>1
    <3> QED
      BY <3>2 DEF W, L, V, M
  <2> QED
    BY <2>6, <2>9
<1>2. ASSUME NEW k \in DOMAIN s.cp, s.cp[k].id = o PROVE k \in DOMAIN v.cp /\ v.cp[k].id = o
  <2>1. u.cp[k].id = s.cp[k].id /\ k \in DOMAIN u.cp
    BY DEF Unlinked
  <2> QED
    BY <1>2, <2>1 DEF CountedAs
<1>3. o # 0 => \E k \in DOMAIN v.cp : v.cp[k].id = o
  BY <1>2 DEF Linked, Counts
<1> QED
  BY <1>1, <1>3 DEF Counts, Unlinked, CountedAs

LEMMA CountedCounts ==
  ASSUME NEW s, NEW u, NEW X, NEW i \in DOMAIN s.cp, Parts(s, X), Counts(s, s.cp[i].id),
         CountedAs(s, u, i, X)
  PROVE  Counts(u, 0)
<1>1. ASSUME NEW k \in DOMAIN s.cp
      PROVE  u.cp[k].data = u.cp[k].written + Len(u.cp[k].bufs) + IF u.cp[k].id = 0 THEN 1 ELSE 0
  <2>1. s.cp[k].data = s.cp[k].written + Len(s.cp[k].bufs) + IF k = i THEN 1 ELSE 0
    BY DEF Parts, Ids, Counts
  <2>2. Len(s.cp[k].bufs) \in Nat /\ s.cp[k].written \in Nat
    BY Lengths DEF Parts
  <2>3. /\ u.cp[k].data = s.cp[k].data /\ u.cp[k].id # 0 /\ u.cp[k].bufs = s.cp[k].bufs
        /\ u.cp[k].written = s.cp[k].written + IF k = i THEN 1 ELSE 0
    BY DEF CountedAs, Parts, Ids
  <2> QED
    BY <2>1, <2>2, <2>3
<1> QED
  BY <1>1 DEF Counts, CountedAs

LEMMA PositionFrom ==
  ASSUME NEW s, Ids(s), NEW i \in DOMAIN s.cp, NEW t, s.cp[i].id = t
  PROVE  PositionOf(s, t) = i
<1>1. \A k \in DOMAIN s.cp : s.cp[k].id = t => k = i
  BY DEF Ids
<1> QED
  BY <1>1 DEF PositionOf

\* What an older buffer's end leaves: its record without it, the others as they were.
EndedOlder(s, u, b, j, o) ==
  /\ u.buf = s.buf /\ u.cur = s.cur /\ u.alloc = s.alloc
  /\ u.rec[b].queue = Without(s.rec[b].queue, j)
  /\ u.rec[b].t = o \/ u.rec[b].queue = <<>>
  /\ \A c \in Blocks \ {b} : u.rec[c].queue = s.rec[c].queue

LEMMA EndOlderLinked ==
  ASSUME NEW s, Fit(s), NEW X, NEW o, o # 0, NEW b \in Blocks, Linked(s, X, o, b), s.rec[b].t = o,
         NEW j \in Elems(s.rec[b].queue), j.t # s.cur.id, j.t # o
  PROVE  /\ Fit(EndOlder(s, j)) /\ Linked(EndOlder(s, j), X, o, b)
         /\ EndedOlder(s, EndOlder(s, j), b, j, o)
<1> DEFINE u == Unlink(s, j)
<1>1. PICK i \in DOMAIN s.cp : Unlinked(s, u, i, b, j, X)
  BY UnlinkParts
<1> DEFINE first == IsFirst(s, j.t)
           v == Counted(u, i)
           w == EndFirst(v, v.cp[i], first)
<1>2. EndOlder(s, j) = CountWritten(u, j, first)
  BY DEF EndOlder
<1> HIDE DEF u, first
<1>3. Fit(u) /\ Parts(u, X) /\ i \in DOMAIN u.cp /\ u.cp[i].id = j.t
  BY <1>1 DEF Unlinked
<1>4. CountedAs(u, v, i, X)
  BY <1>3, CountedParts
<1>5. PositionOf(u, j.t) = i
  BY <1>3, PositionFrom DEF Parts
<1>6. CountWritten(u, j, first) = w
  <2>1. CountWritten(u, j, first) = EndFirst(v, [u.cp[i] EXCEPT !.written = @ + 1], first)
    BY <1>5 DEF CountWritten, Counted
  <2> QED
    BY <1>4, <2>1 DEF CountedAs
<1> HIDE DEF v
<1>7. Counts(v, o)
  BY <1>1, <1>4, UnlinkedCountedCounts
<1>8. /\ v.rec[b].queue = Without(s.rec[b].queue, j) /\ v.rec[b].t = o
      /\ \A c \in Blocks \ {b} : v.rec[c] = s.rec[c]
      /\ v.buf = s.buf /\ v.cur = s.cur /\ v.alloc = s.alloc
  BY <1>1, <1>4 DEF Unlinked, CountedAs
<1>9. Latest(v, o, b)
  <2> SUFFICES ASSUME NEW c \in Blocks
               PROVE  Settles(v, c) \/ (o # 0 /\ c = b /\ v.rec[c].t = o)
    BY DEF Latest
  <2>1. CASE c = b
    BY <1>8, <2>1
  <2>2. CASE c # b
    BY <1>8, <2>2 DEF Linked, Latest, Settles, LatestOwns, EndIsKnown
  <2> QED
    BY <2>1, <2>2
<1>10. Linked(v, X, o, b) /\ Fit(v) /\ i \in DOMAIN v.cp
  BY <1>3, <1>4, <1>7, <1>9, LinkedParts DEF CountedAs
<1>11. Fit(w) /\ Linked(w, X, o, b) /\ Passed(v, w)
  BY <1>10, EndFirstLinked
<1> HIDE DEF w
<1>12. EndedOlder(s, w, b, j, o)
  <2>1. \A c \in Blocks : w.rec[c].queue = v.rec[c].queue /\ (w.rec[c] = v.rec[c] \/ w.rec[c].queue = <<>>)
    BY <1>11 DEF Passed, NoRec
  <2>2. w.buf = s.buf /\ w.cur = s.cur /\ w.alloc = s.alloc
    BY <1>8, <1>11 DEF Passed
  <2> QED
    BY <1>8, <2>1, <2>2 DEF EndedOlder
<1> QED
  BY <1>2, <1>6, <1>11, <1>12

LEMMA NoElems ==
  ASSUME NEW S, NEW q \in Seq(S), Elems(q) = {}
  PROVE  q = <<>>
<1>1. Len(q) \in Nat /\ DOMAIN q = 1 .. Len(q)
  OBVIOUS
<1>2. Len(q) # 0 => 1 \in DOMAIN q
  BY <1>1
<1>3. Len(q) = 0
  BY <1>2 DEF Elems
<1> QED
  BY <1>3, EmptySeq

\* What a loop over q has not met after its turn i.
Rest(q, i) == {q[k] : k \in i + 1 .. Len(q)}

LEMMA RestParts ==
  ASSUME NEW S, NEW q \in Seq(S)
  PROVE  /\ Len(q) \in Nat /\ Rest(q, 0) = Elems(q) /\ Rest(q, Len(q)) = {}
         /\ \A i \in 1 .. Len(q) : q[i] \in Rest(q, i - 1) /\ q[i] \in Elems(q) /\ q[i] \in S
         /\ \A i \in 0 .. Len(q) : Rest(q, i) \subseteq Elems(q)
         /\ Distinct(q) => \A i \in 1 .. Len(q) : Rest(q, i) = Rest(q, i - 1) \ {q[i]}
<1>1. Len(q) \in Nat /\ DOMAIN q = 1 .. Len(q) /\ \A i \in 1 .. Len(q) : q[i] \in S
  OBVIOUS
<1> DEFINE n == Len(q)
<1> HIDE DEF n
<1>2. \A i \in 1 .. n : i \in (i - 1) + 1 .. n
  BY <1>1 DEF n
<1>3. 0 + 1 .. n = 1 .. n /\ n + 1 .. n = {}
  BY <1>1 DEF n
<1>4. \A i \in 0 .. n : i + 1 .. n \subseteq 1 .. n
  BY <1>1 DEF n
<1>5. ASSUME Distinct(q), NEW i \in 1 .. n PROVE Rest(q, i) = Rest(q, i - 1) \ {q[i]}
  <2>1. i + 1 .. n \subseteq 1 .. n /\ i \notin i + 1 .. n
    BY <1>1 DEF n
  <2>2. \A k \in 1 .. n : q[k] = q[i] => k = i
    BY <1>1, <1>5 DEF Distinct, n
  <2>3. (i - 1) + 1 .. n = {i} \cup (i + 1 .. n)
    BY <1>1 DEF n
  <2>4. Rest(q, i) = {q[k] : k \in i + 1 .. n} /\ Rest(q, i - 1) = {q[k] : k \in {i} \cup (i + 1 .. n)}
    BY <2>3 DEF Rest, n
  <2> QED
    BY <2>1, <2>2, <2>4
<1>6. \A i \in 1 .. n : q[i] \in Rest(q, i - 1) /\ q[i] \in Elems(q)
  BY <1>1, <1>2 DEF Rest, Elems, n
<1>7. Rest(q, 0) = Elems(q) /\ Rest(q, n) = {} /\ \A i \in 0 .. n : Rest(q, i) \subseteq Elems(q)
  BY <1>1, <1>3, <1>4 DEF Rest, Elems, n
<1> QED
  BY <1>1, <1>5, <1>6, <1>7 DEF n

\* What happens to block b when a buffer of it is at its place.
Wrote(s, u, b) ==
  /\ u.cur = s.cur /\ u.alloc = s.alloc
  /\ \A c \in Blocks \ {b} : u.buf[c] = s.buf[c] /\ u.rec[c].queue = s.rec[c].queue
  /\ u.buf[b].cached = s.buf[b].cached
  /\ b \in Lbas(s.cur) => u.buf[b] = s.buf[b]

LEMMA WroteTwice ==
  ASSUME NEW s, NEW u, NEW v, NEW b, Wrote(s, u, b), Wrote(u, v, b)
  PROVE  Wrote(s, v, b)
BY DEF Wrote

LEMMA PassedWrote ==
  ASSUME NEW s, NEW u, NEW b, Passed(s, u)
  PROVE  Wrote(s, u, b)
BY DEF Wrote, Passed, NoRec

LEMMA EndOldersLinked ==
  ASSUME NEW s, Fit(s), NEW X, NEW o, o # 0, NEW b \in Blocks, Linked(s, X, o, b), s.rec[b].t = o,
         \A x \in Elems(s.rec[b].queue) : x.t # s.cur.id /\ x.t # o, b \notin Lbas(s.cur)
  PROVE  \E u : /\ u = EndOlders(s, b, s.buf[b].cached)
                /\ Fit(u) /\ Linked(u, X, o, b) /\ Settles(u, b) /\ Wrote(s, u, b)
<1> DEFINE q == s.rec[b].queue
           n == Len(q)
<1>1. q \in Seq(Bufs) /\ Distinct(q)
  BY DEF Linked, Typed, Recs, Listed
<1> HIDE DEF q
<1>2. /\ n \in Nat /\ Rest(q, 0) = Elems(q) /\ Rest(q, n) = {}
      /\ \A i \in 1 .. n : q[i] \in Rest(q, i - 1) /\ q[i] \in Elems(q)
      /\ \A i \in 1 .. n : Rest(q, i) = Rest(q, i - 1) \ {q[i]}
  BY <1>1, RestParts
<1>3. PICK f : /\ f[0] = s /\ AllEndOlder(s, q) = f[n]
               /\ \A i \in 1 .. n : f[i] = EndOlder(f[i - 1], q[i])
  BY <1>2, EndOlderSteps
<1> HIDE DEF n
<1> DEFINE At(i) ==
             /\ Fit(f[i]) /\ Linked(f[i], X, o, b) /\ f[i].buf = s.buf /\ f[i].cur = s.cur
             /\ f[i].alloc = s.alloc /\ (f[i].rec[b].t = o \/ f[i].rec[b].queue = <<>>)
             /\ Elems(f[i].rec[b].queue) = Rest(q, i)
             /\ \A c \in Blocks \ {b} : f[i].rec[c].queue = s.rec[c].queue
           S == {i \in Int : At(i)}
<1>4. 0 \in S
  BY <1>2, <1>3 DEF q
<1>5. ASSUME NEW i \in 1 .. n, i - 1 \in S PROVE i \in S
  <2> DEFINE v == f[i - 1]
             j == q[i]
             w == EndOlder(v, j)
  <2>1. /\ Fit(v) /\ Linked(v, X, o, b) /\ v.buf = s.buf /\ v.cur = s.cur
        /\ v.alloc = s.alloc /\ (v.rec[b].t = o \/ v.rec[b].queue = <<>>)
        /\ Elems(v.rec[b].queue) = Rest(q, i - 1)
        /\ \A c \in Blocks \ {b} : v.rec[c].queue = s.rec[c].queue
    BY <1>5
  <2>2. f[i] = w
    BY <1>3
  <2> HIDE DEF v, S
  <2>3. j \in Elems(v.rec[b].queue) /\ j \in Elems(q) /\ Rest(q, i) = Rest(q, i - 1) \ {j}
    BY <1>2, <2>1
  <2> HIDE DEF j
  <2>4. v.rec[b].queue # <<>>
    BY <2>3 DEF Elems
  <2>5. v.rec[b].t = o /\ j.t # v.cur.id /\ j.t # o
    BY <2>1, <2>3, <2>4 DEF q
  <2>6. Fit(w) /\ Linked(w, X, o, b) /\ EndedOlder(v, w, b, j, o)
    BY <2>1, <2>3, <2>5, EndOlderLinked
  <2> HIDE DEF w
  <2>7. Elems(w.rec[b].queue) = Rest(q, i)
    <3>1. v.rec[b].queue \in Seq(Bufs) /\ Distinct(v.rec[b].queue)
      BY <2>1 DEF Linked, Typed, Recs, Listed
    <3>2. Elems(Without(v.rec[b].queue, j)) = Elems(v.rec[b].queue) \ {j}
      BY <2>3, <3>1, WithoutParts
    <3> QED
      BY <2>1, <2>3, <2>6, <3>2 DEF EndedOlder
  <2>8. /\ w.buf = s.buf /\ w.cur = s.cur /\ w.alloc = s.alloc
        /\ (w.rec[b].t = o \/ w.rec[b].queue = <<>>)
        /\ \A c \in Blocks \ {b} : w.rec[c].queue = s.rec[c].queue
    BY <2>1, <2>6 DEF EndedOlder
  <2>9. At(i)
    BY <2>2, <2>6, <2>7, <2>8
  <2> QED
    BY <2>9 DEF S
<1> HIDE DEF S
<1>6. n \in S
  BY <1>2, <1>4, <1>5, AllTurns DEF n
<1> DEFINE v == f[n]
           x == IF s.buf[b].cached THEN [s.buf[b] EXCEPT !.end = None] ELSE s.buf[b]
           u == [v EXCEPT !.buf = [@ EXCEPT ![b] = x]]
<1>7. /\ Fit(v) /\ Linked(v, X, o, b) /\ v.buf = s.buf /\ v.cur = s.cur /\ v.alloc = s.alloc
      /\ Elems(v.rec[b].queue) = {} /\ \A c \in Blocks \ {b} : v.rec[c].queue = s.rec[c].queue
  BY <1>2, <1>6 DEF S, n
<1>8. AllEndOlder(s, q) = v
  BY <1>3
<1> HIDE DEF v
<1>9. EndOlders(s, b, s.buf[b].cached) = u
  BY <1>7, <1>8 DEF EndOlders, AllEndOlder, q
<1>10. v.rec[b].queue = <<>>
  <2>1. v.rec[b].queue \in Seq(Bufs)
    BY <1>7 DEF Linked, Typed, Recs
  <2> QED
    BY <1>7, <2>1, NoElems
<1>11. /\ Fit(u) /\ u.cp = v.cp /\ u.cur = v.cur /\ u.rec = v.rec /\ u.alloc = v.alloc
       /\ u.buf = [v.buf EXCEPT ![b] = x]
  <2> HIDE DEF x
  <2> QED
    BY <1>7 DEF Fit
<1>12. /\ IsBuf(x) /\ x.cached = s.buf[b].cached
       /\ x.cached => x.refs = s.buf[b].refs /\ x.end = None
  BY DEF Linked, Typed, IsBuf, None, Keys
<1> HIDE DEF u, x
<1>13. Linked(u, X, o, b)
  <2>1. x.cached => x.refs = Refs(v, X, b) /\ x.end = None
    BY <1>7, <1>12 DEF Linked, Held
  <2>2. ~x.cached => b \notin Lbas(v.cur) \cup X
    BY <1>7, <1>12 DEF Linked, Held
  <2> QED
    BY <1>7, <1>11, <1>12, <2>1, <2>2, BufLinked
<1>14. u.buf[b] = x /\ \A c \in Blocks \ {b} : u.buf[c] = s.buf[c]
  BY <1>7, <1>11 DEF Linked, Typed
<1>15. Settles(u, b)
  BY <1>10, <1>11, <1>12, <1>14 DEF Settles, LatestOwns, EndIsKnown
<1>16. Wrote(s, u, b)
  BY <1>7, <1>11, <1>12, <1>14 DEF Wrote
<1> QED
  BY <1>9, <1>11, <1>13, <1>15, <1>16

LEMMA EndWriteLinked ==
  ASSUME NEW s, Fit(s), NEW X, Linked(s, X, 0, 0), NEW b \in Blocks,
         NEW j \in Elems(s.rec[b].queue), j.t # s.cur.id
  PROVE  \E u : /\ u = EndWrite(s, j, s.buf[b].cached)
                /\ Fit(u) /\ Linked(u, X, 0, 0) /\ Wrote(s, u, b)
<1> DEFINE u == Unlink(s, j)
           o == j.t
           had == s.buf[b].cached
           first == IsFirst(s, j.t)
           v == IF s.rec[b].t = o THEN EndOlders(u, b, had) ELSE u
<1>1. PICK i \in DOMAIN s.cp : Unlinked(s, u, i, b, j, X)
  BY UnlinkParts
<1>2. EndWrite(s, j, had) = CountWritten(v, j, first)
  BY <1>1 DEF EndWrite, Unlinked
<1> HIDE DEF u, v, o
<1>3. Linked(u, X, o, b) /\ Fit(u) /\ o # 0 /\ o # s.cur.id
  <2>1. o # 0 /\ o # s.cur.id
    BY <1>1 DEF Unlinked, Linked, Ids, o
  <2>2. Counts(u, o)
    BY <1>1, UnlinkedCounts DEF o
  <2>3. ASSUME NEW c \in Blocks
        PROVE  Settles(u, c) \/ (o # 0 /\ c = b /\ u.rec[c].t = o)
    <3>0. Settles(s, c)
      BY DEF Linked, Latest
    <3>1. CASE c # b
      BY <1>1, <3>0, <3>1 DEF Unlinked, Settles, LatestOwns, EndIsKnown
    <3>2. CASE c = b /\ u.rec[b].t # o
      <4>1. /\ u.rec[b].t = s.rec[b].t /\ u.buf = s.buf
            /\ Elems(u.rec[b].queue) = Elems(s.rec[b].queue) \ {j}
            /\ Key(Last(s.rec[b].queue)) # Key(j) => Last(u.rec[b].queue) = Last(s.rec[b].queue)
        BY <1>1 DEF Unlinked
      <4>2. s.rec[b].queue # <<>>
        BY DEF Elems
      <4>3. Last(s.rec[b].queue).t # j.t
        BY <3>0, <3>2, <4>1, <4>2 DEF Settles, LatestOwns, o
      <4>4. Key(Last(s.rec[b].queue)) # Key(j)
        BY <4>3 DEF Key
      <4>5. LatestOwns(u, b)
        BY <3>0, <3>2, <4>1, <4>2, <4>4 DEF Settles, LatestOwns
      <4>6. s.buf[b].cached /\ s.buf[b].end # None => s.buf[b].end # Key(j)
        BY <3>0, <3>2, <4>1 DEF Settles, EndIsKnown, o, Key
      <4>7. EndIsKnown(u, b)
        BY <3>0, <3>2, <4>1, <4>6 DEF Settles, EndIsKnown
      <4> QED
        BY <3>2, <4>5, <4>7 DEF Settles
    <3>3. CASE c = b /\ u.rec[b].t = o
      BY <2>1, <3>3
    <3> QED
      BY <3>1, <3>2, <3>3
  <2>4. Latest(u, o, b)
    BY <2>3 DEF Latest
  <2> QED
    BY <1>1, <2>1, <2>2, <2>4, LinkedParts DEF Unlinked
<1>4. Wrote(s, u, b)
  BY <1>1 DEF Unlinked, Wrote
<1>5. Fit(v) /\ Linked(v, X, o, b) /\ Settles(v, b) /\ Wrote(u, v, b)
  <2>1. CASE s.rec[b].t = o
    <3>1. u.rec[b].t = o /\ u.buf = s.buf /\ u.cur = s.cur
      BY <1>1, <2>1 DEF Unlinked
    <3>2. b \notin Lbas(u.cur)
      BY <1>3, <2>1, <3>1 DEF Linked, Held
    <3>3. ASSUME NEW x \in Elems(u.rec[b].queue) PROVE x.t # u.cur.id /\ x.t # o
      <4>1. x \in Elems(s.rec[b].queue) /\ x # j
        BY <1>1 DEF Unlinked
      <4>2. x \in Waiting(s) /\ x.lba = b
        BY <4>1, InRecord
      <4>3. x.t # s.cur.id
        BY <3>1, <3>2, <4>2, OwnerOf
      <4>4. x.t # o
        <5>1. SUFFICES ASSUME x.t = o PROVE FALSE
          OBVIOUS
        <5>2. PICK k \in DOMAIN s.cp : s.cp[k].id = x.t /\ x \in Elems(s.cp[k].bufs)
          BY <4>2, <4>3, OwnerOf
        <5>3. k = i /\ j \in Elems(s.cp[i].bufs) /\ j.lba = b
          BY <1>1, <5>1, <5>2 DEF Unlinked, Linked, Ids, o
        <5>4. Apart(s.cp[i].bufs)
          BY DEF Linked, Owned, Mine
        <5> QED
          BY <4>1, <4>2, <5>2, <5>3, <5>4 DEF Apart, Elems
      <4> QED
        BY <3>1, <4>3, <4>4
    <3>4. \E w : /\ w = EndOlders(u, b, u.buf[b].cached)
                 /\ Fit(w) /\ Linked(w, X, o, b) /\ Settles(w, b) /\ Wrote(u, w, b)
      BY <1>3, <3>1, <3>2, <3>3, EndOldersLinked
    <3>5. v = EndOlders(u, b, u.buf[b].cached)
      BY <2>1, <3>1 DEF v
    <3> QED
      BY <3>4, <3>5
  <2>2. CASE s.rec[b].t # o
    <3>1. u.rec[b].t # o
      BY <1>1, <2>2 DEF Unlinked
    <3>2. Settles(u, b)
      BY <1>3, <3>1 DEF Linked, Latest
    <3> QED
      BY <1>3, <2>2, <3>2 DEF v, Wrote
  <2> QED
    BY <2>1, <2>2
<1>6. PICK k \in DOMAIN v.cp : v.cp[k].id = o
  BY <1>3, <1>5 DEF Linked, Counts
<1> DEFINE w == Counted(v, k)
           z == EndFirst(w, w.cp[k], first)
<1>7. Parts(v, X) /\ Counts(v, o) /\ Latest(v, o, b)
  BY <1>5, LinkedParts
<1>8. CountedAs(v, w, k, X)
  BY <1>5, <1>7, CountedParts
<1>9. CountWritten(v, j, first) = z
  <2>1. PositionOf(v, j.t) = k
    BY <1>6, <1>7, PositionFrom DEF Parts, o
  <2>2. CountWritten(v, j, first) = EndFirst(w, [v.cp[k] EXCEPT !.written = @ + 1], first)
    BY <2>1 DEF CountWritten, Counted
  <2> QED
    BY <1>8, <2>2 DEF CountedAs
<1> HIDE DEF w
<1>10. Linked(w, X, 0, 0) /\ Fit(w) /\ k \in DOMAIN w.cp /\ Wrote(v, w, b)
  <2>1. Counts(w, 0)
    BY <1>6, <1>7, <1>8, CountedCounts
  <2>2. w.rec = v.rec /\ w.buf = v.buf /\ w.cur = v.cur /\ w.alloc = v.alloc
    BY <1>8 DEF CountedAs
  <2>3. \A c \in Blocks : Settles(v, c)
    BY <1>5, <1>7 DEF Latest
  <2>4. Latest(w, 0, 0)
    BY <2>2, <2>3 DEF Latest, Settles, LatestOwns, EndIsKnown
  <2>5. Parts(w, X) /\ Fit(w) /\ k \in DOMAIN w.cp
    BY <1>8 DEF CountedAs
  <2> QED
    BY <2>1, <2>2, <2>4, <2>5, LinkedParts DEF Wrote
<1>11. Fit(z) /\ Linked(z, X, 0, 0) /\ Passed(w, z)
  BY <1>10, EndFirstLinked
<1> HIDE DEF z
<1>12. Wrote(s, z, b)
  <2>1. Wrote(w, z, b)
    BY <1>11, PassedWrote
  <2>2. Wrote(s, v, b)
    BY <1>4, <1>5, WroteTwice
  <2>3. Wrote(s, w, b)
    BY <1>10, <2>2, WroteTwice
  <2> QED
    BY <2>1, <2>3, WroteTwice
<1> QED
  BY <1>2, <1>9, <1>11, <1>12

----------------------------------------------------------------------------
(* The cache *)

LEMMA FlushBufLinked ==
  ASSUME NEW s, Fit(s), NEW X, Linked(s, X, 0, 0), NEW b \in Blocks, b \notin Lbas(s.cur),
         s.buf[b].cached
  PROVE  Fit(FlushBuf(s, b)) /\ Linked(FlushBuf(s, b), X, 0, 0) /\ Wrote(s, FlushBuf(s, b), b)
<1> DEFINE i == Issue(s, Write("disk", b, s.buf[b].val))
           x == [s.buf[b] EXCEPT !.dirty = FALSE]
           clean == [i EXCEPT !.buf[b].dirty = FALSE]
<1>0. FlushBuf(s, b) = IF ~(s.buf[b].dirty /\ s.buf[b].upto) THEN s
                        ELSE IF s.buf[b].end = None THEN clean
                        ELSE EndWrite(clean, EndOf(s, b), TRUE)
  BY DEF FlushBuf
<1>1. Fit(i) /\ Same(s, i)
  BY IssueSame
<1>2. Linked(i, X, 0, 0) /\ i.buf = s.buf /\ i.cur = s.cur /\ i.rec = s.rec /\ i.alloc = s.alloc
  BY <1>1, SameLinked DEF Same
<1> HIDE DEF i
<1>3. /\ Fit(clean) /\ clean.cp = i.cp /\ clean.cur = i.cur /\ clean.rec = i.rec
      /\ clean.alloc = i.alloc /\ clean.buf = [i.buf EXCEPT ![b] = x]
  BY <1>1, <1>2 DEF Fit
<1>4. /\ IsBuf(x) /\ x.cached /\ x.refs = s.buf[b].refs /\ x.end = s.buf[b].end
      /\ s.buf[b].refs = Refs(s, X, b)
  BY DEF Linked, Typed, IsBuf, Held
<1> HIDE DEF x, clean
<1>5. Linked(clean, X, 0, 0)
  <2>1. Refs(s, X, b) = Refs(i, X, b)
    BY <1>2 DEF Refs
  <2> QED
    BY <1>2, <1>3, <1>4, <2>1, BufLinked
<1>6. clean.buf[b] = x /\ \A c \in Blocks \ {b} : clean.buf[c] = s.buf[c]
  BY <1>2, <1>3 DEF Linked, Typed
<1>7. Wrote(s, clean, b)
  BY <1>2, <1>3, <1>4, <1>6 DEF Wrote
<1>8. ASSUME s.buf[b].end # None
      PROVE  \E u : /\ u = EndWrite(clean, EndOf(s, b), TRUE)
                    /\ Fit(u) /\ Linked(u, X, 0, 0) /\ Wrote(s, u, b)
  <2> DEFINE j == EndOf(s, b)
  <2>1. \E y \in Elems(s.rec[b].queue) : Key(y) = s.buf[b].end
    BY <1>8 DEF Linked, Latest, Settles, EndIsKnown
  <2>2. j \in Elems(clean.rec[b].queue)
    BY <1>2, <1>3, <2>1, ZenonT(30) DEF EndOf, Elems
  <2>3. j \in Waiting(clean) /\ j.lba = b
    BY <1>5, <2>2, InRecord
  <2> HIDE DEF j
  <2>4. b \notin Lbas(clean.cur)
    BY <1>2, <1>3
  <2>5. j.t # clean.cur.id
    BY <1>5, <2>3, <2>4, OwnerOf
  <2>6. \E u : /\ u = EndWrite(clean, j, clean.buf[b].cached)
               /\ Fit(u) /\ Linked(u, X, 0, 0) /\ Wrote(clean, u, b)
    BY <1>3, <1>5, <2>2, <2>5, EndWriteLinked
  <2>7. clean.buf[b].cached = TRUE
    BY <1>4, <1>6 DEF IsBuf
  <2> QED
    BY <1>7, <2>6, <2>7, WroteTwice DEF j
<1>9. Wrote(s, s, b)
  BY DEF Wrote
<1> QED
  BY <1>0, <1>3, <1>5, <1>7, <1>8, <1>9

\* What a caller's release of block b leaves as it was.
Released(s, u, b) ==
  /\ u.cur = s.cur /\ u.alloc = s.alloc
  /\ \A c \in Blocks \ {b} : u.buf[c] = s.buf[c] /\ u.rec[c].queue = s.rec[c].queue
  /\ b \in Lbas(s.cur) => u.buf[b] = [s.buf[b] EXCEPT !.refs = @ - 1]

LEMMA PutLinked ==
  ASSUME NEW s, Fit(s), NEW X, Linked(s, X, 0, 0), NEW b \in Blocks, b \in X
  PROVE  /\ Fit(Put(s, b)) /\ Linked(Put(s, b), X \ {b}, 0, 0) /\ Released(s, Put(s, b), b)
<1> DEFINE x == [s.buf[b] EXCEPT !.refs = @ - 1]
           a == [s EXCEPT !.buf[b].refs = @ - 1]
           t == Settled(a, b)
           u == DropStale(t, b)
           Y == X \ {b}
<1>1. s.buf[b].cached /\ s.buf[b].refs = Refs(s, X, b) /\ IsBuf(s.buf[b])
  BY DEF Linked, Held, Typed
<1>2. /\ s.buf[b].refs - 1 = Refs(s, Y, b) /\ Refs(s, Y, b) \in Nat
      /\ b \in Lbas(s.cur) => Refs(s, Y, b) > 0
      /\ Refs(s, Y, b) = 0 => b \notin Lbas(s.cur)
  BY <1>1 DEF Refs
<1>3. IsBuf(x) /\ x.cached /\ x.refs = Refs(s, Y, b) /\ x.end = s.buf[b].end
  BY <1>1, <1>2 DEF IsBuf
<1>4. /\ Fit(a) /\ a.cp = s.cp /\ a.cur = s.cur /\ a.rec = s.rec /\ a.alloc = s.alloc
      /\ a.buf = [s.buf EXCEPT ![b] = x]
  BY DEF Fit
<1>5. Put(s, b) = u
  BY DEF Put
<1> HIDE DEF a, x
<1>6. Linked(a, Y, 0, 0)
  BY <1>1, <1>3, <1>4, BufLinked
<1>7. a.buf[b] = x /\ \A c \in Blocks \ {b} : a.buf[c] = s.buf[c]
  BY <1>4 DEF Linked, Typed
<1>8. Fit(t) /\ Linked(t, Y, 0, 0) /\ Wrote(a, t, b)
  <2>1. CASE t = a
    BY <1>4, <1>6, <2>1 DEF Wrote
  <2>2. CASE t # a
    <3>1. ~(a.buf[b].refs > 0) /\ t = FlushBuf(a, b)
      BY <2>2 DEF Settled
    <3>2. b \notin Lbas(a.cur) /\ a.buf[b].cached
      BY <1>2, <1>3, <1>4, <1>7, <3>1
    <3> HIDE DEF t, Y
    <3>3. /\ Fit(FlushBuf(a, b)) /\ Linked(FlushBuf(a, b), Y, 0, 0)
          /\ Wrote(a, FlushBuf(a, b), b)
      BY <1>4, <1>6, <3>2, FlushBufLinked
    <3> QED
      BY <3>1, <3>3
  <2> QED
    BY <2>1, <2>2
<1> HIDE DEF t
<1>9. t.buf[b].cached /\ t.buf[b].refs = Refs(t, Y, b) /\ t.cur = s.cur
  BY <1>3, <1>4, <1>7, <1>8 DEF Wrote, Linked, Held
<1>10. b \in Lbas(s.cur) => t.buf[b] = x /\ t.buf[b].refs # 0
  BY <1>2, <1>3, <1>4, <1>7, <1>8 DEF Wrote
<1>11. CASE u = t
  <2>1. Released(s, t, b)
    BY <1>4, <1>7, <1>8, <1>10 DEF Released, Wrote, x
  <2> QED
    BY <1>5, <1>8, <1>11, <2>1
<1>12. CASE u # t
  <2>1. t.buf[b].refs = 0 /\ u = [t EXCEPT !.buf[b] = NoBuf]
    BY <1>12 DEF DropStale
  <2>2. b \notin Lbas(s.cur) /\ b \notin Y
    BY <1>10, <2>1
  <2>3. /\ Fit(u) /\ u.cp = t.cp /\ u.cur = t.cur /\ u.rec = t.rec /\ u.alloc = t.alloc
        /\ u.buf = [t.buf EXCEPT ![b] = NoBuf]
    BY <1>8, <2>1 DEF Fit
  <2> HIDE DEF u
  <2>4. IsBuf(NoBuf) /\ ~NoBuf.cached
    BY DEF IsBuf, NoBuf
  <2>5. Linked(u, Y, 0, 0)
    BY <1>8, <1>9, <2>2, <2>3, <2>4, BufLinked
  <2>6. \A c \in Blocks \ {b} : u.buf[c] = t.buf[c]
    BY <1>8, <2>3 DEF Linked, Typed
  <2>7. Released(s, u, b)
    BY <1>4, <1>7, <1>8, <2>2, <2>3, <2>6 DEF Released, Wrote
  <2> QED
    BY <1>5, <2>3, <2>5, <2>7
<1> QED
  BY <1>11, <1>12

\* A caller gets a reference of a buffer that is there.
Taken(s, b) == [s EXCEPT !.buf[b].refs = @ + 1]

LEMMA TakenLinked ==
  ASSUME NEW s, Fit(s), NEW X, Linked(s, X, 0, 0), NEW b \in Blocks, b \notin X, s.buf[b].cached
  PROVE  /\ Fit(Taken(s, b)) /\ Linked(Taken(s, b), X \cup {b}, 0, 0)
         /\ Taken(s, b).buf[b] = [s.buf[b] EXCEPT !.refs = @ + 1]
         /\ \A c \in Blocks \ {b} : Taken(s, b).buf[c] = s.buf[c]
         /\ Taken(s, b).cur = s.cur /\ Taken(s, b).rec = s.rec /\ Taken(s, b).alloc = s.alloc
         /\ Taken(s, b).cp = s.cp
<1> DEFINE x == [s.buf[b] EXCEPT !.refs = @ + 1]
           a == Taken(s, b)
           Y == X \cup {b}
<1>1. s.buf[b].refs = Refs(s, X, b) /\ IsBuf(s.buf[b])
  BY DEF Linked, Held, Typed
<1>2. s.buf[b].refs + 1 = Refs(s, Y, b)
  BY <1>1 DEF Refs
<1>3. IsBuf(x) /\ x.cached /\ x.refs = Refs(s, Y, b) /\ x.end = s.buf[b].end
  <2> DEFINE y == s.buf[b]
  <2>1. IsBuf(y) /\ y.cached
    BY <1>1
  <2> HIDE DEF y
  <2>2. y.refs \in Nat /\ y.refs + 1 \in Nat
    BY <2>1 DEF IsBuf
  <2>3. LET z == [y EXCEPT !.refs = @ + 1]
        IN IsBuf(z) /\ z.cached /\ z.refs = y.refs + 1 /\ z.end = y.end
    BY <2>1, <2>2 DEF IsBuf
  <2> QED
    BY <1>2, <2>3 DEF y
<1>4. /\ Fit(a) /\ a.cp = s.cp /\ a.cur = s.cur /\ a.rec = s.rec /\ a.alloc = s.alloc
      /\ a.buf = [s.buf EXCEPT ![b] = x]
  BY DEF Fit, Taken
<1> HIDE DEF a, x
<1>5. Linked(a, Y, 0, 0)
  BY <1>3, <1>4, BufLinked
<1>6. a.buf[b] = x /\ \A c \in Blocks \ {b} : a.buf[c] = s.buf[c]
  BY <1>4 DEF Linked, Typed
<1> QED
  BY <1>4, <1>5, <1>6 DEF a, x

\* A buffer whatever its references.
Like(x, y) == y.val = x.val /\ y.dirty = x.dirty /\ y.upto = x.upto /\ y.end = x.end

\* What a checkpoint of block b leaves as it was.
Moved(s, u, b) ==
  /\ u.cur = s.cur /\ u.alloc = s.alloc
  /\ \A c \in Blocks \ {b} : u.buf[c] = s.buf[c] /\ u.rec[c].queue = s.rec[c].queue
  /\ b \in Lbas(s.cur) => Like(s.buf[b], u.buf[b])

LEMMA PutBackLinked ==
  ASSUME NEW s, Fit(s), Linked(s, {}, 0, 0), NEW b \in Blocks, s.buf[b].cached,
         NEW w, Fit(w), Linked(w, {b}, 0, 0), Wrote(Taken(s, b), w, b)
  PROVE  Fit(Put(w, b)) /\ Linked(Put(w, b), {}, 0, 0) /\ Moved(s, Put(w, b), b)
<1> DEFINE h == Taken(s, b)
           u == Put(w, b)
<1>1. {b} \ {b} = {} /\ b \in {b}
  OBVIOUS
<1>2. Fit(u) /\ Linked(u, {}, 0, 0) /\ Released(w, u, b)
  BY <1>1, PutLinked
<1>3. /\ h.buf[b] = [s.buf[b] EXCEPT !.refs = @ + 1] /\ h.cur = s.cur /\ h.rec = s.rec
      /\ h.alloc = s.alloc /\ \A c \in Blocks \ {b} : h.buf[c] = s.buf[c]
  BY TakenLinked
<1> HIDE DEF h, u
<1>4. ASSUME b \in Lbas(s.cur) PROVE Like(s.buf[b], u.buf[b])
  <2> DEFINE y == s.buf[b]
  <2>1. IsBuf(y) /\ y.cached
    BY DEF Linked, Typed
  <2>2. b \in Lbas(w.cur) /\ w.buf[b] = h.buf[b]
    BY <1>3, <1>4 DEF Wrote, h
  <2>3. u.buf[b] = [h.buf[b] EXCEPT !.refs = @ - 1]
    BY <1>2, <2>2 DEF Released
  <2>4. u.buf[b] = [[y EXCEPT !.refs = @ + 1] EXCEPT !.refs = @ - 1]
    BY <1>3, <2>3
  <2> HIDE DEF y
  <2>5. Like(y, [[y EXCEPT !.refs = @ + 1] EXCEPT !.refs = @ - 1])
    BY <2>1 DEF IsBuf, Like
  <2> QED
    BY <2>4, <2>5 DEF y
<1>5. Moved(s, u, b)
  BY <1>2, <1>3, <1>4 DEF Moved, Released, Wrote, h
<1> QED
  BY <1>2, <1>5 DEF u

\* What no checkpoint changes: the open transaction and its buffers.
Kept(s, u) ==
  /\ u.cur = s.cur /\ u.alloc = s.alloc
  /\ \A c \in Lbas(s.cur) : Like(s.buf[c], u.buf[c])

LEMMA KeptTwice ==
  ASSUME NEW s, NEW u, NEW v, Kept(s, u), Kept(u, v)
  PROVE  Kept(s, v)
BY DEF Kept, Like

LEMMA LbasAreBlocks ==
  ASSUME NEW t \in Trans
  PROVE  Lbas(t) \subseteq Blocks /\ Elems(t.bufs) \subseteq Bufs
<1>1. t.bufs \in Seq(Bufs)
  BY DEF Trans
<1>2. Elems(t.bufs) \subseteq Bufs
  BY <1>1 DEF Elems
<1> QED
  BY <1>2 DEF Lbas, Bufs

LEMMA MovedKept ==
  ASSUME NEW s, Typed(s), NEW u, NEW b \in Blocks, Moved(s, u, b)
  PROVE  Kept(s, u)
<1>1. Lbas(s.cur) \subseteq Blocks
  BY LbasAreBlocks DEF Typed
<1> QED
  BY <1>1 DEF Moved, Kept, Like

LEMMA SameKept ==
  ASSUME NEW s, NEW u, Same(s, u)
  PROVE  Kept(s, u)
BY DEF Same, Kept, Like

LEMMA PassedKept ==
  ASSUME NEW s, NEW u, Passed(s, u)
  PROVE  Kept(s, u)
BY DEF Passed, Kept, Like

LEMMA FlushOneLinked ==
  ASSUME NEW s, Fit(s), Linked(s, {}, 0, 0), NEW b \in Blocks,
         NEW j \in Elems(s.rec[b].queue), j.t # s.cur.id
  PROVE  /\ Fit(FlushOne(s, j)) /\ Linked(FlushOne(s, j), {}, 0, 0)
         /\ Moved(s, FlushOne(s, j), b)
<1>1. j.lba = b
  BY InRecord
<1>2. ASSUME NEW h, Fit(h), NEW X, Linked(h, X, 0, 0), h.rec = s.rec, h.cur = s.cur, NEW from,
             from = FlushFrom(h, j, h.buf[b].cached)
      PROVE  Fit(from) /\ Linked(from, X, 0, 0) /\ Wrote(h, from, b)
  <2> DEFINE i == Issue(h, Write("disk", j.lba, Seen(h.io).log[j.at].val))
             had == h.buf[b].cached
  <2>1. from = IF had /\ h.buf[b].upto /\ h.rec[b].t = j.t THEN FlushBuf(h, b)
               ELSE EndWrite(i, j, had)
    BY <1>1, <1>2 DEF FlushFrom
  <2>2. CASE had /\ h.buf[b].upto /\ h.rec[b].t = j.t
    <3>1. b \notin Lbas(h.cur)
      BY <1>2, <2>2 DEF Linked, Held
    <3> QED
      BY <1>2, <2>1, <2>2, <3>1, FlushBufLinked
  <2>3. CASE ~(had /\ h.buf[b].upto /\ h.rec[b].t = j.t)
    <3>1. Fit(i) /\ Same(h, i)
      BY <1>2, IssueSame
    <3>2. from = EndWrite(i, j, had)
      BY <2>1, <2>3
    <3> HIDE DEF i
    <3>3. Linked(i, X, 0, 0) /\ i.buf[b].cached = had /\ i.rec = s.rec /\ i.cur = s.cur
      BY <1>2, <3>1, SameLinked DEF Same
    <3>4. \E u : /\ u = EndWrite(i, j, i.buf[b].cached)
                 /\ Fit(u) /\ Linked(u, X, 0, 0) /\ Wrote(i, u, b)
      BY <3>1, <3>3, EndWriteLinked
    <3>5. Wrote(h, i, b)
      BY <3>1 DEF Same, Wrote
    <3> QED
      BY <3>2, <3>3, <3>4, <3>5, WroteTwice
  <2> QED
    BY <2>2, <2>3
<1>3. CASE s.buf[b].cached
  <2> DEFINE h == Taken(s, b)
             from == FlushFrom(h, j, TRUE)
  <2>1. FlushOne(s, j) = Put(from, b)
    BY <1>1, <1>3 DEF FlushOne, Taken
  <2>2. /\ Fit(h) /\ Linked(h, {} \cup {b}, 0, 0) /\ h.cur = s.cur /\ h.rec = s.rec
        /\ h.buf[b] = [s.buf[b] EXCEPT !.refs = @ + 1]
    BY <1>3, TakenLinked
  <2> HIDE DEF h
  <2>3. h.buf[b].cached = TRUE /\ {} \cup {b} = {b}
    <3>1. IsBuf(s.buf[b])
      BY DEF Linked, Typed
    <3> QED
      BY <1>3, <2>2, <3>1 DEF IsBuf
  <2>4. from = FlushFrom(h, j, h.buf[b].cached)
    BY <2>3
  <2> HIDE DEF from
  <2>5. Fit(from) /\ Linked(from, {b}, 0, 0) /\ Wrote(h, from, b)
    BY <1>2, <2>2, <2>3, <2>4
  <2> QED
    BY <1>3, <2>1, <2>5, PutBackLinked DEF h
<1>4. CASE ~s.buf[b].cached
  <2> DEFINE from == FlushFrom(s, j, FALSE)
  <2>1. FlushOne(s, j) = from
    BY <1>1, <1>4 DEF FlushOne
  <2>2. s.buf[b].cached = FALSE
    BY <1>4 DEF Linked, Typed, IsBuf
  <2>3. Fit(from) /\ Linked(from, {}, 0, 0) /\ Wrote(s, from, b)
    BY <1>2, <2>2
  <2>4. Moved(s, from, b)
    BY <2>3 DEF Wrote, Moved, Like
  <2> QED
    BY <2>1, <2>3, <2>4
<1> QED
  BY <1>3, <1>4

LEMMA FlushTransLinked ==
  ASSUME NEW s, Fit(s), Linked(s, {}, 0, 0), NEW c \in DOMAIN s.cp
  PROVE  /\ Fit(FlushTrans(s, s.cp[c])) /\ Linked(FlushTrans(s, s.cp[c]), {}, 0, 0)
         /\ Kept(s, FlushTrans(s, s.cp[c]))
<1> DEFINE q == s.cp[c].bufs
           n == Len(q)
<1>1. q \in Seq(Bufs) /\ Apart(q)
  <2>1. s.cp[c] \in Trans
    BY DEF Linked, Typed
  <2> QED
    BY <2>1 DEF Trans, Linked, Owned, Mine
<1>2. \A k \in 1 .. n : /\ q[k] \in Elems(s.rec[q[k].lba].queue) /\ q[k].lba \in Blocks
                        /\ q[k].t # s.cur.id
  <2> TAKE k \in 1 .. n
  <2>1. q[k] \in Elems(q) /\ q[k] \in Bufs
    BY <1>1 DEF Elems
  <2>2. q[k] \in Waiting(s) /\ q[k].t # s.cur.id
    BY <2>1 DEF Waiting, Linked, Owned, Mine, Ids
  <2> QED
    BY <2>2, OwnerOf
<1>3. FlushTrans(s, s.cp[c]) = AllFlushOne(s, q)
  BY DEF FlushTrans, AllFlushOne
<1> HIDE DEF q
<1>4. n \in Nat
  BY <1>1
<1>5. PICK f : FlushOneRun(s, q, f)
  BY <1>4, FlushOneSteps
<1>9. /\ f[0] = s /\ AllFlushOne(s, q) = f[n]
      /\ \A k \in 1 .. n : f[k] = FlushOne(f[k - 1], q[k])
  BY <1>5 DEF FlushOneRun
<1> DEFINE At(k) == /\ Fit(f[k]) /\ Linked(f[k], {}, 0, 0) /\ Kept(s, f[k])
                    /\ \A l \in k + 1 .. n : q[l] \in Elems(f[k].rec[q[l].lba].queue)
           S == {k \in Int : At(k)}
<1>6. 0 \in S
  BY <1>2, <1>4, <1>9 DEF Kept, Like
<1>7. ASSUME NEW k \in 1 .. n, k - 1 \in S PROVE k \in S
  <2> DEFINE v == f[k - 1]
             j == q[k]
             w == FlushOne(v, j)
             b == j.lba
  <2>1. /\ Fit(v) /\ Linked(v, {}, 0, 0) /\ Kept(s, v)
        /\ \A l \in (k - 1) + 1 .. n : q[l] \in Elems(v.rec[q[l].lba].queue)
    BY <1>7
  <2>2. f[k] = w
    BY <1>9
  <2> HIDE DEF v, S
  <2>3. k \in (k - 1) + 1 .. n /\ \A l \in k + 1 .. n : l \in (k - 1) + 1 .. n /\ l # k /\ l \in 1 .. n
    BY <1>4
  <2>4. b \in Blocks /\ j \in Elems(v.rec[b].queue) /\ j.t # v.cur.id
    BY <1>2, <2>1, <2>3 DEF Kept
  <2>5. Fit(w) /\ Linked(w, {}, 0, 0) /\ Moved(v, w, b)
    BY <2>1, <2>4, FlushOneLinked
  <2> HIDE DEF w
  <2>6. Kept(s, w)
    <3>1. Kept(v, w)
      BY <2>1, <2>4, <2>5, MovedKept DEF Linked
    <3> QED
      BY <2>1, <3>1, KeptTwice
  <2>7. ASSUME NEW l \in k + 1 .. n PROVE q[l] \in Elems(w.rec[q[l].lba].queue)
    <3>1. l \in (k - 1) + 1 .. n /\ l # k /\ l \in 1 .. n
      BY <2>3
    <3>2. q[l] \in Elems(v.rec[q[l].lba].queue) /\ q[l].lba \in Blocks
      BY <1>2, <2>1, <3>1
    <3>3. DOMAIN q = 1 .. n
      BY <1>1
    <3>4. q[l].lba # b
      BY <1>1, <3>1, <3>3 DEF Apart, j
    <3> QED
      BY <2>5, <3>2, <3>4 DEF Moved
  <2>8. At(k)
    BY <2>2, <2>5, <2>6, <2>7
  <2> QED
    BY <2>8 DEF S
<1> HIDE DEF S
<1>8. n \in S
  BY <1>4, <1>6, <1>7, AllTurns
<1> QED
  BY <1>3, <1>9, <1>8 DEF S

LEMMA PurgeOnceLinked ==
  ASSUME NEW s, Fit(s), Linked(s, {}, 0, 0)
  PROVE  Fit(PurgeOnce(s)) /\ Linked(PurgeOnce(s), {}, 0, 0) /\ Kept(s, PurgeOnce(s))
<1> DEFINE t == Head(s.cp)
<1>1. CASE s.cp = <<>>
  BY <1>1 DEF PurgeOnce, Kept, Like
<1>2. CASE s.cp # <<>>
  <2>1. 1 \in DOMAIN s.cp /\ t = s.cp[1] /\ t \in Trans
    <3> DEFINE q == s.cp
    <3>1. q \in Seq(Trans) /\ q # <<>>
      BY <1>2 DEF Linked, Typed
    <3> HIDE DEF q
    <3>2. 1 \in DOMAIN q /\ Head(q) = q[1] /\ Head(q) \in Trans
      BY <3>1
    <3> QED
      BY <3>2 DEF q
  <2>2. CASE t.data = 0 \/ t.data = t.written
    <3> DEFINE u == StartAfter(s, t)
    <3>1. t.bufs = <<>>
      BY <2>1, <2>2, NothingLeft
    <3>2. t.id # 0
      BY <2>1 DEF Linked, Ids
    <3>3. Fit(u) /\ Linked(u, {}, 0, 0) /\ Passed(s, u)
      BY <2>1, <3>1, <3>2, StartAfterLinked
    <3>4. PurgeOnce(s) = TellSb(u)
      BY <1>2, <2>2 DEF PurgeOnce
    <3> HIDE DEF u
    <3>5. Fit(TellSb(u)) /\ Same(u, TellSb(u))
      BY <3>3, TellSbSame
    <3>6. Kept(s, TellSb(u))
      BY <3>3, <3>5, SameKept, PassedKept, KeptTwice
    <3> QED
      BY <3>3, <3>4, <3>5, <3>6, SameLinked
  <2>3. CASE ~(t.data = 0 \/ t.data = t.written)
    <3>1. PurgeOnce(s) = FlushTrans(s, s.cp[1])
      BY <1>2, <2>1, <2>3 DEF PurgeOnce
    <3> QED
      BY <2>1, <3>1, FlushTransLinked
  <2> QED
    BY <2>2, <2>3
<1> QED
  BY <1>1, <1>2

LEMMA PurgeAllFits ==
  ASSUME NEW s, Fit(s), Linked(s, {}, 0, 0)
  PROVE  Fit(PurgeAll(s))
<1> DEFINE n == Len(s.cp)
<1>1. n \in Nat
  BY DEF Linked, Typed
<1>2. PICK f : /\ f[0] = s /\ AllPurgeTwice(s, s.cp) = f[n]
               /\ \A i \in 1 .. n : f[i] = PurgeTwice(f[i - 1], s.cp[i])
  BY <1>1, PurgeTwiceSteps
<1> DEFINE S == {i \in Int : Fit(f[i]) /\ Linked(f[i], {}, 0, 0)}
<1>3. 0 \in S
  BY <1>2
<1>4. ASSUME NEW i \in 1 .. n, i - 1 \in S PROVE i \in S
  <2> DEFINE v == f[i - 1]
             w == PurgeOnce(v)
  <2>1. Fit(v) /\ Linked(v, {}, 0, 0)
    BY <1>4
  <2>2. f[i] = PurgeOnce(w)
    BY <1>2 DEF PurgeTwice
  <2> HIDE DEF v
  <2>3. Fit(w) /\ Linked(w, {}, 0, 0)
    BY <2>1, PurgeOnceLinked
  <2> HIDE DEF w
  <2>4. Fit(PurgeOnce(w)) /\ Linked(PurgeOnce(w), {}, 0, 0)
    BY <2>3, PurgeOnceLinked
  <2> QED
    BY <2>2, <2>4
<1> HIDE DEF S
<1>5. n \in S
  BY <1>1, <1>3, <1>4, AllTurns
<1>6. PurgeAll(s) = f[n]
  BY <1>2 DEF PurgeAll, AllPurgeTwice
<1> QED
  BY <1>5, <1>6 DEF S

----------------------------------------------------------------------------
(* A commit: room in the log *)

\* Only what the links do not speak of changes in the open transaction.
LEMMA CurLinked ==
  ASSUME NEW s, NEW u, NEW X, NEW o, NEW e, Linked(s, X, o, e),
         u.cp = s.cp, u.rec = s.rec, u.buf = s.buf, u.alloc = s.alloc,
         u.cur \in Trans, u.cur.id = s.cur.id, u.cur.bufs = s.cur.bufs
  PROVE  Linked(u, X, o, e)
<1>1. Typed(u) /\ Ids(u) /\ Counts(u, o)
  BY DEF Linked, Typed, Ids, Counts
<1>2. Owned(u)
  BY DEF Linked, Owned, Mine
<1>3. Listed(u)
  BY DEF Linked, Listed, Waiting
<1>4. Latest(u, o, e)
  BY DEF Linked, Latest, Settles, LatestOwns, EndIsKnown
<1>5. Held(u, X)
  BY DEF Linked, Held, Refs, Lbas
<1> QED
  BY <1>1, <1>2, <1>3, <1>4, <1>5 DEF Linked

\* The open transaction of a commit: its buffers are counted, and what it freed
\* is not dirty.
Committing(s) ==
  /\ s.cur.id \in 1 .. s.alloc /\ s.cur.data = Len(s.cur.bufs) /\ s.cur.written = 0
  /\ s.cur.revokes \subseteq s.cur.freed
  /\ \A b \in Lbas(s.cur) \cap s.cur.freed : ~s.buf[b].dirty

\* The log goes on, and the transaction is the same but for its place there.
Ahead(s, u) ==
  /\ u.cur.id = s.cur.id /\ u.cur.data = s.cur.data /\ u.cur.written = s.cur.written
  /\ u.cur.bufs = s.cur.bufs /\ u.cur.revokes = s.cur.revokes /\ u.cur.freed = s.cur.freed
  /\ u.alloc = s.alloc
  /\ \A c \in Lbas(s.cur) : Like(s.buf[c], u.buf[c])

LEMMA AheadTwice ==
  ASSUME NEW s, NEW u, NEW v, Ahead(s, u), Ahead(u, v)
  PROVE  Ahead(s, v)
<1>1. Lbas(u.cur) = Lbas(s.cur)
  BY DEF Ahead, Lbas
<1> QED
  BY <1>1 DEF Ahead, Like

LEMMA KeptAhead ==
  ASSUME NEW s, NEW u, Kept(s, u)
  PROVE  Ahead(s, u)
BY DEF Kept, Ahead

LEMMA SameAhead ==
  ASSUME NEW s, NEW u, Same(s, u)
  PROVE  Ahead(s, u)
BY SameKept, KeptAhead

LEMMA AheadCommitting ==
  ASSUME NEW s, NEW u, Ahead(s, u), Committing(s)
  PROVE  Committing(u)
<1>1. Lbas(u.cur) = Lbas(s.cur)
  BY DEF Ahead, Lbas
<1> QED
  BY <1>1 DEF Ahead, Committing, Like

\* What each step of a commit keeps.
Sound(s) == Fit(s) /\ Linked(s, {}, 0, 0) /\ Committing(s)

LEMMA MakeRoomSound ==
  ASSUME NEW s, Sound(s)
  PROVE  Sound(MakeRoom(s)) /\ Ahead(s, MakeRoom(s))
<1>1. Ahead(s, s)
  BY DEF Ahead, Like
<1>2. Sound(PurgeOnce(s)) /\ Ahead(s, PurgeOnce(s))
  BY PurgeOnceLinked, KeptAhead, AheadCommitting DEF Sound
<1> QED
  BY <1>1, <1>2 DEF MakeRoom

LEMMA AllocSound ==
  ASSUME NEW s, Sound(s)
  PROVE  Sound(Alloc(s)) /\ Ahead(s, Alloc(s))
<1> DEFINE a == Advanced(s)
           t == [s.cur EXCEPT !.blocks = @ + 1]
<1>1. t \in Trans /\ /\ t.id = s.cur.id /\ t.data = s.cur.data /\ t.written = s.cur.written
                     /\ t.bufs = s.cur.bufs /\ t.revokes = s.cur.revokes /\ t.freed = s.cur.freed
  <2> DEFINE y == s.cur
  <2>1. y \in Trans
    BY DEF Sound, Linked, Typed
  <2> HIDE DEF y
  <2>2. LET z == [y EXCEPT !.blocks = @ + 1]
        IN z \in Trans /\ /\ z.id = y.id /\ z.data = y.data /\ z.written = y.written
                          /\ z.bufs = y.bufs /\ z.revokes = y.revokes /\ z.freed = y.freed
    BY <2>1 DEF Trans
  <2> QED
    BY <2>2 DEF y
<1>2. /\ a.cur = t /\ a.cp = s.cp /\ a.rec = s.rec /\ a.buf = s.buf /\ a.alloc = s.alloc
      /\ Fit(a)
  <2>1. Wrapped(s.last + 1) \in Int
    BY DEF Sound, Fit, Wrapped, First
  <2> QED
    BY <2>1 DEF Sound, Fit, Advanced
<1> HIDE DEF a, t
<1>3. Linked(a, {}, 0, 0)
  BY <1>1, <1>2, CurLinked DEF Sound
<1>4. Ahead(s, a)
  BY <1>1, <1>2 DEF Ahead, Like
<1>5. Sound(a)
  BY <1>2, <1>3, <1>4, AheadCommitting DEF Sound
<1>6. Sound(MakeRoom(a)) /\ Ahead(a, MakeRoom(a))
  BY <1>5, MakeRoomSound
<1> QED
  BY <1>4, <1>6, AheadTwice DEF Alloc, a

LEMMA LogToSound ==
  ASSUME NEW s, Sound(s), NEW at, NEW block
  PROVE  Sound(LogTo(s, at, block)) /\ Ahead(s, LogTo(s, at, block)) /\ LogTo(s, at, block).last = s.last
<1> DEFINE u == Issue(s, Write("log", at, block))
<1>1. Fit(u) /\ Same(s, u) /\ u.last = s.last
  BY IssueSame DEF Sound
<1>2. LogTo(s, at, block) = u
  BY DEF LogTo
<1> HIDE DEF u
<1> QED
  BY <1>1, <1>2, SameLinked, SameAhead, AheadCommitting DEF Sound

LEMMA OpenedSound ==
  ASSUME NEW s, Sound(s)
  PROVE  Sound(Opened(s)) /\ Ahead(s, Opened(s))
<1> DEFINE a == Alloc(s)
           t == [a.cur EXCEPT !.start = IF @ = 0 THEN s.last ELSE @]
           u == [a EXCEPT !.cur.start = IF @ = 0 THEN s.last ELSE @]
<1>1. Sound(a) /\ Ahead(s, a)
  BY AllocSound
<1>2. Opened(s) = u
  BY DEF Opened
<1> HIDE DEF a
<1>3. t \in Trans /\ /\ t.id = a.cur.id /\ t.data = a.cur.data /\ t.written = a.cur.written
                     /\ t.bufs = a.cur.bufs /\ t.revokes = a.cur.revokes /\ t.freed = a.cur.freed
  <2> DEFINE y == a.cur
             n == s.last
  <2>1. y \in Trans /\ n \in Int
    BY <1>1 DEF Sound, Linked, Typed, Fit
  <2> HIDE DEF y, n
  <2>2. LET z == [y EXCEPT !.start = IF @ = 0 THEN n ELSE @]
        IN z \in Trans /\ /\ z.id = y.id /\ z.data = y.data /\ z.written = y.written
                          /\ z.bufs = y.bufs /\ z.revokes = y.revokes /\ z.freed = y.freed
    BY <2>1 DEF Trans
  <2> QED
    BY <2>2 DEF y, n
<1>4. /\ u.cur = t /\ u.cp = a.cp /\ u.rec = a.rec /\ u.buf = a.buf /\ u.alloc = a.alloc
      /\ Fit(u)
  <2> DEFINE n == s.last
  <2> HIDE DEF n
  <2> QED
    BY <1>1 DEF Sound, Fit
<1> HIDE DEF t, u
<1>5. Linked(u, {}, 0, 0)
  BY <1>1, <1>3, <1>4, CurLinked DEF Sound
<1>6. Ahead(a, u)
  BY <1>3, <1>4 DEF Ahead, Like
<1> QED
  BY <1>1, <1>2, <1>4, <1>5, <1>6, AheadTwice, AheadCommitting DEF Sound

----------------------------------------------------------------------------
(* A buffer leaves the open transaction *)

\* Block b has left the open transaction, which the record still names.
Orphan(s, b, X) ==
  /\ Fit(s) /\ Parts(s, X) /\ Counts(s, 0) /\ \A c \in Blocks \ {b} : Settles(s, c)
  /\ s.rec[b].t = s.cur.id /\ b \notin Lbas(s.cur)
  /\ s.buf[b].cached => s.buf[b].end = None
  /\ \A x \in Elems(s.rec[b].queue) : x.t # s.cur.id

\* What of the open transaction stays when j leaves it.
LeftBy(s, u, j) ==
  /\ Elems(u.cur.bufs) = Elems(s.cur.bufs) \ {j} /\ Len(u.cur.bufs) = Len(s.cur.bufs) - 1
  /\ u.cur.id = s.cur.id /\ u.cur.data = s.cur.data /\ u.cur.written = s.cur.written
  /\ u.cur.revokes = s.cur.revokes /\ u.cur.freed = s.cur.freed /\ u.alloc = s.alloc
  /\ \A c \in Blocks \ {j.lba} : u.buf[c] = s.buf[c]

LEMMA LeaveRecordParts ==
  ASSUME NEW s, Fit(s), Linked(s, {}, 0, 0), NEW j \in Elems(s.cur.bufs), NEW b \in Blocks,
         b = j.lba
  PROVE  /\ Orphan(LeaveRecord(s, j), b, {b}) /\ LeftBy(s, LeaveRecord(s, j), j)
         /\ LeaveRecord(s, j).buf[b] = [s.buf[b] EXCEPT !.end = None] /\ s.buf[b].cached
<1> DEFINE u == LeaveRecord(s, j)
           bufs == Without(s.cur.bufs, j)
           queue == Without(s.rec[b].queue, j)
           x == [s.buf[b] EXCEPT !.end = None]
           t == [s.cur EXCEPT !.bufs = bufs]
<1>1. /\ s.cur \in Trans /\ s.cur.bufs \in Seq(Bufs) /\ s.rec \in [Blocks -> Recs]
      /\ s.rec[b] \in Recs /\ s.rec[b].queue \in Seq(Bufs)
  <2>1. s.cur \in Trans /\ s.rec \in [Blocks -> Recs]
    BY DEF Linked, Typed
  <2> QED
    BY <2>1 DEF Trans, Recs
<1>2. j \in Waiting(s) /\ j \in Bufs /\ j \in Elems(s.rec[b].queue) /\ b \in Lbas(s.cur) /\ j.t = s.cur.id
  <2>1. j \in Bufs
    BY <1>1 DEF Elems
  <2>2. j \in Waiting(s)
    BY <2>1 DEF Waiting
  <2> QED
    BY <2>1, <2>2, OwnerOf DEF Linked, Owned, Mine, Lbas
<1>3. Distinct(s.cur.bufs) /\ Apart(s.cur.bufs) /\ Distinct(s.rec[b].queue)
  BY DEF Linked, Owned, Mine, Listed
<1>4. /\ bufs \in Seq(Bufs) /\ Len(bufs) = Len(s.cur.bufs) - 1
      /\ Elems(bufs) = Elems(s.cur.bufs) \ {j} /\ Distinct(bufs) /\ Apart(bufs)
  BY <1>1, <1>3, WithoutParts
<1>5. queue \in Seq(Bufs) /\ Elems(queue) = Elems(s.rec[b].queue) \ {j} /\ Distinct(queue)
  BY <1>1, <1>2, <1>3, WithoutParts
<1>6. s.buf[b].cached /\ s.buf[b].refs = 1 /\ s.rec[b].t = s.cur.id
  BY <1>2 DEF Linked, Held, Refs
<1>7. IsBuf(x) /\ x.cached /\ x.refs = 1 /\ x.end = None
  <2>1. IsBuf(s.buf[b])
    BY DEF Linked, Typed
  <2> QED
    BY <1>6, <2>1 DEF IsBuf, None, Keys
<1>8. /\ Fit(u) /\ u.cp = s.cp /\ u.cur = t /\ u.rec = [s.rec EXCEPT ![b].queue = queue]
      /\ u.buf = [s.buf EXCEPT ![b] = x] /\ u.alloc = s.alloc
  <2>1. u = [s EXCEPT !.rec[b].queue = Without(@, j), !.buf[b].end = None, !.cur.bufs = Without(@, j)]
    BY DEF LeaveRecord
  <2> QED
    BY <2>1 DEF Fit
<1>9. t \in Trans /\ /\ t.id = s.cur.id /\ t.data = s.cur.data /\ t.written = s.cur.written
                     /\ t.bufs = bufs /\ t.revokes = s.cur.revokes /\ t.freed = s.cur.freed
  <2> DEFINE y == s.cur
  <2>1. y \in Trans
    BY <1>1
  <2> HIDE DEF y, bufs
  <2>2. LET z == [y EXCEPT !.bufs = bufs]
        IN z \in Trans /\ /\ z.id = y.id /\ z.data = y.data /\ z.written = y.written
                          /\ z.bufs = bufs /\ z.revokes = y.revokes /\ z.freed = y.freed
    BY <1>4, <2>1 DEF Trans
  <2> QED
    BY <2>2 DEF y
<1> HIDE DEF u, bufs, queue, x, t
<1>10. /\ \A c \in Blocks \ {b} : u.rec[c] = s.rec[c] /\ u.buf[c] = s.buf[c]
       /\ u.rec[b].queue = queue /\ u.rec[b].t = s.rec[b].t /\ u.rec \in [Blocks -> Recs]
       /\ u.buf[b] = x /\ DOMAIN u.buf = Blocks
  <2>1. DOMAIN s.buf = Blocks
    BY DEF Linked, Typed
  <2> DEFINE r == [s.rec[b] EXCEPT !.queue = queue]
  <2>2. r \in Recs /\ r.queue = queue /\ r.t = s.rec[b].t
    BY <1>1, <1>5 DEF Recs
  <2>3. u.rec = [s.rec EXCEPT ![b] = r]
    BY <1>8
  <2> HIDE DEF r
  <2>4. u.rec \in [Blocks -> Recs] /\ u.rec[b] = r /\ \A c \in Blocks \ {b} : u.rec[c] = s.rec[c]
    BY <1>1, <2>2, <2>3
  <2>5. u.buf[b] = x /\ DOMAIN u.buf = Blocks /\ \A c \in Blocks \ {b} : u.buf[c] = s.buf[c]
    BY <1>8, <2>1
  <2> QED
    BY <2>2, <2>4, <2>5
<1>11. Typed(u) /\ Ids(u)
  <2>1. \A c \in Blocks : IsBuf(u.buf[c])
    BY <1>7, <1>10 DEF Linked, Typed
  <2> QED
    BY <1>8, <1>9, <1>10, <2>1 DEF Linked, Typed, Ids
<1>12. Owned(u)
  BY <1>4, <1>8, <1>9 DEF Linked, Owned, Mine
<1>13. Waiting(u) = Waiting(s) \ {j}
  <2>1. \A k \in DOMAIN s.cp : j \notin Elems(s.cp[k].bufs)
    BY <1>2 DEF Linked, Owned, Mine, Ids
  <2> QED
    BY <1>4, <1>8, <1>9, <2>1 DEF Waiting
<1>14. Listed(u)
  <2> SUFFICES ASSUME NEW c \in Blocks
               PROVE  Elems(u.rec[c].queue) = {y \in Waiting(u) : y.lba = c} /\ Distinct(u.rec[c].queue)
    BY DEF Listed
  <2>1. Elems(s.rec[c].queue) = {y \in Waiting(s) : y.lba = c} /\ Distinct(s.rec[c].queue)
    BY DEF Linked, Listed
  <2>2. CASE c = b
    BY <1>5, <1>10, <1>13, <2>1, <2>2
  <2>3. CASE c # b
    BY <1>10, <1>13, <2>1, <2>3
  <2> QED
    BY <2>2, <2>3
<1>15. b \notin Lbas(u.cur) /\ \A c \in Blocks \ {b} : c \in Lbas(u.cur) <=> c \in Lbas(s.cur)
  <2>1. \A y \in Elems(s.cur.bufs) : y.lba = b => y = j
    BY <1>3 DEF Apart, Elems
  <2> QED
    BY <1>4, <1>8, <1>9, <2>1 DEF Lbas
<1>16. Held(u, {b})
  <2> SUFFICES ASSUME NEW c \in Blocks
               PROVE  /\ c \in Lbas(u.cur) => u.rec[c].t = u.cur.id
                      /\ IF u.buf[c].cached THEN u.buf[c].refs = Refs(u, {b}, c)
                         ELSE c \notin Lbas(u.cur) \cup {b}
    BY DEF Held
  <2>1. CASE c = b
    BY <1>7, <1>10, <1>15, <2>1 DEF Refs
  <2>2. CASE c # b
    BY <1>8, <1>9, <1>10, <1>15, <2>2 DEF Linked, Held, Refs
  <2> QED
    BY <2>1, <2>2
<1>17. Counts(u, 0)
  BY <1>8 DEF Linked, Counts
<1>18. \A c \in Blocks \ {b} : Settles(u, c)
  BY <1>10 DEF Linked, Latest, Settles, LatestOwns, EndIsKnown
<1>19. \A y \in Elems(u.rec[b].queue) : y.t # u.cur.id
  <2> TAKE y \in Elems(u.rec[b].queue)
  <2>1. y \in Elems(s.rec[b].queue) /\ y # j
    BY <1>5, <1>10
  <2>2. y \in Waiting(s) /\ y.lba = b
    BY <2>1, InRecord
  <2>3. y.t = s.cur.id => y \in Elems(s.cur.bufs)
    BY <2>2, OwnerOf
  <2>4. y.t # s.cur.id
    BY <1>3, <2>1, <2>2, <2>3 DEF Apart, Elems
  <2> QED
    BY <1>8, <1>9, <2>4
<1>20. Orphan(u, b, {b})
  BY <1>6, <1>7, <1>8, <1>9, <1>10, <1>11, <1>12, <1>14, <1>15, <1>16, <1>17, <1>18, <1>19
     DEF Orphan, Parts
<1>21. LeftBy(s, u, j)
  BY <1>4, <1>8, <1>9, <1>10 DEF LeftBy
<1> QED
  BY <1>6, <1>10, <1>20, <1>21 DEF u, x

\* The record has nobody else: nothing is to be settled.
LEMMA NobodyLeft ==
  ASSUME NEW s, NEW b \in Blocks, NEW X, Orphan(s, b, X), s.rec[b].queue = <<>>
  PROVE  Linked(s, X, 0, 0)
<1>1. Settles(s, b)
  BY DEF Orphan, Settles, LatestOwns, EndIsKnown
<1>2. Latest(s, 0, 0)
  BY <1>1 DEF Orphan, Latest
<1> QED
  BY <1>2, LinkedParts DEF Orphan

\* Only the buffer of b is another, and it is there.
Rebuffered(s, u, b) ==
  /\ Fit(u) /\ u.cp = s.cp /\ u.cur = s.cur /\ u.alloc = s.alloc
  /\ DOMAIN u.buf = Blocks /\ \A c \in Blocks \ {b} : u.buf[c] = s.buf[c]
  /\ IsBuf(u.buf[b]) /\ u.buf[b].cached

\* The block goes back to the last of the others, j.
GivenTo(s, u, b, j) ==
  /\ Rebuffered(s, u, b) /\ u.rec = [s.rec EXCEPT ![b].t = j.t]
  /\ u.buf[b].end \in {None, Key(j)}

LEMMA GivenBack ==
  ASSUME NEW s, NEW b \in Blocks, NEW X, Orphan(s, b, X), s.rec[b].queue # <<>>, NEW u, NEW Y,
         GivenTo(s, u, b, Last(s.rec[b].queue)), u.buf[b].refs = Refs(s, Y, b),
         X \subseteq {b}, Y \subseteq {b}
  PROVE  Linked(u, Y, 0, 0)
<1> DEFINE j == Last(s.rec[b].queue)
           r == [s.rec[b] EXCEPT !.t = j.t]
<1>1. s.rec \in [Blocks -> Recs] /\ s.rec[b] \in Recs /\ s.rec[b].queue \in Seq(Bufs)
  <2>1. s.rec \in [Blocks -> Recs]
    BY DEF Orphan, Parts, Typed
  <2> QED
    BY <2>1 DEF Recs
<1>2. j \in Elems(s.rec[b].queue)
  <2> DEFINE q == s.rec[b].queue
  <2>1. Len(q) \in Nat /\ Len(q) # 0 /\ DOMAIN q = 1 .. Len(q)
    BY <1>1, EmptySeq
  <2> HIDE DEF q
  <2>2. Len(q) \in DOMAIN q
    BY <2>1
  <2> QED
    BY <2>2 DEF q, Last, Elems
<1>3. j \in Bufs /\ j.t # s.cur.id
  <2>1. \A x \in Elems(s.rec[b].queue) : x \in Bufs
    BY <1>1 DEF Elems
  <2> QED
    BY <1>2, <2>1 DEF Orphan
<1>4. r \in Recs /\ r.t = j.t /\ r.queue = s.rec[b].queue
  BY <1>1, <1>3 DEF Recs, Bufs
<1>5. /\ u.rec = [s.rec EXCEPT ![b] = r] /\ u.cp = s.cp /\ u.cur = s.cur /\ u.alloc = s.alloc
      /\ DOMAIN u.buf = Blocks /\ IsBuf(u.buf[b]) /\ u.buf[b].cached
      /\ u.buf[b].end \in {None, Key(j)} /\ \A c \in Blocks \ {b} : u.buf[c] = s.buf[c]
  BY DEF GivenTo, Rebuffered
<1> HIDE DEF j
<1> HIDE DEF r
<1>6. u.rec \in [Blocks -> Recs] /\ u.rec[b] = r /\ \A c \in Blocks \ {b} : u.rec[c] = s.rec[c]
  BY <1>1, <1>4, <1>5
<1>7. \A c \in Blocks : u.rec[c].queue = s.rec[c].queue
  BY <1>4, <1>6
<1>8. Typed(u) /\ Ids(u) /\ Owned(u) /\ Counts(u, 0)
  <2>1. Typed(u)
    BY <1>5, <1>6 DEF Orphan, Parts, Typed
  <2> QED
    BY <1>5, <2>1 DEF Orphan, Parts, Ids, Owned, Counts
<1>9. Listed(u)
  BY <1>5, <1>7 DEF Orphan, Parts, Listed, Waiting
<1>10. Latest(u, 0, 0)
  <2>1. \A c \in Blocks \ {b} : Settles(u, c)
    BY <1>5, <1>6 DEF Orphan, Settles, LatestOwns, EndIsKnown
  <2>2. LatestOwns(u, b)
    BY <1>4, <1>6 DEF LatestOwns, j
  <2>3. EndIsKnown(u, b)
    BY <1>2, <1>4, <1>5, <1>6 DEF EndIsKnown, Key
  <2> QED
    BY <2>1, <2>2, <2>3 DEF Latest, Settles
<1>11. Held(u, Y)
  <2> SUFFICES ASSUME NEW c \in Blocks
               PROVE  /\ c \in Lbas(u.cur) => u.rec[c].t = u.cur.id
                      /\ IF u.buf[c].cached THEN u.buf[c].refs = Refs(u, Y, c)
                         ELSE c \notin Lbas(u.cur) \cup Y
    BY DEF Held
  <2>1. CASE c = b
    BY <1>5, <2>1 DEF Orphan, Refs
  <2>2. CASE c # b
    BY <1>5, <1>6, <2>2 DEF Orphan, Parts, Held, Refs
  <2> QED
    BY <2>1, <2>2
<1> QED
  BY <1>8, <1>9, <1>10, <1>11, LinkedParts DEF Parts

LEMMA DisownedLinked ==
  ASSUME NEW s, Fit(s), NEW X, Linked(s, X, 0, 0), NEW b \in Blocks, b \notin Lbas(s.cur)
  PROVE  /\ Fit(Disowned(s, b)) /\ Linked(Disowned(s, b), X, 0, 0)
         /\ Disowned(s, b).cur = s.cur /\ Disowned(s, b).buf = s.buf /\ Disowned(s, b).alloc = s.alloc
<1> DEFINE u == [s EXCEPT !.rec[b] = NoRec]
<1>1. CASE s.rec[b].t # s.cur.id
  BY <1>1 DEF Disowned
<1>2. CASE s.rec[b].t = s.cur.id
  <2>1. s.rec[b].queue = <<>>
    <3>1. SUFFICES ASSUME s.rec[b].queue # <<>> PROVE FALSE
      OBVIOUS
    <3> DEFINE x == Last(s.rec[b].queue)
    <3>2. x \in Waiting(s) /\ x.lba = b
      BY <3>1, LastOfRecord, InRecord
    <3>3. x.t = s.cur.id
      BY <1>2, <3>1 DEF Linked, Latest, Settles, LatestOwns
    <3> HIDE DEF x
    <3> QED
      BY <3>2, <3>3, OwnerOf
  <2>2. /\ Fit(u) /\ u.cp = s.cp /\ u.cur = s.cur /\ u.buf = s.buf /\ u.alloc = s.alloc
        /\ u.rec = [s.rec EXCEPT ![b] = NoRec] /\ Disowned(s, b) = u
    BY <1>2 DEF Fit, Disowned
  <2> HIDE DEF u
  <2>3. s.rec \in [Blocks -> Recs] /\ NoRec \in Recs /\ NoRec.queue = <<>>
    BY DEF Linked, Typed, NoRec, Recs
  <2>4. /\ u.rec \in [Blocks -> Recs] /\ u.rec[b] = NoRec
        /\ \A c \in Blocks \ {b} : u.rec[c] = s.rec[c]
    BY <2>2, <2>3
  <2>5. \A c \in Blocks : u.rec[c].queue = s.rec[c].queue
    BY <2>1, <2>3, <2>4
  <2>6. Typed(u) /\ Ids(u) /\ Owned(u) /\ Counts(u, 0)
    <3>1. Typed(u)
      BY <2>2, <2>4 DEF Linked, Typed
    <3> QED
      BY <2>2, <3>1 DEF Linked, Ids, Owned, Counts
  <2>7. Listed(u)
    BY <2>2, <2>5 DEF Linked, Listed, Waiting
  <2>8. Latest(u, 0, 0)
    <3>1. Elems(s.rec[b].queue) = {}
      BY <2>1 DEF Elems
    <3>2. Settles(s, b) /\ \A c \in Blocks \ {b} : Settles(s, c)
      BY DEF Linked, Latest
    <3>3. Settles(u, b)
      BY <2>1, <2>2, <2>5, <3>1, <3>2 DEF Settles, LatestOwns, EndIsKnown
    <3>4. \A c \in Blocks \ {b} : Settles(u, c)
      BY <2>2, <2>4, <3>2 DEF Settles, LatestOwns, EndIsKnown
    <3> QED
      BY <3>3, <3>4 DEF Latest
  <2>9. Held(u, X)
    BY <2>2, <2>4 DEF Linked, Held, Refs
  <2> QED
    BY <2>2, <2>6, <2>7, <2>8, <2>9 DEF Linked
<1> QED
  BY <1>1, <1>2

\* What a change of block b's buffer leaves there.
DirtiedAs(s, u, b, end) ==
  /\ Rebuffered(s, u, b) /\ u.rec = s.rec /\ u.buf[b].refs = s.buf[b].refs
  /\ u.buf[b].end = end /\ u.buf[b].upto = TRUE /\ u.buf[b].val = s.buf[b].val

LEMMA DirtiedParts ==
  ASSUME NEW s, Fit(s), NEW b \in Blocks, DOMAIN s.buf = Blocks, IsBuf(s.buf[b]), s.buf[b].cached,
         NEW end \in Keys, NEW u, u = Dirtied(s, b, end)
  PROVE  DirtiedAs(s, u, b, end)
<1> DEFINE y == s.buf[b]
           x == [[[y EXCEPT !.dirty = TRUE] EXCEPT !.upto = TRUE] EXCEPT !.end = end]
<1>1. /\ Fit(u) /\ u.cp = s.cp /\ u.cur = s.cur /\ u.alloc = s.alloc /\ u.rec = s.rec
      /\ u.buf[b] = x /\ DOMAIN u.buf = Blocks /\ \A c \in Blocks \ {b} : u.buf[c] = s.buf[c]
  BY DEF Fit, Dirtied
<1>2. IsBuf(y) /\ y.cached
  OBVIOUS
<1> HIDE DEF y
<1>3. IsBuf(x) /\ x.cached /\ x.refs = y.refs /\ x.end = end /\ x.upto = TRUE /\ x.val = y.val
  BY <1>2 DEF IsBuf
<1> HIDE DEF x
<1> QED
  BY <1>1, <1>3 DEF DirtiedAs, Rebuffered, y

\* A release that leaves a reference changes nothing else.
LEMMA PutHeld ==
  ASSUME NEW s, Fit(s), NEW b \in Blocks, DOMAIN s.buf = Blocks, IsBuf(s.buf[b]), s.buf[b].cached,
         s.buf[b].refs > 1
  PROVE  /\ Rebuffered(s, Put(s, b), b) /\ Put(s, b).rec = s.rec
         /\ Put(s, b).buf[b].refs = s.buf[b].refs - 1 /\ Like(s.buf[b], Put(s, b).buf[b])
<1> DEFINE a == [s EXCEPT !.buf[b].refs = @ - 1]
           y == s.buf[b]
           x == [y EXCEPT !.refs = @ - 1]
<1>1. /\ Fit(a) /\ a.cp = s.cp /\ a.cur = s.cur /\ a.alloc = s.alloc /\ a.rec = s.rec
      /\ a.buf[b] = x /\ DOMAIN a.buf = Blocks /\ \A c \in Blocks \ {b} : a.buf[c] = s.buf[c]
  BY DEF Fit
<1>2. IsBuf(y) /\ y.cached /\ y.refs \in Nat /\ y.refs > 1
  BY DEF IsBuf
<1>3. y.refs - 1 \in Nat /\ y.refs - 1 > 0 /\ y.refs - 1 # 0
  BY <1>2
<1>4. Put(s, b) = DropStale(Settled(a, b), b)
  BY DEF Put
<1> HIDE DEF a, y
<1>5. IsBuf(x) /\ x.cached /\ x.refs = y.refs - 1 /\ Like(y, x)
  BY <1>2, <1>3 DEF IsBuf, Like
<1> HIDE DEF x
<1>6. Settled(a, b) = a
  BY <1>1, <1>3, <1>5 DEF Settled
<1>7. Put(s, b) = a
  BY <1>1, <1>3, <1>4, <1>5, <1>6 DEF DropStale
<1> QED
  BY <1>1, <1>5, <1>7 DEF Rebuffered, y

\* The block as j's transaction logged it, before it is released.
RolledBack(s, b, j) ==
  LET copy == Seen(s.io).log[j.at].val
  IN Dirtied([s EXCEPT !.buf[b] = Filled(@, copy), !.rec[b].t = j.t], b, Key(j))

LEMMA FilledParts ==
  ASSUME NEW y, IsBuf(y), NEW v
  PROVE  /\ IsBuf(Filled(y, v)) /\ Filled(y, v).cached /\ Filled(y, v).val = v
         /\ Filled(y, v).upto = TRUE
         /\ Filled(y, v).refs = (IF y.cached THEN y.refs + 1 ELSE 1)
         /\ Filled(y, v).end = (IF y.cached THEN y.end ELSE None)
         /\ Filled(y, v).dirty = (IF y.cached THEN y.dirty ELSE FALSE)
<1>1. CASE y.cached
  <2> DEFINE n == y.refs + 1
             z == [[[y EXCEPT !.val = v] EXCEPT !.upto = TRUE] EXCEPT !.refs = n]
  <2>1. n \in Nat
    BY <1>1 DEF IsBuf
  <2>2. Filled(y, v) = z
    BY <1>1 DEF Filled
  <2> HIDE DEF n
  <2>3. /\ IsBuf(z) /\ z.cached /\ z.refs = n /\ z.val = v /\ z.upto = TRUE /\ z.end = y.end
        /\ z.dirty = y.dirty
    BY <1>1, <2>1 DEF IsBuf
  <2> HIDE DEF z
  <2> QED
    BY <1>1, <2>2, <2>3 DEF n
<1>2. CASE ~y.cached
  <2>1. LET z == Buf(v, 1) IN /\ IsBuf(z) /\ z.cached /\ z.refs = 1 /\ z.val = v
                              /\ z.upto = TRUE /\ z.end = None /\ z.dirty = FALSE
    BY DEF IsBuf, Buf, None, Keys
  <2> QED
    BY <1>2, <2>1 DEF Filled
<1> QED
  BY <1>1, <1>2

LEMMA RolledBackParts ==
  ASSUME NEW s, Fit(s), NEW b \in Blocks, DOMAIN s.buf = Blocks, IsBuf(s.buf[b]), NEW j \in Bufs
  PROVE  /\ RollBack(s, b, j) = Put(RolledBack(s, b, j), b)
         /\ Rebuffered(s, RolledBack(s, b, j), b)
         /\ RolledBack(s, b, j).rec = [s.rec EXCEPT ![b].t = j.t]
         /\ RolledBack(s, b, j).buf[b].refs = (IF s.buf[b].cached THEN s.buf[b].refs + 1 ELSE 1)
         /\ RolledBack(s, b, j).buf[b].end = Key(j)
<1> DEFINE copy == Seen(s.io).log[j.at].val
           a == [s EXCEPT !.buf[b] = Filled(@, copy), !.rec[b].t = j.t]
           x == Filled(s.buf[b], copy)
           end == Key(j)
<1>1. RollBack(s, b, j) = Put(RolledBack(s, b, j), b) /\ RolledBack(s, b, j) = Dirtied(a, b, end)
  BY DEF RollBack, RolledBack
<1> HIDE DEF copy
<1>2. /\ Fit(a) /\ a.cp = s.cp /\ a.cur = s.cur /\ a.alloc = s.alloc
      /\ a.rec = [s.rec EXCEPT ![b].t = j.t]
      /\ a.buf[b] = x /\ DOMAIN a.buf = Blocks /\ \A c \in Blocks \ {b} : a.buf[c] = s.buf[c]
  BY DEF Fit
<1>3. IsBuf(x) /\ x.cached /\ x.refs = (IF s.buf[b].cached THEN s.buf[b].refs + 1 ELSE 1)
  BY FilledParts
<1>4. end \in Keys
  BY DEF Key, Keys, Bufs
<1> HIDE DEF a, x, end
<1>5. /\ Rebuffered(a, Dirtied(a, b, end), b) /\ Dirtied(a, b, end).rec = a.rec
      /\ Dirtied(a, b, end).buf[b].refs = a.buf[b].refs
      /\ Dirtied(a, b, end).buf[b].end = end
  <2>1. IsBuf(a.buf[b]) /\ a.buf[b].cached /\ DOMAIN a.buf = Blocks /\ Fit(a)
    BY <1>2, <1>3
  <2>2. DirtiedAs(a, Dirtied(a, b, end), b, end)
    BY <1>4, <2>1, DirtiedParts
  <2> QED
    BY <2>2 DEF DirtiedAs
<1> QED
  BY <1>1, <1>2, <1>3, <1>5 DEF Rebuffered, end

\* What the end of a buffer of the open transaction leaves as it was.
Elsewhere(s, u, b) ==
  u.cur = s.cur /\ u.alloc = s.alloc /\ \A c \in Blocks \ {b} : u.buf[c] = s.buf[c]

LEMMA LastOfOrphan ==
  ASSUME NEW s, NEW b \in Blocks, NEW X, Orphan(s, b, X), s.rec[b].queue # <<>>
  PROVE  Last(s.rec[b].queue) \in Bufs
<1> DEFINE q == s.rec[b].queue
<1>1. s.rec[b] \in Recs
  BY DEF Orphan, Parts, Typed
<1>2. q \in Seq(Bufs)
  BY <1>1 DEF Recs
<1> HIDE DEF q
<1>3. Len(q) \in Nat /\ (q # <<>> => Len(q) # 0)
  BY <1>2, EmptySeq
<1>4. q # <<>> => q[Len(q)] \in Bufs
  BY <1>2, <1>3
<1> QED
  BY <1>4 DEF q, Last

\* While the caller has the buffer.
LEMMA GiveBackHeld ==
  ASSUME NEW s, NEW b \in Blocks, Orphan(s, b, {b}), NEW revoked
  PROVE  /\ Fit(GiveBack(s, b, revoked)) /\ Linked(GiveBack(s, b, revoked), {b}, 0, 0)
         /\ Elsewhere(s, GiveBack(s, b, revoked), b)
<1> DEFINE j == Last(s.rec[b].queue)
           u == [s EXCEPT !.rec[b].t = j.t]
<1>1. /\ s.buf[b].cached /\ s.buf[b].refs = 1 /\ Refs(s, {b}, b) = 1 /\ IsBuf(s.buf[b])
      /\ DOMAIN s.buf = Blocks /\ s.buf[b].end = None /\ Fit(s) /\ s.rec[b].t = s.cur.id
  BY DEF Orphan, Parts, Held, Refs, Typed
<1>2. CASE s.rec[b].queue = <<>>
  <2>1. GiveBack(s, b, revoked) = s
    BY <1>2 DEF GiveBack
  <2> QED
    BY <1>1, <1>2, <2>1, NobodyLeft DEF Elsewhere
<1>3. CASE s.rec[b].queue # <<>> /\ revoked
  <2>1. GiveBack(s, b, revoked) = u
    BY <1>1, <1>3 DEF GiveBack
  <2>2. /\ Fit(u) /\ u.cp = s.cp /\ u.cur = s.cur /\ u.alloc = s.alloc /\ u.buf = s.buf
        /\ u.rec = [s.rec EXCEPT ![b].t = j.t]
    BY <1>1 DEF Fit
  <2> HIDE DEF u
  <2>3. Linked(u, {b}, 0, 0)
    <3>1. GivenTo(s, u, b, j) /\ u.buf[b].refs = Refs(s, {b}, b)
      BY <1>1, <2>2 DEF GivenTo, Rebuffered
    <3> QED
      BY <1>3, <3>1, GivenBack
  <2> QED
    BY <2>1, <2>2, <2>3 DEF Elsewhere
<1>4. CASE s.rec[b].queue # <<>> /\ ~revoked
  <2> DEFINE d == RolledBack(s, b, j)
             v == Put(d, b)
  <2>1. GiveBack(s, b, revoked) = RollBack(s, b, j)
    BY <1>1, <1>4 DEF GiveBack
  <2>2. j \in Bufs
    BY <1>4, LastOfOrphan
  <2>3. /\ RollBack(s, b, j) = v /\ Rebuffered(s, d, b) /\ d.rec = [s.rec EXCEPT ![b].t = j.t]
        /\ d.buf[b].refs = 2 /\ d.buf[b].end = Key(j)
    <3>1. s.buf[b].refs + 1 = 2
      BY <1>1
    <3> HIDE DEF j
    <3> QED
      BY <1>1, <2>2, <3>1, RolledBackParts
  <2> HIDE DEF d
  <2>4. /\ Rebuffered(d, v, b) /\ v.rec = d.rec /\ v.buf[b].refs = 1 /\ Like(d.buf[b], v.buf[b])
    BY <2>3, PutHeld DEF Rebuffered
  <2> HIDE DEF v
  <2>5. v.buf[b].end = Key(j) /\ Elsewhere(s, v, b) /\ Fit(v)
    BY <2>3, <2>4 DEF Rebuffered, Like, Elsewhere
  <2>6. Linked(v, {b}, 0, 0)
    <3>1. GivenTo(s, v, b, j) /\ v.buf[b].refs = Refs(s, {b}, b)
      BY <1>1, <2>3, <2>4, <2>5 DEF GivenTo, Rebuffered
    <3> QED
      BY <1>4, <3>1, GivenBack
  <2> QED
    BY <2>1, <2>3, <2>5, <2>6
<1> QED
  BY <1>2, <1>3, <1>4

\* When nobody has it and it has been dropped.
LEMMA GiveBackDropped ==
  ASSUME NEW s, NEW b \in Blocks, Orphan(s, b, {}), ~s.buf[b].cached
  PROVE  /\ Fit(GiveBack(s, b, FALSE)) /\ Linked(GiveBack(s, b, FALSE), {}, 0, 0)
         /\ GiveBack(s, b, FALSE).cur = s.cur /\ GiveBack(s, b, FALSE).alloc = s.alloc
<1> DEFINE j == Last(s.rec[b].queue)
<1>1. /\ IsBuf(s.buf[b]) /\ DOMAIN s.buf = Blocks /\ Fit(s) /\ s.rec[b].t = s.cur.id
      /\ b \notin Lbas(s.cur)
  BY DEF Orphan, Parts, Typed
<1>2. CASE s.rec[b].queue = <<>>
  <2>1. GiveBack(s, b, FALSE) = s
    BY <1>2 DEF GiveBack
  <2> QED
    BY <1>1, <1>2, <2>1, NobodyLeft
<1>3. CASE s.rec[b].queue # <<>>
  <2> DEFINE d == RolledBack(s, b, j)
             v == Put(d, b)
  <2>1. GiveBack(s, b, FALSE) = RollBack(s, b, j)
    BY <1>1, <1>3 DEF GiveBack
  <2>2. j \in Bufs
    BY <1>3, LastOfOrphan
  <2>3. /\ RollBack(s, b, j) = v /\ Rebuffered(s, d, b) /\ d.rec = [s.rec EXCEPT ![b].t = j.t]
        /\ d.buf[b].refs = 1 /\ d.buf[b].end = Key(j)
    <3> HIDE DEF j
    <3> QED
      BY <1>1, <2>2, RolledBackParts
  <2> HIDE DEF d
  <2>4. Refs(s, {b}, b) = 1
    BY <1>1 DEF Refs
  <2>5. Linked(d, {b}, 0, 0) /\ Fit(d)
    <3>1. GivenTo(s, d, b, j) /\ d.buf[b].refs = Refs(s, {b}, b) /\ Fit(d)
      BY <2>3, <2>4 DEF GivenTo, Rebuffered
    <3>2. {} \subseteq {b} /\ {b} \subseteq {b}
      OBVIOUS
    <3> QED
      BY <1>3, <3>1, <3>2, GivenBack
  <2>6. {b} \ {b} = {} /\ b \in {b}
    OBVIOUS
  <2>7. Fit(v) /\ Linked(v, {}, 0, 0) /\ Released(d, v, b)
    BY <2>5, <2>6, PutLinked
  <2> QED
    BY <2>1, <2>3, <2>7 DEF Released, Rebuffered
<1> QED
  BY <1>2, <1>3

\* A buffer that is given up is not counted any more.
Uncounted(s) == [s EXCEPT !.cur.data = @ - 1]

LEMMA OrphanUncounted ==
  ASSUME NEW s, NEW b \in Blocks, NEW X, Orphan(s, b, X)
  PROVE  /\ Orphan(Uncounted(s), b, X) /\ Uncounted(s).buf = s.buf /\ Uncounted(s).alloc = s.alloc
         /\ Uncounted(s).cur.id = s.cur.id /\ Uncounted(s).cur.bufs = s.cur.bufs
         /\ Uncounted(s).cur.data = s.cur.data - 1 /\ Uncounted(s).cur.written = s.cur.written
         /\ Uncounted(s).cur.revokes = s.cur.revokes /\ Uncounted(s).cur.freed = s.cur.freed
<1> DEFINE u == Uncounted(s)
           t == [s.cur EXCEPT !.data = @ - 1]
<1>1. t \in Trans /\ /\ t.id = s.cur.id /\ t.data = s.cur.data - 1 /\ t.written = s.cur.written
                     /\ t.bufs = s.cur.bufs /\ t.revokes = s.cur.revokes /\ t.freed = s.cur.freed
  <2> DEFINE y == s.cur
  <2>1. y \in Trans
    BY DEF Orphan, Parts, Typed
  <2> HIDE DEF y
  <2>2. LET z == [y EXCEPT !.data = @ - 1]
        IN z \in Trans /\ /\ z.id = y.id /\ z.data = y.data - 1 /\ z.written = y.written
                          /\ z.bufs = y.bufs /\ z.revokes = y.revokes /\ z.freed = y.freed
    BY <2>1 DEF Trans
  <2> QED
    BY <2>2 DEF y
<1>2. /\ Fit(u) /\ u.cp = s.cp /\ u.cur = t /\ u.rec = s.rec /\ u.buf = s.buf /\ u.alloc = s.alloc
  BY DEF Orphan, Fit, Uncounted
<1> HIDE DEF u, t
<1>3. Typed(u) /\ Ids(u) /\ Counts(u, 0)
  BY <1>1, <1>2 DEF Orphan, Parts, Typed, Ids, Counts
<1>4. Owned(u)
  BY <1>1, <1>2 DEF Orphan, Parts, Owned, Mine
<1>5. Listed(u)
  BY <1>1, <1>2 DEF Orphan, Parts, Listed, Waiting
<1>6. Held(u, X)
  BY <1>1, <1>2 DEF Orphan, Parts, Held, Refs, Lbas
<1>7. \A c \in Blocks \ {b} : Settles(u, c)
  BY <1>2 DEF Orphan, Settles, LatestOwns, EndIsKnown
<1>8. Orphan(u, b, X)
  BY <1>1, <1>2, <1>3, <1>4, <1>5, <1>6, <1>7 DEF Orphan, Parts, Lbas
<1> QED
  BY <1>1, <1>2, <1>8 DEF u

\* The open transaction without buffer j.
Dropped(s, u, j) ==
  /\ Elems(u.cur.bufs) = Elems(s.cur.bufs) \ {j}
  /\ u.cur.id = s.cur.id /\ u.cur.freed = s.cur.freed /\ u.alloc = s.alloc
  /\ \A c \in Lbas(u.cur) : Like(s.buf[c], u.buf[c])

LEMMA DropCleanSound ==
  ASSUME NEW s, Sound(s), NEW j \in Elems(s.cur.bufs)
  PROVE  Sound(DropClean(s, j)) /\ Dropped(s, DropClean(s, j), j)
<1> DEFINE b == j.lba
           l == LeaveRecord(s, j)
           left == Uncounted(l)
           g == GiveBack(left, b, b \in s.cur.revokes)
           d == Disowned(g, b)
           u == Put(d, b)
<1>1. b \in Blocks /\ \A x \in Elems(s.cur.bufs) : x.lba = b => x = j
  <2>1. s.cur \in Trans /\ Apart(s.cur.bufs)
    BY DEF Sound, Linked, Typed, Owned, Mine
  <2>2. Elems(s.cur.bufs) \subseteq Bufs
    BY <2>1, LbasAreBlocks
  <2>3. j \in Bufs
    BY <2>2
  <2> QED
    BY <2>1, <2>3 DEF Bufs, Apart, Elems
<1>2. DropClean(s, j) = u
  BY DEF DropClean, Uncounted
<1> HIDE DEF b
<1>3. Orphan(l, b, {b}) /\ LeftBy(s, l, j)
  BY <1>1, LeaveRecordParts DEF Sound, b
<1> HIDE DEF l
<1>4. /\ Orphan(left, b, {b}) /\ left.buf = l.buf /\ left.alloc = l.alloc /\ left.cur.id = l.cur.id
      /\ left.cur.bufs = l.cur.bufs /\ left.cur.data = l.cur.data - 1
      /\ left.cur.written = l.cur.written /\ left.cur.revokes = l.cur.revokes
      /\ left.cur.freed = l.cur.freed
  BY <1>1, <1>3, OrphanUncounted
<1> HIDE DEF left
<1>5. Fit(g) /\ Linked(g, {b}, 0, 0) /\ Elsewhere(left, g, b)
  BY <1>1, <1>4, GiveBackHeld
<1> HIDE DEF g
<1>6. Fit(d) /\ Linked(d, {b}, 0, 0) /\ d.cur = g.cur /\ d.buf = g.buf /\ d.alloc = g.alloc
  BY <1>1, <1>4, <1>5, DisownedLinked DEF Orphan, Elsewhere
<1> HIDE DEF d
<1>7. Fit(u) /\ Linked(u, {}, 0, 0) /\ Released(d, u, b)
  <2>1. b \in {b} /\ {b} \ {b} = {}
    OBVIOUS
  <2> QED
    BY <1>1, <1>6, <2>1, PutLinked
<1> HIDE DEF u
<1>8. u.cur = left.cur /\ u.alloc = s.alloc /\ \A c \in Blocks \ {b} : u.buf[c] = s.buf[c]
  BY <1>3, <1>4, <1>5, <1>6, <1>7 DEF Released, Elsewhere, LeftBy, b
<1>9. \A c \in Lbas(u.cur) : c \in Blocks \ {b} /\ c \in Lbas(s.cur)
  <2>1. Elems(u.cur.bufs) = Elems(s.cur.bufs) \ {j}
    BY <1>3, <1>4, <1>8 DEF LeftBy
  <2>2. s.cur \in Trans
    BY DEF Sound, Linked, Typed
  <2>3. Lbas(s.cur) \subseteq Blocks
    BY <2>2, LbasAreBlocks
  <2> QED
    BY <1>1, <2>1, <2>3 DEF Lbas
<1>10. Dropped(s, u, j)
  BY <1>3, <1>4, <1>8, <1>9 DEF Dropped, LeftBy, Like
<1>11. Committing(u)
  <2>1. \A x \in Lbas(u.cur) \cap u.cur.freed : ~u.buf[x].dirty
    BY <1>3, <1>4, <1>8, <1>9 DEF LeftBy, Sound, Committing
  <2> QED
    BY <1>3, <1>4, <1>8, <2>1, ZenonT(30) DEF LeftBy, Sound, Committing
<1> QED
  BY <1>2, <1>7, <1>10, <1>11 DEF Sound

\* The open transaction has given buffer j up.
GivenUp(s, u, j) ==
  /\ Fit(u) /\ Linked(u, {}, 0, 0) /\ Elems(u.cur.bufs) = Elems(s.cur.bufs) \ {j}
  /\ u.cur.id = s.cur.id /\ u.alloc = s.alloc

LEMMA UndoLinked ==
  ASSUME NEW s, Fit(s), Linked(s, {}, 0, 0), NEW j \in Elems(s.cur.bufs)
  PROVE  GivenUp(s, Undo(s, j), j)
<1> DEFINE b == j.lba
           stale == [s EXCEPT !.buf[j.lba].dirty = FALSE, !.buf[j.lba].upto = FALSE]
           l == LeaveRecord(stale, j)
           p == Put(l, b)
           w == [l EXCEPT !.buf[b] = NoBuf]
           u == GiveBack(p, b, FALSE)
<1>1. Undo(s, j) = u
  BY DEF Undo
<1>2. b \in Blocks
  <2>1. s.cur \in Trans
    BY DEF Linked, Typed
  <2>2. j \in Bufs
    BY <2>1, LbasAreBlocks
  <2> QED
    BY <2>2 DEF Bufs
<1>3. Fit(stale) /\ Linked(stale, {}, 0, 0) /\ stale.cur = s.cur /\ stale.alloc = s.alloc
      /\ stale.buf[b].dirty = FALSE /\ stale.buf[b].upto = FALSE
  <2> DEFINE y == s.buf[b]
             x == [[y EXCEPT !.dirty = FALSE] EXCEPT !.upto = FALSE]
  <2>1. /\ b \in Lbas(s.cur) /\ DOMAIN s.buf = Blocks /\ IsBuf(y)
    BY <1>2 DEF Linked, Typed, Lbas
  <2>2. y.cached /\ y.refs = Refs(s, {}, b)
    BY <1>2, <2>1 DEF Linked, Held
  <2>3. /\ stale.cp = s.cp /\ stale.cur = s.cur /\ stale.rec = s.rec /\ stale.alloc = s.alloc
        /\ Fit(stale) /\ stale.buf = [s.buf EXCEPT ![b] = x] /\ stale.buf[b] = x
    BY <1>2, <2>1 DEF Fit
  <2> HIDE DEF stale, y
  <2>4. /\ IsBuf(x) /\ x.cached /\ x.refs = y.refs /\ x.end = y.end /\ x.dirty = FALSE
        /\ x.upto = FALSE
    BY <2>1, <2>2 DEF IsBuf
  <2> HIDE DEF x
  <2>5. Linked(stale, {}, 0, 0)
    BY <1>2, <2>1, <2>2, <2>3, <2>4, BufLinked DEF y
  <2> QED
    BY <2>3, <2>4, <2>5
<1> HIDE DEF b, stale
<1>4. /\ Orphan(l, b, {b}) /\ LeftBy(stale, l, j)
      /\ l.buf[b] = [stale.buf[b] EXCEPT !.end = None]
  BY <1>2, <1>3, LeaveRecordParts DEF b
<1> HIDE DEF l
<1>5. /\ IsBuf(l.buf[b]) /\ DOMAIN l.buf = Blocks /\ l.buf[b].cached /\ l.buf[b].refs = 1
      /\ Fit(l)
  <2>1. Typed(l) /\ Held(l, {b}) /\ b \notin Lbas(l.cur) /\ Fit(l)
    BY <1>4 DEF Orphan, Parts
  <2>2. Refs(l, {b}, b) = 1
    BY <2>1 DEF Refs
  <2>3. l.buf[b].cached /\ l.buf[b].refs = 1
    BY <1>2, <2>1, <2>2 DEF Held
  <2> QED
    BY <1>2, <2>1, <2>3 DEF Typed
<1>6. l.buf[b].dirty = FALSE /\ l.buf[b].upto = FALSE
  <2> DEFINE y == stale.buf[b]
             x == [y EXCEPT !.end = None]
  <2>1. IsBuf(y) /\ y.dirty = FALSE /\ y.upto = FALSE /\ l.buf[b] = x
    BY <1>2, <1>3, <1>4 DEF Linked, Typed
  <2> HIDE DEF y
  <2>2. y.cached => x.dirty = FALSE /\ x.upto = FALSE
    BY <2>1 DEF IsBuf
  <2>3. y.cached
    BY <1>2, <1>3, LeaveRecordParts DEF y, b
  <2> QED
    BY <2>1, <2>2, <2>3
<1>7. p = w
  <2> DEFINE a == [l EXCEPT !.buf[b].refs = @ - 1]
             y == l.buf[b]
             x == [y EXCEPT !.refs = @ - 1]
  <2>1. a.buf[b] = x /\ [a EXCEPT !.buf[b] = NoBuf] = w
    BY <1>2, <1>5 DEF Fit
  <2>2. p = DropStale(Settled(a, b), b)
    BY DEF Put
  <2>3. IsBuf(y) /\ y.cached /\ y.refs = 1 /\ y.dirty = FALSE /\ y.upto = FALSE
    BY <1>5, <1>6
  <2> HIDE DEF a, y, w, p
  <2>4. x.refs = 0 /\ x.dirty = FALSE /\ x.upto = FALSE
    BY <2>3 DEF IsBuf
  <2> HIDE DEF x
  <2>5. FlushBuf(a, b) = a
    BY <2>1, <2>4 DEF FlushBuf
  <2>6. Settled(a, b) = a
    BY <2>5 DEF Settled
  <2> QED
    BY <2>1, <2>2, <2>4, <2>6 DEF DropStale
<1>8. Orphan(w, b, {}) /\ ~w.buf[b].cached /\ w.cur = l.cur /\ w.alloc = l.alloc
  <2>1. /\ w.cp = l.cp /\ w.cur = l.cur /\ w.rec = l.rec /\ w.alloc = l.alloc /\ Fit(w)
        /\ w.buf[b] = NoBuf /\ DOMAIN w.buf = Blocks /\ \A c \in Blocks \ {b} : w.buf[c] = l.buf[c]
    BY <1>2, <1>5 DEF Fit
  <2> HIDE DEF w
  <2>2. IsBuf(NoBuf) /\ ~NoBuf.cached
    BY DEF IsBuf, NoBuf
  <2>3. Typed(w) /\ Ids(w) /\ Counts(w, 0) /\ Owned(w)
    BY <1>4, <2>1, <2>2 DEF Orphan, Parts, Typed, Ids, Counts, Owned
  <2>4. Listed(w)
    BY <1>4, <2>1 DEF Orphan, Parts, Listed, Waiting
  <2>5. Held(w, {})
    BY <1>4, <2>1, <2>2 DEF Orphan, Parts, Held, Refs
  <2>6. \A c \in Blocks \ {b} : Settles(w, c)
    BY <1>4, <2>1 DEF Orphan, Settles, LatestOwns, EndIsKnown
  <2> QED
    BY <1>4, <2>1, <2>2, <2>3, <2>4, <2>5, <2>6 DEF Orphan, Parts
<1> HIDE DEF w
<1> USE <1>7
<1> HIDE DEF p
<1>9. Fit(u) /\ Linked(u, {}, 0, 0) /\ u.cur = w.cur /\ u.alloc = w.alloc
  BY <1>2, <1>7, <1>8, GiveBackDropped
<1> HIDE DEF u
<1> QED
  BY <1>1, <1>3, <1>4, <1>8, <1>9 DEF GivenUp, LeftBy

\* An open transaction without buffers makes way for another.
LEMMA CurReplaced ==
  ASSUME NEW s, NEW u, NEW X, NEW o, NEW e, Linked(s, X, o, e), s.cur.bufs = <<>>,
         u.cp = s.cp, u.rec = s.rec, u.buf = s.buf, u.alloc = s.alloc,
         u.cur \in Trans, u.cur.bufs = <<>>, \A i \in DOMAIN s.cp : s.cp[i].id # u.cur.id
  PROVE  Linked(u, X, o, e)
<1>1. /\ Elems(s.cur.bufs) = {} /\ Lbas(s.cur) = {} /\ Elems(u.cur.bufs) = {}
      /\ Lbas(u.cur) = {}
  BY DEF Elems, Lbas
<1>2. Typed(u) /\ Ids(u) /\ Counts(u, o)
  BY DEF Linked, Typed, Ids, Counts
<1>3. Owned(u)
  BY <1>1 DEF Linked, Owned, Mine, Distinct, Apart
<1>4. Listed(u)
  <2>1. Waiting(u) = Waiting(s)
    BY <1>1 DEF Waiting
  <2> QED
    BY <2>1 DEF Linked, Listed
<1>5. Latest(u, o, e)
  BY DEF Linked, Latest, Settles, LatestOwns, EndIsKnown
<1>6. Held(u, X)
  BY <1>1 DEF Linked, Held, Refs
<1> QED
  BY <1>2, <1>3, <1>4, <1>5, <1>6 DEF Linked

\* Nobody is left in the open transaction, and it goes.
LEMMA CurGone ==
  ASSUME NEW s, Fit(s), NEW X, Linked(s, X, 0, 0), s.cur.bufs = <<>>, NEW t, t = s.cur.id
  PROVE  LET u == [FreeTrans(s, t) EXCEPT !.cur = NoTrans]
         IN Fit(u) /\ Linked(u, X, 0, 0) /\ u.cur = NoTrans /\ u.alloc = s.alloc
<1> DEFINE f == FreeTrans(s, t)
           u == [f EXCEPT !.cur = NoTrans]
<1>1. Elems(s.cur.bufs) = {} /\ Lbas(s.cur) = {}
  BY DEF Elems, Lbas
<1>2. ASSUME NEW b \in Blocks, s.rec[b].t = t PROVE s.rec[b].queue = <<>>
  <2>1. SUFFICES ASSUME s.rec[b].queue # <<>> PROVE FALSE
    OBVIOUS
  <2> DEFINE x == Last(s.rec[b].queue)
  <2>2. x \in Waiting(s)
    BY <2>1, LastOfRecord, InRecord
  <2>3. x.t = s.cur.id
    BY <1>2, <2>1 DEF Linked, Latest, Settles, LatestOwns
  <2> HIDE DEF x
  <2> QED
    BY <1>1, <2>2, <2>3, OwnerOf
<1>3. Fit(f) /\ Linked(f, X, 0, 0) /\ Passed(s, f)
  BY <1>1, <1>2, FreeTransLinked
<1> HIDE DEF f
<1>4. /\ Fit(u) /\ u.cp = f.cp /\ u.cur = NoTrans /\ u.rec = f.rec /\ u.buf = f.buf
      /\ u.alloc = f.alloc
  BY <1>3 DEF Fit
<1> HIDE DEF u
<1>5. NoTrans \in Trans /\ NoTrans.id = 0 /\ NoTrans.bufs = <<>>
  BY DEF NoTrans, NewTrans, Trans
<1>6. \A i \in DOMAIN f.cp : f.cp[i].id # 0
  BY <1>3 DEF Linked, Ids
<1>7. Linked(u, X, 0, 0)
  BY <1>3, <1>4, <1>5, <1>6, CurReplaced DEF Passed
<1> QED
  BY <1>3, <1>4, <1>7 DEF Passed, f, u

LEMMA AbortedLinked ==
  ASSUME NEW s, Fit(s), Linked(s, {}, 0, 0)
  PROVE  /\ Fit(Aborted(s)) /\ Linked(Aborted(s), {}, 0, 0) /\ Aborted(s).cur = NoTrans
         /\ Aborted(s).alloc = s.alloc
<1> DEFINE q == s.cur.bufs
           n == Len(q)
           v == AllUndo(s, q)
<1>1. q \in Seq(Bufs) /\ Distinct(q)
  <2>1. s.cur \in Trans
    BY DEF Linked, Typed
  <2> QED
    BY <2>1 DEF Trans, Linked, Owned, Mine
<1>2. Aborted(s) = [FreeTrans(v, s.cur.id) EXCEPT !.cur = NoTrans]
  BY DEF Aborted, AllUndo
<1>3. Elems(s.cur.bufs) = Elems(q)
  OBVIOUS
<1> HIDE DEF q
<1>4. /\ n \in Nat /\ Rest(q, 0) = Elems(q) /\ Rest(q, n) = {}
      /\ \A k \in 1 .. n : q[k] \in Rest(q, k - 1) /\ Rest(q, k) = Rest(q, k - 1) \ {q[k]}
  BY <1>1, RestParts
<1>5. PICK f : UndoRun(s, q, f)
  BY <1>4, UndoSteps
<1>6. /\ f[0] = s /\ v = f[n]
      /\ \A k \in 1 .. n : f[k] = Undo(f[k - 1], q[k])
  BY <1>5 DEF UndoRun
<1> HIDE DEF v
<1> DEFINE At(k) == /\ Fit(f[k]) /\ Linked(f[k], {}, 0, 0) /\ Elems(f[k].cur.bufs) = Rest(q, k)
                    /\ f[k].cur.id = s.cur.id /\ f[k].alloc = s.alloc
           S == {k \in Int : At(k)}
<1>7. 0 \in S
  BY <1>3, <1>4, <1>6
<1>8. ASSUME NEW k \in 1 .. n, k - 1 \in S PROVE k \in S
  <2> DEFINE w == f[k - 1]
             j == q[k]
  <2>1. /\ Fit(w) /\ Linked(w, {}, 0, 0) /\ Elems(w.cur.bufs) = Rest(q, k - 1)
        /\ w.cur.id = s.cur.id /\ w.alloc = s.alloc
    BY <1>8
  <2>2. f[k] = Undo(w, j) /\ j \in Rest(q, k - 1) /\ Rest(q, k) = Rest(q, k - 1) \ {j}
    BY <1>4, <1>6
  <2> HIDE DEF w, j, S
  <2>3. GivenUp(w, Undo(w, j), j)
    BY <2>1, <2>2, UndoLinked
  <2>4. At(k)
    BY <2>1, <2>2, <2>3 DEF GivenUp
  <2> QED
    BY <2>4 DEF S
<1> HIDE DEF S
<1>9. n \in S
  BY <1>4, <1>7, <1>8, AllTurns
<1>10. /\ Fit(v) /\ Linked(v, {}, 0, 0) /\ Elems(v.cur.bufs) = {} /\ v.cur.id = s.cur.id
       /\ v.alloc = s.alloc
  BY <1>4, <1>6, <1>9 DEF S
<1>11. v.cur.bufs = <<>>
  <2>1. v.cur \in Trans
    BY <1>10 DEF Linked, Typed
  <2>2. v.cur.bufs \in Seq(Bufs)
    BY <2>1 DEF Trans
  <2> QED
    BY <1>10, <2>2, NoElems
<1> QED
  BY <1>2, <1>10, <1>11, CurGone

----------------------------------------------------------------------------
(* A commit: the copies in the log *)

\* List q when the copy of j is at block at of the log.
Placed(q, j, at) ==
  [i \in DOMAIN q |-> IF Key(q[i]) = Key(j) THEN [q[i] EXCEPT !.at = at] ELSE q[i]]
At(j, at) == [j EXCEPT !.at = at]

LEMMA PlacedParts ==
  ASSUME NEW q \in Seq(Bufs), Distinct(q), NEW j \in Elems(q), NEW at \in Int
  PROVE  /\ Placed(q, j, at) \in Seq(Bufs) /\ Len(Placed(q, j, at)) = Len(q)
         /\ \A i \in DOMAIN q : /\ Key(Placed(q, j, at)[i]) = Key(q[i])
                                /\ Placed(q, j, at)[i].t = q[i].t
                                /\ Placed(q, j, at)[i].lba = q[i].lba
         /\ Elems(Placed(q, j, at)) = (Elems(q) \ {j}) \cup {At(j, at)}
         /\ Distinct(Placed(q, j, at)) /\ (Apart(q) => Apart(Placed(q, j, at)))
<1> DEFINE p == Placed(q, j, at)
           n == Len(q)
<1>1. n \in Nat /\ DOMAIN q = 1 .. n /\ j \in Bufs /\ \A i \in DOMAIN q : q[i] \in Bufs
  BY DEF Elems
<1>2. ASSUME NEW x \in Bufs
      PROVE  /\ At(x, at) \in Bufs /\ Key(At(x, at)) = Key(x) /\ At(x, at).t = x.t
             /\ At(x, at).lba = x.lba
  BY DEF At, Bufs, Key
<1>3. \A i \in DOMAIN q : Key(q[i]) = Key(j) <=> q[i] = j
  BY DEF Distinct, Elems
<1>4. DOMAIN p = 1 .. n /\ \A i \in DOMAIN q : p[i] = IF q[i] = j THEN At(j, at) ELSE q[i]
  BY <1>1, <1>3 DEF Placed, At
<1> HIDE DEF p, n
<1>5. p = [i \in 1 .. n |-> p[i]]
  BY <1>1 DEF p, Placed
<1>6. \A i \in 1 .. n : p[i] \in Bufs
  BY <1>1, <1>2, <1>4
<1>7. p \in Seq(Bufs) /\ Len(p) = n
  BY <1>1, <1>5, <1>6
<1>8. \A i \in DOMAIN q : Key(p[i]) = Key(q[i]) /\ p[i].t = q[i].t /\ p[i].lba = q[i].lba
  BY <1>1, <1>2, <1>4
<1>9. Elems(p) = (Elems(q) \ {j}) \cup {At(j, at)}
  BY <1>1, <1>4 DEF Elems
<1>10. Distinct(p) /\ (Apart(q) => Apart(p))
  BY <1>1, <1>4, <1>8 DEF Distinct, Apart
<1> QED
  BY <1>7, <1>8, <1>9, <1>10 DEF p, n

\* What a copy in the log changes.
CopiedAs(s, u, j, at) ==
  /\ Elems(u.cur.bufs) = (Elems(s.cur.bufs) \ {j}) \cup {At(j, at)}
  /\ u.cur.id = s.cur.id /\ u.cur.freed = s.cur.freed /\ u.alloc = s.alloc

LEMMA CopiedSound ==
  ASSUME NEW s, Sound(s), NEW j \in Elems(s.cur.bufs), NEW at \in Int
  PROVE  Sound(Copied(s, j, at)) /\ CopiedAs(s, Copied(s, j, at), j, at)
<1> DEFINE u == Copied(s, j, at)
           b == j.lba
           jj == At(j, at)
           bufs == Placed(s.cur.bufs, j, at)
           queue == Placed(s.rec[b].queue, j, at)
           t == [s.cur EXCEPT !.bufs = bufs]
           r == [s.rec[b] EXCEPT !.queue = queue]
<1>1. /\ Fit(s) /\ Linked(s, {}, 0, 0) /\ s.cur \in Trans /\ s.cur.bufs \in Seq(Bufs)
      /\ s.rec \in [Blocks -> Recs] /\ \A c \in Blocks : s.rec[c].queue \in Seq(Bufs) /\ s.rec[c] \in Recs
  <2>1. s.cur \in Trans /\ s.rec \in [Blocks -> Recs]
    BY DEF Sound, Linked, Typed
  <2> QED
    BY <2>1 DEF Trans, Recs, Sound
<1>2. j \in Waiting(s) /\ j \in Bufs /\ b \in Blocks /\ j \in Elems(s.rec[b].queue) /\ j.t = s.cur.id
  <2>1. j \in Bufs
    BY <1>1 DEF Elems
  <2>2. j \in Waiting(s)
    BY <2>1 DEF Waiting
  <2> QED
    BY <1>1, <2>1, <2>2, OwnerOf DEF Linked, Owned, Mine
<1>3. Distinct(s.cur.bufs) /\ Apart(s.cur.bufs) /\ Distinct(s.rec[b].queue)
  BY <1>1, <1>2 DEF Linked, Owned, Mine, Listed
<1>4. /\ bufs \in Seq(Bufs) /\ Len(bufs) = Len(s.cur.bufs)
      /\ \A i \in DOMAIN s.cur.bufs : bufs[i].t = s.cur.bufs[i].t /\ bufs[i].lba = s.cur.bufs[i].lba
      /\ Elems(bufs) = (Elems(s.cur.bufs) \ {j}) \cup {jj} /\ Distinct(bufs) /\ Apart(bufs)
  BY <1>1, <1>3, PlacedParts
<1>5. /\ queue \in Seq(Bufs) /\ Len(queue) = Len(s.rec[b].queue)
      /\ \A i \in DOMAIN s.rec[b].queue : /\ Key(queue[i]) = Key(s.rec[b].queue[i])
                                          /\ queue[i].t = s.rec[b].queue[i].t
      /\ Elems(queue) = (Elems(s.rec[b].queue) \ {j}) \cup {jj} /\ Distinct(queue)
  BY <1>1, <1>2, <1>3, PlacedParts
<1>6. jj \in Bufs /\ Key(jj) = Key(j) /\ jj.t = j.t /\ jj.lba = b
  BY <1>2 DEF At, Bufs, Key
<1>7. /\ Fit(u) /\ u.cp = s.cp /\ u.cur = t /\ u.rec = [s.rec EXCEPT ![b] = r]
      /\ u.buf = s.buf /\ u.alloc = s.alloc
  <2>1. u = [s EXCEPT !.cur.bufs = Placed(@, j, at), !.rec[b].queue = Placed(@, j, at)]
    BY DEF Copied, Placed
  <2> QED
    BY <1>1, <2>1 DEF Fit
<1>8. t \in Trans /\ /\ t.id = s.cur.id /\ t.data = s.cur.data /\ t.written = s.cur.written
                     /\ t.bufs = bufs /\ t.revokes = s.cur.revokes /\ t.freed = s.cur.freed
  <2> DEFINE y == s.cur
  <2>1. y \in Trans
    BY <1>1
  <2> HIDE DEF y, bufs
  <2>2. LET z == [y EXCEPT !.bufs = bufs]
        IN z \in Trans /\ /\ z.id = y.id /\ z.data = y.data /\ z.written = y.written
                          /\ z.bufs = bufs /\ z.revokes = y.revokes /\ z.freed = y.freed
    BY <1>4, <2>1 DEF Trans
  <2> QED
    BY <2>2 DEF y
<1>9. r \in Recs /\ r.queue = queue /\ r.t = s.rec[b].t
  <2> HIDE DEF queue
  <2> QED
    BY <1>1, <1>2, <1>5 DEF Recs
<1> HIDE DEF u, bufs, queue, t, r, jj, b
<1>10. /\ \A c \in Blocks \ {b} : u.rec[c] = s.rec[c]
       /\ u.rec[b].queue = queue /\ u.rec[b].t = s.rec[b].t /\ u.rec \in [Blocks -> Recs]
  BY <1>1, <1>2, <1>7, <1>9
<1>11. Lbas(u.cur) = Lbas(s.cur)
  BY <1>4, <1>6, <1>7, <1>8 DEF Lbas, b
<1>12. Typed(u) /\ Ids(u) /\ Counts(u, 0)
  BY <1>1, <1>7, <1>8, <1>10 DEF Linked, Typed, Ids, Counts
<1>13. Owned(u)
  <2>1. \A x \in Elems(bufs) : x.t = t.id
    BY <1>1, <1>2, <1>4, <1>6, <1>8 DEF Linked, Owned, Mine
  <2> QED
    BY <1>1, <1>4, <1>7, <1>8, <2>1 DEF Linked, Owned, Mine
<1>14. Waiting(u) = (Waiting(s) \ {j}) \cup {jj}
  <2>1. \A k \in DOMAIN s.cp : j \notin Elems(s.cp[k].bufs)
    BY <1>1, <1>2 DEF Linked, Owned, Mine, Ids
  <2> QED
    BY <1>4, <1>6, <1>7, <1>8, <2>1 DEF Waiting
<1>15. Listed(u)
  <2> SUFFICES ASSUME NEW c \in Blocks
               PROVE  /\ Elems(u.rec[c].queue) = {x \in Waiting(u) : x.lba = c}
                      /\ Distinct(u.rec[c].queue)
    BY DEF Listed
  <2>1. Elems(s.rec[c].queue) = {x \in Waiting(s) : x.lba = c} /\ Distinct(s.rec[c].queue)
    BY <1>1 DEF Linked, Listed
  <2>2. CASE c = b
    BY <1>2, <1>5, <1>6, <1>10, <1>14, <2>1, <2>2 DEF b
  <2>3. CASE c # b
    BY <1>2, <1>6, <1>10, <1>14, <2>1, <2>3 DEF b
  <2> QED
    BY <2>2, <2>3
<1>16. Latest(u, 0, 0)
  <2>1. \A c \in Blocks \ {b} : Settles(u, c)
    BY <1>1, <1>7, <1>10 DEF Linked, Latest, Settles, LatestOwns, EndIsKnown
  <2>2. LatestOwns(s, b) /\ EndIsKnown(s, b)
    BY <1>1, <1>2 DEF Linked, Latest, Settles
  <2>3. s.rec[b].queue # <<>> /\ Last(queue).t = Last(s.rec[b].queue).t
    <3> DEFINE q == s.rec[b].queue
    <3>1. q \in Seq(Bufs) /\ j \in Elems(q) /\ Len(queue) = Len(q)
          /\ \A i \in DOMAIN q : queue[i].t = q[i].t
      BY <1>1, <1>2, <1>5
    <3> HIDE DEF q
    <3>2. Len(q) \in DOMAIN q /\ q # <<>>
      BY <3>1 DEF Elems
    <3> QED
      BY <3>1, <3>2 DEF Last, q
  <2>4. LatestOwns(u, b)
    BY <1>10, <2>2, <2>3 DEF LatestOwns
  <2>5. EndIsKnown(u, b)
    BY <1>5, <1>6, <1>7, <1>10, <2>2 DEF EndIsKnown
  <2> QED
    BY <1>2, <2>1, <2>4, <2>5 DEF Latest, Settles
<1>17. Held(u, {})
  BY <1>1, <1>7, <1>8, <1>10, <1>11 DEF Linked, Held, Refs
<1>18. Linked(u, {}, 0, 0)
  BY <1>12, <1>13, <1>15, <1>16, <1>17 DEF Linked
<1>19. Committing(u)
  BY <1>4, <1>7, <1>8, <1>11 DEF Sound, Committing
<1> QED
  BY <1>4, <1>7, <1>8, <1>18, <1>19 DEF Sound, CopiedAs, u, jj

LEMMA CloseDescriptorSound ==
  ASSUME NEW p, Sound(p.s)
  PROVE  Sound(CloseDescriptor(p)) /\ Ahead(p.s, CloseDescriptor(p))
<1>1. Ahead(p.s, p.s)
  BY DEF Ahead, Like
<1> DEFINE block == [Header("desc", p.s.cur.id) EXCEPT !.tags = p.tags]
           s == p.s
<1>2. CloseDescriptor(p) = IF p.desc = 0 THEN s ELSE LogTo(s, p.desc, block)
  BY DEF CloseDescriptor
<1> HIDE DEF block
<1>3. Sound(LogTo(s, p.desc, block)) /\ Ahead(s, LogTo(s, p.desc, block))
  BY LogToSound
<1> QED
  BY <1>1, <1>2, <1>3

\* A commit is through with buffer j: it is gone, or in the log and not of a
\* block that is freed.
Through(s, u, j) ==
  /\ Sound(u) /\ u.cur.id = s.cur.id /\ u.cur.freed = s.cur.freed /\ u.alloc = s.alloc
  /\ \A x \in Elems(s.cur.bufs) : x # j => x \in Elems(u.cur.bufs)
  /\ \A x \in Elems(u.cur.bufs) : x \in Elems(s.cur.bufs) \ {j} \/ x.lba \notin s.cur.freed

LEMMA DropCleanThrough ==
  ASSUME NEW s, Sound(s), NEW j \in Elems(s.cur.bufs)
  PROVE  Through(s, DropClean(s, j), j)
BY DropCleanSound DEF Dropped, Through

LEMMA LogCopyThrough ==
  ASSUME NEW p, NEW s, Sound(s), NEW j \in Elems(s.cur.bufs), s.buf[j.lba].dirty, NEW full
  PROVE  Through(s, LogCopy(p, s, j, full).s, j)
<1> DEFINE a == Alloc(s)
           block == DataBlock(Escaped(s.buf[j.lba].val))
           l == LogTo(a, s.last, block)
           at == s.last
           u == Copied(l, j, at)
<1>1. LogCopy(p, s, j, full).s = u
  BY DEF LogCopy
<1>2. Sound(a) /\ Ahead(s, a)
  BY AllocSound
<1> HIDE DEF a, block
<1>3. Sound(l) /\ Ahead(a, l)
  BY <1>2, LogToSound
<1> HIDE DEF l
<1>4. Ahead(s, l) /\ at \in Int /\ j \in Elems(l.cur.bufs)
  <2>1. Ahead(s, l)
    BY <1>2, <1>3, AheadTwice
  <2> QED
    BY <2>1 DEF Sound, Fit, Ahead
<1> HIDE DEF at
<1>5. Sound(u) /\ CopiedAs(l, u, j, at)
  BY <1>3, <1>4, CopiedSound
<1> HIDE DEF u
<1>6. j.lba \notin s.cur.freed
  BY DEF Sound, Committing, Lbas
<1>7. At(j, at).lba = j.lba
  <2>1. s.cur \in Trans
    BY DEF Sound, Linked, Typed
  <2>2. j \in Bufs
    BY <2>1, LbasAreBlocks
  <2> QED
    BY <2>2 DEF Bufs, At
<1> QED
  BY <1>1, <1>4, <1>5, <1>6, <1>7 DEF CopiedAs, Ahead, Through

LEMMA AheadThrough ==
  ASSUME NEW s, NEW v, NEW u, Ahead(s, v), NEW j, Through(v, u, j)
  PROVE  Through(s, u, j)
BY DEF Ahead, Through

LEMMA LogBufferThrough ==
  ASSUME NEW p, Sound(p.s), NEW j \in Elems(p.s.cur.bufs)
  PROVE  Through(p.s, LogBuffer(p, j).s, j)
<1> DEFINE full == p.desc = 0 \/ Len(p.tags) = TagsPerBlock
           s == p.s
           d == CloseDescriptor(p)
           v == IF full THEN Opened(d) ELSE s
<1>1. CASE ~s.buf[j.lba].dirty
  <2>1. LogBuffer(p, j).s = DropClean(s, j)
    BY <1>1 DEF LogBuffer
  <2> QED
    BY <2>1, DropCleanThrough
<1>2. CASE s.buf[j.lba].dirty
  <2>1. LogBuffer(p, j) = LogCopy(p, v, j, full)
    BY <1>2 DEF LogBuffer
  <2>2. Sound(d) /\ Ahead(s, d)
    BY CloseDescriptorSound
  <2> HIDE DEF d
  <2>3. Sound(Opened(d)) /\ Ahead(d, Opened(d))
    BY <2>2, OpenedSound
  <2>4. Sound(v) /\ Ahead(s, v)
    <3>1. Ahead(s, s)
      BY DEF Ahead, Like
    <3>2. Ahead(s, Opened(d))
      BY <2>2, <2>3, AheadTwice
    <3> HIDE DEF full, s
    <3> QED
      BY <2>3, <3>1, <3>2 DEF s
  <2> HIDE DEF v, full
  <2>5. j \in Elems(v.cur.bufs) /\ v.buf[j.lba].dirty
    BY <1>2, <2>4 DEF Ahead, Like, Lbas
  <2>6. Through(v, LogCopy(p, v, j, full).s, j)
    BY <2>4, <2>5, LogCopyThrough
  <2> QED
    BY <2>1, <2>4, <2>6, AheadThrough
<1> QED
  BY <1>1, <1>2

\* The open transaction after a part of its commit.
Later(s, u) ==
  Sound(u) /\ u.cur.id = s.cur.id /\ u.cur.freed = s.cur.freed /\ u.alloc = s.alloc

LEMMA AheadLater ==
  ASSUME NEW s, NEW u, Sound(u), Ahead(s, u)
  PROVE  Later(s, u)
BY DEF Ahead, Later

LEMMA LogBuffersLater ==
  ASSUME NEW s, Sound(s)
  PROVE  Later(s, LogBuffers(s)) /\ Lbas(LogBuffers(s).cur) \cap s.cur.freed = {}
<1> DEFINE q == s.cur.bufs
           n == Len(q)
           z == [s |-> s, desc |-> 0, tags |-> <<>>, i |-> 0]
           v == AllLogBuffer(z, q)
<1>1. q \in Seq(Bufs) /\ Distinct(q)
  <2>1. s.cur \in Trans
    BY DEF Sound, Linked, Typed
  <2> QED
    BY <2>1 DEF Trans, Sound, Linked, Owned, Mine
<1>2. LogBuffers(s) = CloseDescriptor(v)
  BY DEF LogBuffers, AllLogBuffer
<1>3. z.s = s /\ Elems(s.cur.bufs) = Elems(q)
  OBVIOUS
<1> HIDE DEF z, q
<1>4. /\ n \in Nat /\ Rest(q, 0) = Elems(q) /\ Rest(q, n) = {}
      /\ \A k \in 1 .. n : q[k] \in Rest(q, k - 1) /\ Rest(q, k) = Rest(q, k - 1) \ {q[k]}
  BY <1>1, RestParts
<1>5. PICK f : LogBufferRun(z, q, f)
  BY <1>4, LogBufferSteps
<1>6. /\ f[0] = z /\ v = f[n]
      /\ \A k \in 1 .. n : f[k] = LogBuffer(f[k - 1], q[k])
  BY <1>5 DEF LogBufferRun
<1> HIDE DEF v
<1> DEFINE Upto(k) == /\ Later(s, f[k].s) /\ Rest(q, k) \subseteq Elems(f[k].s.cur.bufs)
                      /\ \A x \in Elems(f[k].s.cur.bufs) : x \in Rest(q, k) \/ x.lba \notin s.cur.freed
           S == {k \in Int : Upto(k)}
<1>7. 0 \in S
  BY <1>3, <1>4, <1>6 DEF Later
<1>8. ASSUME NEW k \in 1 .. n, k - 1 \in S PROVE k \in S
  <2> DEFINE p == f[k - 1]
             j == q[k]
  <2>1. /\ Later(s, p.s) /\ Rest(q, k - 1) \subseteq Elems(p.s.cur.bufs)
        /\ \A x \in Elems(p.s.cur.bufs) : x \in Rest(q, k - 1) \/ x.lba \notin s.cur.freed
    BY <1>8
  <2>2. f[k] = LogBuffer(p, j) /\ j \in Rest(q, k - 1) /\ Rest(q, k) = Rest(q, k - 1) \ {j}
    BY <1>4, <1>6
  <2> HIDE DEF p, j, S
  <2>3. Through(p.s, LogBuffer(p, j).s, j)
    BY <2>1, <2>2, LogBufferThrough DEF Later
  <2>4. Upto(k)
    BY <2>1, <2>2, <2>3 DEF Through, Later
  <2> QED
    BY <2>4 DEF S
<1> HIDE DEF S
<1>9. n \in S
  BY <1>4, <1>7, <1>8, AllTurns
<1>10. Later(s, v.s) /\ \A x \in Elems(v.s.cur.bufs) : x.lba \notin s.cur.freed
  BY <1>4, <1>6, <1>9 DEF S
<1>11. Sound(CloseDescriptor(v)) /\ Ahead(v.s, CloseDescriptor(v))
  BY <1>10, CloseDescriptorSound DEF Later
<1> QED
  BY <1>2, <1>10, <1>11 DEF Later, Ahead, Lbas

LEMMA ReverseParts ==
  ASSUME NEW S, NEW q \in Seq(S), Distinct(q)
  PROVE  Reverse(q) \in Seq(S) /\ Elems(Reverse(q)) = Elems(q) /\ Distinct(Reverse(q))
<1> DEFINE n == Len(q)
           r == Reverse(q)
<1>1. n \in Nat /\ DOMAIN q = 1 .. n
  OBVIOUS
<1>2. r = [i \in 1 .. n |-> q[(n - i) + 1]]
  BY DEF Reverse
<1> HIDE DEF r
<1>3. \A i \in 1 .. n : (n - i) + 1 \in 1 .. n /\ (n - ((n - i) + 1)) + 1 = i
  BY <1>1
<1> HIDE DEF n
<1>4. \A i \in 1 .. n : r[i] = q[(n - i) + 1] /\ r[i] \in S
  BY <1>1, <1>2, <1>3
<1>5. r \in Seq(S) /\ DOMAIN r = 1 .. n
  BY <1>1, <1>2, <1>4
<1>6. Elems(r) = Elems(q)
  BY <1>1, <1>3, <1>4, <1>5 DEF Elems
<1>7. Distinct(r)
  <2> SUFFICES ASSUME NEW i \in 1 .. n, NEW k \in 1 .. n, Key(r[i]) = Key(r[k]) PROVE i = k
    BY <1>5 DEF Distinct
  <2>1. (n - i) + 1 = (n - k) + 1
    BY <1>1, <1>3, <1>4 DEF Distinct
  <2> QED
    BY <1>3, <2>1
<1> QED
  BY <1>5, <1>6, <1>7 DEF r

LEMMA DropTailLater ==
  ASSUME NEW s, Sound(s)
  PROVE  Later(s, DropTail(s))
<1> DEFINE q == Reverse(s.cur.bufs)
           n == Len(q)
           z == [s |-> s, stop |-> FALSE]
           v == AllDropAtTail(z, q)
<1>1. q \in Seq(Bufs) /\ Distinct(q) /\ Elems(q) = Elems(s.cur.bufs)
  <2>1. s.cur \in Trans
    BY DEF Sound, Linked, Typed
  <2>2. s.cur.bufs \in Seq(Bufs) /\ Distinct(s.cur.bufs)
    BY <2>1 DEF Trans, Sound, Linked, Owned, Mine
  <2> QED
    BY <2>2, ReverseParts
<1>2. DropTail(s) = v.s
  BY DEF DropTail, AllDropAtTail
<1>3. z.s = s
  OBVIOUS
<1> HIDE DEF z, q
<1>4. /\ n \in Nat /\ Rest(q, 0) = Elems(q) /\ Rest(q, n) = {}
      /\ \A k \in 1 .. n : q[k] \in Rest(q, k - 1) /\ Rest(q, k) = Rest(q, k - 1) \ {q[k]}
  BY <1>1, RestParts
<1>5. PICK f : DropAtTailRun(z, q, f)
  BY <1>4, DropAtTailSteps
<1>6. /\ f[0] = z /\ v = f[n]
      /\ \A k \in 1 .. n : f[k] = DropAtTail(f[k - 1], q[k])
  BY <1>5 DEF DropAtTailRun
<1> HIDE DEF v
<1> DEFINE Upto(k) == Later(s, f[k].s) /\ Rest(q, k) \subseteq Elems(f[k].s.cur.bufs)
           S == {k \in Int : Upto(k)}
<1>7. 0 \in S
  BY <1>1, <1>3, <1>4, <1>6 DEF Later
<1>8. ASSUME NEW k \in 1 .. n, k - 1 \in S PROVE k \in S
  <2> DEFINE p == f[k - 1]
             j == q[k]
  <2>1. Later(s, p.s) /\ Rest(q, k - 1) \subseteq Elems(p.s.cur.bufs)
    BY <1>8
  <2>2. f[k] = DropAtTail(p, j) /\ j \in Rest(q, k - 1) /\ Rest(q, k) = Rest(q, k - 1) \ {j}
    BY <1>4, <1>6
  <2> HIDE DEF j, S
  <2>3. f[k].s = p.s \/ f[k].s = DropClean(p.s, j)
    <3>1. CASE p.stop \/ p.s.buf[j.lba].dirty
      <4>1. DropAtTail(p, j) = [p EXCEPT !.stop = TRUE]
        BY <3>1 DEF DropAtTail
      <4> QED
        BY <2>2, <4>1
    <3>2. CASE ~(p.stop \/ p.s.buf[j.lba].dirty)
      BY <2>2, <3>2 DEF DropAtTail
    <3> QED
      BY <3>1, <3>2
  <2>4. Through(p.s, DropClean(p.s, j), j)
    BY <2>1, <2>2, DropCleanThrough DEF Later
  <2>5. Upto(k)
    BY <2>1, <2>2, <2>3, <2>4 DEF Through, Later
  <2> QED
    BY <2>5 DEF S
<1> HIDE DEF S
<1>9. n \in S
  BY <1>4, <1>7, <1>8, AllTurns
<1> QED
  BY <1>2, <1>6, <1>9 DEF S

LEMMA PrepareLater ==
  ASSUME NEW s, Sound(s)
  PROVE  Later(s, Prepare(s)) /\ Lbas(Prepare(s).cur) \cap s.cur.freed = {}
<1> DEFINE d == DropTail(s)
           u == LogBuffers(d)
<1>1. Prepare(s) = u
  BY DEF Prepare
<1>2. Later(s, d)
  BY DropTailLater
<1> HIDE DEF d
<1>3. Later(d, u) /\ Lbas(u.cur) \cap d.cur.freed = {}
  BY <1>2, LogBuffersLater DEF Later
<1> QED
  BY <1>1, <1>2, <1>3 DEF Later

----------------------------------------------------------------------------
(* A commit: the revokes *)

LEMMA SetToSeqParts ==
  ASSUME NEW S, IsFiniteSet(S)
  PROVE  SetToSeq(S) \in Seq(S)
<1> DEFINE n == Cardinality(S)
<1>1. n \in Nat /\ ExistsBijection(1 .. n, S)
  BY FS_CardinalityType
<1>2. \E f \in [1 .. n -> S] : IsInjective(f)
  BY <1>1 DEF ExistsBijection, Bijection, Injection
<1>3. SetToSeq(S) \in [1 .. n -> S]
  BY <1>2 DEF SetToSeq
<1> QED
  BY <1>1, <1>3

LEMMA RevokesAreFinite ==
  ASSUME NEW s, Typed(s)
  PROVE  IsFiniteSet(s.cur.revokes)
<1>1. s.cur.revokes \subseteq Pool
  BY DEF Typed, Trans
<1> QED
  BY <1>1, JournalAssumption, FS_Subset

LEMMA Quotient ==
  ASSUME NEW n \in Nat, NEW r \in Nat \ {0}
  PROVE  (n + r - 1) \div r \in Nat
OBVIOUS

LEMMA LogRevokesSound ==
  ASSUME NEW s, Sound(s), NEW revoked
  PROVE  Sound(LogRevokes(s, revoked)) /\ Ahead(s, LogRevokes(s, revoked))
<1> DEFINE o == Opened(s)
           block == [Header("revoke", s.cur.id) EXCEPT !.revoked = revoked]
<1>1. Sound(o) /\ Ahead(s, o)
  BY OpenedSound
<1>2. LogRevokes(s, revoked) = LogTo(o, s.last, block)
  BY DEF LogRevokes
<1> HIDE DEF o, block
<1>3. Sound(LogTo(o, s.last, block)) /\ Ahead(o, LogTo(o, s.last, block))
  BY <1>1, LogToSound
<1> QED
  BY <1>1, <1>2, <1>3, AheadTwice

LEMMA PrepareRevokeSound ==
  ASSUME NEW s, Sound(s)
  PROVE  Sound(PrepareRevoke(s)) /\ Ahead(s, PrepareRevoke(s))
<1> DEFINE list == SetToSeq(s.cur.revokes)
           chunk(i) == {list[k] : k \in {k \in DOMAIN list : (k - 1) \div RevokesPerBlock = i - 1}}
           count == (Len(list) + RevokesPerBlock - 1) \div RevokesPerBlock
           q == [i \in 1 .. count |-> chunk(i)]
           n == Len(q)
<1>1. n \in Nat
  <2>1. list \in Seq(s.cur.revokes)
    BY RevokesAreFinite, SetToSeqParts DEF Sound, Linked
  <2>2. Len(list) \in Nat
    BY <2>1
  <2> HIDE DEF list
  <2>3. count \in Nat
    BY <2>2, Quotient, JournalAssumption
  <2> HIDE DEF count
  <2> QED
    BY <2>3
<1>2. PrepareRevoke(s) = AllLogRevokes(s, q)
  BY DEF PrepareRevoke, AllLogRevokes
<1> HIDE DEF q
<1>3. PICK f : LogRevokesRun(s, q, f)
  BY <1>1, LogRevokesSteps
<1>4. /\ f[0] = s /\ AllLogRevokes(s, q) = f[n]
      /\ \A k \in 1 .. n : f[k] = LogRevokes(f[k - 1], q[k])
  BY <1>3 DEF LogRevokesRun
<1> DEFINE S == {k \in Int : Sound(f[k]) /\ Ahead(s, f[k])}
<1>5. 0 \in S
  BY <1>4 DEF Ahead, Like
<1>6. ASSUME NEW k \in 1 .. n, k - 1 \in S PROVE k \in S
  <2> DEFINE v == f[k - 1]
             w == LogRevokes(v, q[k])
  <2>1. Sound(v) /\ Ahead(s, v) /\ f[k] = w
    BY <1>4, <1>6
  <2> HIDE DEF v, S
  <2>2. Sound(w) /\ Ahead(v, w)
    BY <2>1, LogRevokesSound
  <2> HIDE DEF w
  <2>3. Ahead(s, w)
    BY <2>1, <2>2, AheadTwice
  <2> QED
    BY <2>1, <2>2, <2>3 DEF S
<1> HIDE DEF S
<1>7. n \in S
  BY <1>1, <1>5, <1>6, AllTurns
<1> QED
  BY <1>2, <1>4, <1>7 DEF S

LEMMA WroteMoved ==
  ASSUME NEW s, NEW u, NEW b, Wrote(s, u, b)
  PROVE  Moved(s, u, b)
BY DEF Wrote, Moved, Like

LEMMA TakenAlone ==
  ASSUME NEW s, Fit(s), Linked(s, {}, 0, 0), NEW b \in Blocks, s.buf[b].cached, NEW h,
         h = Taken(s, b)
  PROVE  /\ Fit(h) /\ Linked(h, {b}, 0, 0) /\ h.cur = s.cur /\ h.rec = s.rec
         /\ h.buf[b].cached = TRUE
<1> DEFINE X == {}
<1>1. Linked(s, X, 0, 0) /\ b \notin X /\ X \cup {b} = {b}
  OBVIOUS
<1> HIDE DEF X
<1>2. /\ Fit(h) /\ Linked(h, X \cup {b}, 0, 0) /\ h.cur = s.cur /\ h.rec = s.rec
      /\ h.buf[b] = [s.buf[b] EXCEPT !.refs = @ + 1]
  BY <1>1, TakenLinked
<1>3. IsBuf(s.buf[b])
  BY DEF Linked, Typed
<1> QED
  BY <1>1, <1>2, <1>3 DEF IsBuf

LEMMA EndLastMoved ==
  ASSUME NEW s, Fit(s), Linked(s, {}, 0, 0), NEW b \in Blocks, b \notin Lbas(s.cur)
  PROVE  /\ Fit(EndLast(s, b)) /\ Linked(EndLast(s, b), {}, 0, 0)
         /\ Moved(s, EndLast(s, b), b)
<1> DEFINE j == Last(s.rec[b].queue)
<1>1. CASE s.rec[b].queue = <<>>
  BY <1>1 DEF EndLast, Moved, Like
<1>2. CASE s.rec[b].queue # <<>>
  <2>1. EndLast(s, b) = EndCopy(s, j)
    BY <1>2 DEF EndLast
  <2>2. j \in Elems(s.rec[b].queue)
    BY <1>2, LastOfRecord
  <2> HIDE DEF j
  <2>3. j.lba = b /\ j.t # s.cur.id
    BY <2>2, InRecord, OwnerOf
  <2>4. CASE s.buf[b].cached
    <3> DEFINE h == Taken(s, b)
               w == EndWrite(h, j, TRUE)
    <3>1. EndCopy(s, j) = Put(w, b)
      BY <2>3, <2>4 DEF EndCopy, Taken
    <3> HIDE DEF w
    <3>2. /\ Fit(h) /\ Linked(h, {b}, 0, 0) /\ h.cur = s.cur /\ h.rec = s.rec
          /\ h.buf[b].cached = TRUE
      BY <2>4, TakenAlone
    <3> HIDE DEF h
    <3>4. j \in Elems(h.rec[b].queue) /\ j.t # h.cur.id
      BY <2>2, <2>3, <3>2
    <3>5. \E v : /\ v = EndWrite(h, j, h.buf[b].cached)
                 /\ Fit(v) /\ Linked(v, {b}, 0, 0) /\ Wrote(h, v, b)
      BY <3>2, <3>4, EndWriteLinked
    <3>6. Fit(w) /\ Linked(w, {b}, 0, 0) /\ Wrote(h, w, b)
      BY <3>2, <3>5 DEF w
    <3> QED
      BY <2>1, <2>4, <3>1, <3>6, PutBackLinked DEF h
  <2>5. CASE ~s.buf[b].cached
    <3> DEFINE w == EndWrite(s, j, FALSE)
    <3>1. s.buf[b].cached = FALSE
      BY <2>5 DEF Linked, Typed, IsBuf
    <3>2. \E v : /\ v = EndWrite(s, j, s.buf[b].cached)
                 /\ Fit(v) /\ Linked(v, {}, 0, 0) /\ Wrote(s, v, b)
      BY <2>2, <2>3, EndWriteLinked
    <3>3. EndCopy(s, j) = w
      BY <2>3, <2>5 DEF EndCopy
    <3>4. Fit(w) /\ Linked(w, {}, 0, 0) /\ Wrote(s, w, b)
      BY <3>1, <3>2
    <3> HIDE DEF w
    <3> QED
      BY <2>1, <3>3, <3>4, WroteMoved
  <2> QED
    BY <2>4, <2>5
<1> QED
  BY <1>1, <1>2

LEMMA EndRevokedSound ==
  ASSUME NEW s, Sound(s), Lbas(s.cur) \cap s.cur.freed = {}
  PROVE  Sound(EndRevoked(s)) /\ Ahead(s, EndRevoked(s))
<1> DEFINE q == SetToSeq(s.cur.revokes)
           n == Len(q)
<1>1. q \in Seq(s.cur.revokes)
  BY RevokesAreFinite, SetToSeqParts DEF Sound, Linked
<1>2. s.cur.revokes \subseteq Blocks /\ s.cur.revokes \cap Lbas(s.cur) = {}
  <2>1. s.cur.revokes \subseteq Pool
    BY DEF Sound, Linked, Typed, Trans
  <2> QED
    BY <2>1 DEF Sound, Committing, Blocks
<1>3. EndRevoked(s) = AllEndLast(s, q)
  BY DEF EndRevoked, AllEndLast
<1> HIDE DEF q
<1>4. n \in Nat /\ \A k \in 1 .. n : q[k] \in Blocks /\ q[k] \notin Lbas(s.cur)
  <2>1. n \in Nat /\ \A k \in 1 .. n : q[k] \in s.cur.revokes
    BY <1>1
  <2> QED
    BY <1>2, <2>1
<1>5. PICK f : EndLastRun(s, q, f)
  BY <1>4, EndLastSteps
<1>6. /\ f[0] = s /\ AllEndLast(s, q) = f[n]
      /\ \A k \in 1 .. n : f[k] = EndLast(f[k - 1], q[k])
  BY <1>5 DEF EndLastRun
<1> DEFINE S == {k \in Int : Sound(f[k]) /\ Ahead(s, f[k])}
<1>7. 0 \in S
  BY <1>6 DEF Ahead, Like
<1>8. ASSUME NEW k \in 1 .. n, k - 1 \in S PROVE k \in S
  <2> DEFINE v == f[k - 1]
             b == q[k]
             w == EndLast(v, b)
  <2>1. Sound(v) /\ Ahead(s, v) /\ f[k] = w
    BY <1>6, <1>8
  <2> HIDE DEF v, S
  <2>2. b \in Blocks /\ b \notin Lbas(v.cur)
    BY <1>4, <2>1 DEF Ahead, Lbas
  <2> HIDE DEF b
  <2>3. Fit(w) /\ Linked(w, {}, 0, 0) /\ Moved(v, w, b)
    BY <2>1, <2>2, EndLastMoved DEF Sound
  <2> HIDE DEF w
  <2>4. Ahead(v, w)
    BY <2>1, <2>2, <2>3, MovedKept, KeptAhead DEF Sound, Linked
  <2>5. Sound(w) /\ Ahead(s, w)
    BY <2>1, <2>3, <2>4, AheadCommitting, AheadTwice DEF Sound
  <2> QED
    BY <2>1, <2>5 DEF S
<1> HIDE DEF S
<1>9. n \in S
  BY <1>4, <1>7, <1>8, AllTurns
<1> QED
  BY <1>3, <1>6, <1>9 DEF S

----------------------------------------------------------------------------
(* A commit: the transaction joins the checkpoint queue *)

\* A loop of releases: each buffer of t is let go.
LEMMA ReleaseLinked ==
  ASSUME NEW s, Fit(s), NEW t \in Trans, Apart(t.bufs), Linked(s, Lbas(t), 0, 0)
  PROVE  /\ Fit(Release(s, t)) /\ Linked(Release(s, t), {}, 0, 0)
         /\ Release(s, t).cur = s.cur /\ Release(s, t).alloc = s.alloc
<1> DEFINE q == t.bufs
           n == Len(q)
           Left(k) == {x.lba : x \in Rest(q, k)}
<1>1. q \in Seq(Bufs) /\ Apart(q) /\ Lbas(t) = {x.lba : x \in Elems(q)}
  BY DEF Trans, Lbas
<1>2. Release(s, t) = AllPutBuf(s, q)
  BY DEF Release, AllPutBuf
<1> HIDE DEF q
<1>3. /\ n \in Nat /\ Rest(q, 0) = Elems(q) /\ Rest(q, n) = {}
      /\ \A k \in 1 .. n : q[k] \in Rest(q, k - 1) /\ q[k] \in Bufs
  BY <1>1, RestParts
<1>4. \A k \in 1 .. n : /\ q[k].lba \in Left(k - 1) /\ q[k].lba \in Blocks
                        /\ Left(k) = Left(k - 1) \ {q[k].lba}
  <2> SUFFICES ASSUME NEW k \in 1 .. n
               PROVE  /\ q[k].lba \in Left(k - 1) /\ q[k].lba \in Blocks
                      /\ Left(k) = Left(k - 1) \ {q[k].lba}
    OBVIOUS
  <2>1. /\ DOMAIN q = 1 .. n /\ k - 1 + 1 = k
        /\ \A l \in k .. n : l \in 1 .. n /\ (l = k \/ l \in k + 1 .. n)
        /\ \A l \in k + 1 .. n : l \in k .. n /\ l # k /\ l \in 1 .. n
    BY <1>1, <1>3
  <2>2. Left(k - 1) = {q[l].lba : l \in k .. n} /\ Left(k) = {q[l].lba : l \in k + 1 .. n}
    BY <2>1 DEF Rest
  <2>3. \A l \in k + 1 .. n : q[l].lba # q[k].lba
    BY <1>1, <2>1 DEF Apart
  <2>4. Left(k) = Left(k - 1) \ {q[k].lba}
    BY <2>1, <2>2, <2>3
  <2> QED
    BY <1>3, <2>4 DEF Bufs
<1>5. PICK f : PutBufRun(s, q, f)
  BY <1>3, PutBufSteps
<1>6. /\ f[0] = s /\ AllPutBuf(s, q) = f[n]
      /\ \A k \in 1 .. n : f[k] = PutBuf(f[k - 1], q[k])
  BY <1>5 DEF PutBufRun
<1> DEFINE Upto(k) == /\ Fit(f[k]) /\ Linked(f[k], Left(k), 0, 0)
                      /\ f[k].cur = s.cur /\ f[k].alloc = s.alloc
           S == {k \in Int : Upto(k)}
<1>7. Left(0) = Lbas(t) /\ Left(n) = {}
  BY <1>1, <1>3
<1> HIDE DEF Left
<1>8. 0 \in S
  BY <1>6, <1>7
<1>9. ASSUME NEW k \in 1 .. n, k - 1 \in S PROVE k \in S
  <2> DEFINE v == f[k - 1]
             b == q[k].lba
             w == Put(v, b)
             X == Left(k - 1)
  <2>1. Fit(v) /\ Linked(v, X, 0, 0) /\ v.cur = s.cur /\ v.alloc = s.alloc
    BY <1>9
  <2>2. f[k] = w /\ b \in X /\ b \in Blocks /\ Left(k) = X \ {b}
    BY <1>4, <1>6 DEF PutBuf
  <2> HIDE DEF v, b, X, S
  <2>3. Fit(w) /\ Linked(w, X \ {b}, 0, 0) /\ Released(v, w, b)
    BY <2>1, <2>2, PutLinked
  <2> HIDE DEF w
  <2>4. Upto(k)
    BY <2>1, <2>2, <2>3 DEF Released
  <2> QED
    BY <2>4 DEF S
<1> HIDE DEF S
<1>10. n \in S
  BY <1>3, <1>8, <1>9, AllTurns
<1> QED
  BY <1>2, <1>6, <1>7, <1>10 DEF S

\* The transaction at the end of the queue, and none open.
Queued(s) == [s EXCEPT !.cp = Append(@, s.cur), !.cur = NoTrans]

LEMMA QueuedLinked ==
  ASSUME NEW s, Sound(s), s.cur.id < s.alloc
  PROVE  /\ Fit(Queued(s)) /\ Linked(Queued(s), Lbas(s.cur), 0, 0) /\ Queued(s).cur = NoTrans
         /\ Queued(s).cp = Append(s.cp, s.cur) /\ Queued(s).alloc = s.alloc
<1> DEFINE u == Queued(s)
           t == s.cur
           n == Len(s.cp)
           cp == Append(s.cp, t)
           X == Lbas(t)
<1>1. /\ Fit(s) /\ Linked(s, {}, 0, 0) /\ t \in Trans /\ s.cp \in Seq(Trans)
      /\ t.id \in 1 .. s.alloc - 1 /\ t.data = Len(t.bufs) /\ t.written = 0
  BY DEF Sound, Linked, Typed, Committing
<1>2. /\ Fit(u) /\ u.cp = cp /\ u.cur = NoTrans /\ u.rec = s.rec /\ u.buf = s.buf
      /\ u.alloc = s.alloc
  BY <1>1 DEF Fit, Queued
<1>3. NoTrans \in Trans /\ NoTrans.id = 0 /\ NoTrans.bufs = <<>>
  BY DEF NoTrans, NewTrans, Trans
<1>4. Elems(NoTrans.bufs) = {} /\ Lbas(NoTrans) = {} /\ Mine(NoTrans)
  BY <1>3 DEF Elems, Lbas, Mine, Distinct, Apart
<1>5. /\ n \in Nat /\ cp \in Seq(Trans) /\ DOMAIN s.cp = 1 .. n /\ DOMAIN cp = 1 .. n + 1
      /\ cp[n + 1] = t /\ \A i \in 1 .. n : cp[i] = s.cp[i]
  BY <1>1
<1>6. \A i \in 1 .. n + 1 : i \in 1 .. n \/ i = n + 1
  BY <1>5
<1>7. 1 .. n \subseteq 1 .. n + 1 /\ n + 1 \in 1 .. n + 1
  BY <1>5
<1> HIDE DEF u, t, n, cp, X
<1>8. Typed(u)
  BY <1>1, <1>2, <1>3, <1>5 DEF Linked, Typed
<1>9. Ids(u)
  <2>1. \A i \in 1 .. n : s.cp[i].id \in 1 .. s.alloc - 1 /\ s.cp[i].id # t.id /\ s.cp[i].id # 0
    BY <1>1, <1>5 DEF Linked, Ids, t
  <2>2. \A i \in DOMAIN u.cp : u.cp[i].id \in 1 .. u.alloc - 1 /\ u.cp[i].id # u.cur.id
    BY <1>1, <1>2, <1>3, <1>5, <1>6, <2>1
  <2>3. \A i, k \in 1 .. n : s.cp[i].id = s.cp[k].id => i = k
    BY <1>1, <1>5 DEF Linked, Ids
  <2>4. ASSUME NEW i \in DOMAIN u.cp, NEW k \in DOMAIN u.cp, u.cp[i].id = u.cp[k].id
        PROVE  i = k
    BY <1>2, <1>5, <1>6, <2>1, <2>3, <2>4
  <2> QED
    BY <2>2, <2>4 DEF Ids
<1>10. Counts(u, 0)
  <2> SUFFICES ASSUME NEW i \in DOMAIN u.cp
               PROVE  u.cp[i].data = u.cp[i].written + Len(u.cp[i].bufs)
                                     + IF u.cp[i].id = 0 THEN 1 ELSE 0
    BY DEF Counts
  <2>1. CASE i \in 1 .. n
    BY <1>1, <1>2, <1>5, <2>1 DEF Linked, Counts
  <2>2. CASE i = n + 1
    <3>1. Len(t.bufs) \in Nat /\ t.id # 0
      BY <1>1 DEF Trans
    <3> QED
      BY <1>1, <1>2, <1>5, <2>2, <3>1
  <2> QED
    BY <1>2, <1>5, <1>6, <2>1, <2>2
<1>11. Owned(u)
  <2>1. Mine(t) /\ \A i \in 1 .. n : Mine(s.cp[i])
    BY <1>1, <1>5 DEF Linked, Owned, t
  <2> QED
    BY <1>2, <1>4, <1>5, <1>6, <2>1 DEF Owned
<1>12. Waiting(u) = Waiting(s)
  <2>1. \A x : (\E i \in 1 .. n + 1 : x \in Elems(cp[i].bufs))
               <=> (x \in Elems(t.bufs) \/ \E i \in 1 .. n : x \in Elems(s.cp[i].bufs))
    BY <1>5, <1>6, <1>7
  <2> QED
    BY <1>2, <1>4, <1>5, <2>1 DEF Waiting, t
<1>13. Listed(u)
  BY <1>1, <1>2, <1>12 DEF Linked, Listed
<1>14. Latest(u, 0, 0)
  BY <1>1, <1>2 DEF Linked, Latest, Settles, LatestOwns, EndIsKnown
<1>15. Held(u, X)
  <2> SUFFICES ASSUME NEW c \in Blocks
               PROVE  /\ c \in Lbas(u.cur) => u.rec[c].t = u.cur.id
                      /\ IF u.buf[c].cached THEN u.buf[c].refs = Refs(u, X, c)
                         ELSE c \notin Lbas(u.cur) \cup X
    BY DEF Held
  <2>1. c \notin Lbas(u.cur)
    BY <1>2, <1>4
  <2>2. Refs(u, X, c) = Refs(s, {}, c)
    BY <2>1 DEF Refs, X, t
  <2> QED
    BY <1>1, <1>2, <2>1, <2>2 DEF Linked, Held, X, t
<1>16. Linked(u, X, 0, 0)
  BY <1>8, <1>9, <1>10, <1>11, <1>13, <1>14, <1>15 DEF Linked
<1> QED
  BY <1>2, <1>16 DEF u, X, t, cp

\* What is left when no transaction is open.
Closed(u, alloc) == Fit(u) /\ Linked(u, {}, 0, 0) /\ u.cur = NoTrans /\ u.alloc = alloc

LEMMA EnqueueClosed ==
  ASSUME NEW s, Sound(s), s.cur.id < s.alloc
  PROVE  Closed(Enqueue(s), s.alloc)
<1> DEFINE t == s.cur
           q == Queued(s)
           X == Lbas(t)
           w == WriteSb(StartAt(q, t))
           a == TellSb(StartAfter(q, t))
<1>1. t \in Trans /\ Apart(t.bufs) /\ t.data = Len(t.bufs) /\ t.bufs \in Seq(Bufs)
  <2>1. t \in Trans
    BY DEF Sound, Linked, Typed
  <2> QED
    BY <2>1 DEF Sound, Linked, Committing, Owned, Mine, Trans
<1>2. /\ Fit(q) /\ Linked(q, X, 0, 0) /\ q.cur = NoTrans /\ q.alloc = s.alloc
      /\ q.cp = Append(s.cp, t)
  BY QueuedLinked
<1>3. Enqueue(s) = IF s.cp # <<>> THEN Release(q, t)
                   ELSE IF t.data > 0 THEN Release(w, t) ELSE a
  BY DEF Enqueue, Queued
<1> HIDE DEF q, X
<1>4. CASE s.cp # <<>>
  BY <1>1, <1>2, <1>3, <1>4, ReleaseLinked DEF Closed, X
<1>5. CASE s.cp = <<>> /\ t.data > 0
  <2>1. Fit(StartAt(q, t)) /\ Same(q, StartAt(q, t))
    BY <1>1, <1>2, StartAtSame
  <2>2. Fit(w) /\ Same(StartAt(q, t), w)
    BY <2>1, WriteSbSame
  <2>3. Same(q, w)
    BY <2>1, <2>2 DEF Same
  <2> HIDE DEF w
  <2>4. Linked(w, X, 0, 0) /\ w.cur = NoTrans /\ w.alloc = s.alloc
    BY <1>2, <2>3, SameLinked DEF Same
  <2> QED
    BY <1>1, <1>3, <1>5, <2>2, <2>4, ReleaseLinked DEF Closed, X
<1>6. CASE s.cp = <<>> /\ ~(t.data > 0)
  <2>1. t.bufs = <<>>
    <3>1. Len(t.bufs) \in Nat
      BY <1>1
    <3>2. Len(t.bufs) = 0
      BY <1>1, <1>6, <3>1
    <3> QED
      BY <1>1, <3>2, EmptySeq
  <2>2. X = {}
    BY <2>1 DEF X, Lbas, Elems
  <2>3. q.cp = <<t>> /\ 1 \in DOMAIN q.cp /\ q.cp[1] = t
    BY <1>2, <1>6
  <2>4. t.id # 0
    BY DEF Sound, Committing
  <2>5. /\ Fit(StartAfter(q, t)) /\ Linked(StartAfter(q, t), {}, 0, 0)
        /\ Passed(q, StartAfter(q, t))
    BY <1>1, <1>2, <2>1, <2>2, <2>3, <2>4, StartAfterLinked
  <2>6. Fit(a) /\ Same(StartAfter(q, t), a)
    BY <2>5, TellSbSame
  <2> HIDE DEF a
  <2>7. Linked(a, {}, 0, 0) /\ a.cur = NoTrans /\ a.alloc = s.alloc
    BY <1>2, <2>5, <2>6, SameLinked DEF Same, Passed
  <2> QED
    BY <1>3, <1>6, <2>6, <2>7 DEF Closed
<1> QED
  BY <1>4, <1>5, <1>6

\* The id of the transaction is taken.
NextId(s) == [s EXCEPT !.alloc = @ + 1]

LEMMA NextIdSound ==
  ASSUME NEW s, Sound(s)
  PROVE  /\ Sound(NextId(s)) /\ NextId(s).cur = s.cur /\ NextId(s).alloc = s.alloc + 1
         /\ s.cur.id < s.alloc + 1
<1> DEFINE u == NextId(s)
<1>1. s.alloc \in Nat /\ s.cur.id \in 1 .. s.alloc /\ Fit(s) /\ Linked(s, {}, 0, 0)
  BY DEF Sound, Linked, Typed, Committing
<1>2. /\ Fit(u) /\ u.cp = s.cp /\ u.cur = s.cur /\ u.rec = s.rec /\ u.buf = s.buf
      /\ u.alloc = s.alloc + 1
  BY <1>1 DEF Fit, NextId
<1> HIDE DEF u
<1>3. Typed(u) /\ Counts(u, 0)
  BY <1>1, <1>2 DEF Linked, Typed, Counts
<1>4. Ids(u)
  <2>1. \A i \in 1 .. s.alloc - 1 : i \in 1 .. u.alloc - 1
    BY <1>1, <1>2
  <2> QED
    BY <1>1, <1>2, <2>1 DEF Linked, Ids
<1>5. Owned(u) /\ Listed(u)
  BY <1>1, <1>2 DEF Linked, Owned, Listed, Waiting
<1>6. Latest(u, 0, 0)
  BY <1>1, <1>2 DEF Linked, Latest, Settles, LatestOwns, EndIsKnown
<1>7. Held(u, {})
  BY <1>1, <1>2 DEF Linked, Held, Refs
<1>8. Committing(u)
  BY <1>1, <1>2 DEF Sound, Committing
<1> QED
  BY <1>1, <1>2, <1>3, <1>4, <1>5, <1>6, <1>7, <1>8 DEF Linked, Sound, u

LEMMA LoggedClosed ==
  ASSUME NEW s, Sound(s), Lbas(s.cur) \cap s.cur.freed = {}
  PROVE  Closed(Logged(s), s.alloc) \/ Closed(Logged(s), s.alloc + 1)
<1>1. CASE s.cur.bufs = <<>> /\ s.cur.revokes = {}
  <2>1. Logged(s) = [FreeTrans(s, s.cur.id) EXCEPT !.cur = NoTrans]
    BY <1>1 DEF Logged
  <2>2. Closed([FreeTrans(s, s.cur.id) EXCEPT !.cur = NoTrans], s.alloc)
    BY <1>1, CurGone DEF Sound, Closed
  <2> QED
    BY <2>1, <2>2
<1>2. CASE ~(s.cur.bufs = <<>> /\ s.cur.revokes = {})
  <2> DEFINE a == Alloc(s)
             block == Header("commit", s.cur.id)
             l == LogTo(a, s.last, block)
             d == NextId(l)
             e == EndRevoked(d)
             u == Enqueue(e)
  <2>1. Logged(s) = u
    BY <1>2 DEF Logged, LogCommit, NextId
  <2>2. Sound(a) /\ Ahead(s, a)
    BY AllocSound
  <2> HIDE DEF a, block
  <2>3. Sound(l) /\ Ahead(a, l)
    BY <2>2, LogToSound
  <2> HIDE DEF l
  <2>4. /\ Sound(d) /\ d.cur = l.cur /\ d.alloc = l.alloc + 1 /\ d.cur.id < d.alloc
    BY <2>3, NextIdSound
  <2> HIDE DEF d
  <2>5. Lbas(d.cur) \cap d.cur.freed = {} /\ d.alloc = s.alloc + 1
    BY <2>2, <2>3, <2>4 DEF Ahead, Lbas
  <2>6. Sound(e) /\ Ahead(d, e)
    BY <2>4, <2>5, EndRevokedSound
  <2> HIDE DEF e
  <2>7. e.cur.id < e.alloc /\ e.alloc = s.alloc + 1
    BY <2>4, <2>5, <2>6 DEF Ahead
  <2>8. Closed(u, s.alloc + 1)
    BY <2>6, <2>7, EnqueueClosed
  <2> QED
    BY <2>1, <2>8
<1> QED
  BY <1>1, <1>2

LEMMA CommittedClosed ==
  ASSUME NEW s, Sound(s)
  PROVE  Closed(Committed(s), s.alloc) \/ Closed(Committed(s), s.alloc + 1)
<1> DEFINE p == Prepare(s)
           r == PrepareRevoke(p)
           u == Logged(r)
<1>1. Committed(s) = u
  BY DEF Committed
<1>2. Later(s, p) /\ Lbas(p.cur) \cap s.cur.freed = {}
  BY PrepareLater
<1> HIDE DEF p
<1>3. Sound(r) /\ Ahead(p, r)
  BY <1>2, PrepareRevokeSound DEF Later
<1> HIDE DEF r
<1>4. Lbas(r.cur) \cap r.cur.freed = {} /\ r.alloc = s.alloc
  BY <1>2, <1>3 DEF Later, Ahead, Lbas
<1> QED
  BY <1>1, <1>3, <1>4, LoggedClosed

----------------------------------------------------------------------------
(* Between the calls: what the open transaction has done *)

\* A buffer of the open transaction has its callback, or its block is freed.
Marked(s, x) ==
  x.k <= s.cur.data /\ (s.buf[x.lba].end = Key(x) \/ x.lba \in s.cur.freed)

\* A block it freed is free in the bitmap, which it has, and not dirty.
FreedIsFree(s, b) ==
  /\ Bitmap \in Lbas(s.cur) /\ s.buf[Bitmap].upto = TRUE /\ s.buf[Bitmap].val[b] = "free"
  /\ b \in Lbas(s.cur) => ~s.buf[b].dirty

Working(s) ==
  /\ s.cur.id \in {0, s.alloc} /\ s.alloc # 0 /\ (s.cur.id = 0 => s.cur = NoTrans)
  /\ s.cur.data = Len(s.cur.bufs) /\ s.cur.written = 0 /\ s.cur.revokes \subseteq s.cur.freed
  /\ \A x \in Elems(s.cur.bufs) : Marked(s, x)
  /\ \A b \in s.cur.freed : FreedIsFree(s, b)

\* What holds between the calls of the interface, and while one is in a transaction.
Good(s) == Fit(s) /\ Linked(s, {}, 0, 0) /\ Working(s)
Busy(s) == Good(s) /\ s.cur.id = s.alloc

LEMMA BusySound ==
  ASSUME NEW s, Busy(s)
  PROVE  Sound(s)
<1>1. s.alloc \in Nat /\ s.alloc # 0 /\ s.alloc \in 1 .. s.alloc
  BY DEF Busy, Good, Linked, Typed, Working
<1>2. \A b \in Lbas(s.cur) \cap s.cur.freed : ~s.buf[b].dirty
  BY DEF Busy, Good, Working, FreedIsFree
<1> QED
  BY <1>1, <1>2 DEF Busy, Good, Working, Sound, Committing

LEMMA KeptGood ==
  ASSUME NEW s, Good(s), NEW u, Kept(s, u), Fit(u), Linked(u, {}, 0, 0)
  PROVE  Good(u)
<1>1. u.cur = s.cur /\ u.alloc = s.alloc /\ \A c \in Lbas(s.cur) : Like(s.buf[c], u.buf[c])
  BY DEF Kept
<1>2. ASSUME NEW x \in Elems(u.cur.bufs) PROVE Marked(u, x)
  <2>1. Marked(s, x) /\ x.lba \in Lbas(s.cur)
    BY <1>1 DEF Good, Working, Lbas
  <2> QED
    BY <1>1, <2>1 DEF Marked, Like
<1>3. ASSUME NEW b \in u.cur.freed PROVE FreedIsFree(u, b)
  <2>1. FreedIsFree(s, b)
    BY <1>1 DEF Good, Working
  <2> QED
    BY <1>1, <2>1 DEF FreedIsFree, Like
<1> QED
  BY <1>1, <1>2, <1>3 DEF Good, Working

\* A caller has block b, with contents v.
Changed(s, b, v) == [Got(s, b) EXCEPT !.buf[b].val = v]

ChangedTo(s, u, b, v) ==
  /\ Fit(u) /\ Linked(u, {b}, 0, 0) /\ u.cur = s.cur /\ u.alloc = s.alloc
  /\ u.buf[b].cached /\ u.buf[b].val = v /\ u.buf[b].upto = TRUE
  /\ s.buf[b].cached => u.buf[b].end = s.buf[b].end
  /\ \A c \in Blocks \ {b} : u.buf[c] = s.buf[c]

LEMMA ChangedLinked ==
  ASSUME NEW s, Fit(s), Linked(s, {}, 0, 0), NEW b \in Blocks, NEW v
  PROVE  ChangedTo(s, Changed(s, b, v), b, v)
<1> DEFINE y == s.buf[b]
           z == Filled(y, Loaded(s, b))
           x == [z EXCEPT !.val = v]
           u == Changed(s, b, v)
<1>1. DOMAIN s.buf = Blocks /\ IsBuf(y)
  BY DEF Linked, Typed
<1>2. /\ Fit(u) /\ u.cp = s.cp /\ u.cur = s.cur /\ u.rec = s.rec /\ u.alloc = s.alloc
      /\ u.buf = [s.buf EXCEPT ![b] = x]
  <2> DEFINE g == [s EXCEPT !.buf[b] = Filled(@, Loaded(s, b))]
  <2>1. u = [g EXCEPT !.buf[b].val = v]
    BY DEF Changed, Got
  <2> HIDE DEF u
  <2>2. /\ Fit(g) /\ g.cp = s.cp /\ g.cur = s.cur /\ g.rec = s.rec /\ g.alloc = s.alloc
        /\ g.buf = [s.buf EXCEPT ![b] = z]
    BY DEF Fit
  <2> HIDE DEF g, z
  <2>3. g.buf[b] = z /\ DOMAIN g.buf = Blocks
    BY <1>1, <2>2
  <2>4. /\ Fit(u) /\ u.cp = s.cp /\ u.cur = s.cur /\ u.rec = s.rec /\ u.alloc = s.alloc
        /\ u.buf = [g.buf EXCEPT ![b] = x]
    BY <2>1, <2>2, <2>3 DEF Fit
  <2> HIDE DEF x
  <2>5. [[s.buf EXCEPT ![b] = z] EXCEPT ![b] = x] = [s.buf EXCEPT ![b] = x]
    BY <1>1
  <2> QED
    BY <2>2, <2>4, <2>5
<1> HIDE DEF u
<1>3. /\ IsBuf(z) /\ z.cached /\ z.upto = TRUE /\ z.refs = (IF y.cached THEN y.refs + 1 ELSE 1)
      /\ z.end = (IF y.cached THEN y.end ELSE None)
  <2> DEFINE old == Loaded(s, b)
  <2> HIDE DEF old, y
  <2> QED
    BY <1>1, FilledParts
<1> HIDE DEF z
<1>4. IsBuf(x) /\ x.cached /\ x.upto = TRUE /\ x.refs = z.refs /\ x.end = z.end /\ x.val = v
  BY <1>3 DEF IsBuf
<1> HIDE DEF x
<1>5. x.refs = Refs(s, {b}, b)
  <2>1. IF y.cached THEN y.refs = Refs(s, {}, b) ELSE b \notin Lbas(s.cur)
    BY DEF Linked, Held
  <2> QED
    BY <1>3, <1>4, <2>1 DEF Refs
<1>6. Linked(u, {b}, 0, 0)
  <2>1. \A c \in Blocks : c # b => (c \in {} <=> c \in {b})
    OBVIOUS
  <2>2. x.end # None => s.buf[b].cached /\ x.end = s.buf[b].end
    BY <1>3, <1>4
  <2> QED
    BY <1>2, <1>4, <1>5, <2>1, <2>2, BufLinked
<1>7. u.buf[b] = x /\ \A c \in Blocks \ {b} : u.buf[c] = s.buf[c]
  BY <1>1, <1>2
<1> QED
  BY <1>2, <1>3, <1>4, <1>6, <1>7 DEF u, ChangedTo

\* The block joins the open transaction as j.
Joined(s, b, j) ==
  Dirtied([s EXCEPT !.rec[b] = [t |-> s.cur.id, queue |-> Append(@.queue, j)],
                    !.buf[b].refs = @ + 1,
                    !.cur.bufs = <<j>> \o @, !.cur.data = @ + 1,
                    !.cur.revokes = @ \ {b}], b, Key(j))

\* A transaction with one more buffer at the head of its list.
LEMMA LongerParts ==
  ASSUME NEW q \in Seq(Bufs), NEW j \in Bufs
  PROVE  /\ <<j>> \o q \in Seq(Bufs) /\ Len(<<j>> \o q) = Len(q) + 1
         /\ Elems(<<j>> \o q) = Elems(q) \cup {j}
         /\ Distinct(q) /\ (\A x \in Elems(q) : Key(x) # Key(j)) => Distinct(<<j>> \o q)
         /\ Apart(q) /\ (\A x \in Elems(q) : x.lba # j.lba) => Apart(<<j>> \o q)
<1> DEFINE p == <<j>> \o q
           n == Len(q)
<1>1. n \in Nat /\ DOMAIN q = 1 .. n
  OBVIOUS
<1>2. /\ p \in Seq(Bufs) /\ Len(p) = n + 1 /\ DOMAIN p = 1 .. n + 1
      /\ p[1] = j /\ \A i \in 2 .. n + 1 : p[i] = q[i - 1]
  OBVIOUS
<1>3. /\ \A i \in 1 .. n + 1 : i = 1 \/ i \in 2 .. n + 1
      /\ \A i \in 2 .. n + 1 : i - 1 \in 1 .. n /\ i # 1 /\ i \in 1 .. n + 1
      /\ \A i \in 1 .. n : i + 1 \in 2 .. n + 1 /\ i + 1 \in 1 .. n + 1 /\ i + 1 - 1 = i
      /\ \A i, k \in 2 .. n + 1 : i - 1 = k - 1 => i = k
      /\ 1 \in 1 .. n + 1
  BY <1>1
<1> HIDE DEF p, n
<1>4. Elems(p) = Elems(q) \cup {j}
  <2>1. ASSUME NEW i \in 1 .. n + 1 PROVE p[i] \in Elems(q) \cup {j}
    <3>1. CASE i = 1
      BY <1>2, <3>1
    <3>2. CASE i \in 2 .. n + 1
      <4>1. i - 1 \in DOMAIN q /\ p[i] = q[i - 1]
        BY <1>1, <1>2, <1>3, <3>2
      <4> QED
        BY <4>1 DEF Elems
    <3> QED
      BY <1>3, <3>1, <3>2
  <2>2. \A i \in 1 .. n : q[i] = p[i + 1] /\ i + 1 \in DOMAIN p
    BY <1>2, <1>3
  <2>3. Elems(p) \subseteq Elems(q) \cup {j}
    BY <1>2, <2>1 DEF Elems
  <2>4. j \in Elems(p)
    BY <1>2, <1>3 DEF Elems
  <2>5. ASSUME NEW x \in Elems(q) PROVE x \in Elems(p)
    <3>1. PICK i \in 1 .. n : x = q[i]
      BY <1>1 DEF Elems
    <3>2. x = p[i + 1] /\ i + 1 \in DOMAIN p
      BY <2>2, <3>1
    <3> QED
      BY <3>2 DEF Elems
  <2> QED
    BY <2>3, <2>4, <2>5
<1>5. ASSUME Distinct(q), \A x \in Elems(q) : Key(x) # Key(j) PROVE Distinct(p)
  <2>1. \A i \in 2 .. n + 1 : Key(p[i]) # Key(p[1])
    BY <1>1, <1>2, <1>3, <1>5 DEF Elems
  <2>2. ASSUME NEW i \in 2 .. n + 1, NEW k \in 2 .. n + 1, Key(p[i]) = Key(p[k]) PROVE i = k
    <3>1. i - 1 \in DOMAIN q /\ k - 1 \in DOMAIN q /\ Key(q[i - 1]) = Key(q[k - 1])
      BY <1>1, <1>2, <1>3, <2>2
    <3>2. i - 1 = k - 1
      BY <1>5, <3>1 DEF Distinct
    <3> QED
      BY <3>2
  <2> QED
    BY <1>2, <1>3, <2>1, <2>2 DEF Distinct
<1>6. ASSUME Apart(q), \A x \in Elems(q) : x.lba # j.lba PROVE Apart(p)
  <2>1. \A i \in 2 .. n + 1 : p[i].lba # p[1].lba
    BY <1>1, <1>2, <1>3, <1>6 DEF Elems
  <2>2. ASSUME NEW i \in 2 .. n + 1, NEW k \in 2 .. n + 1, p[i].lba = p[k].lba PROVE i = k
    <3>1. i - 1 \in DOMAIN q /\ k - 1 \in DOMAIN q /\ q[i - 1].lba = q[k - 1].lba
      BY <1>1, <1>2, <1>3, <2>2
    <3>2. i - 1 = k - 1
      BY <1>6, <3>1 DEF Apart
    <3> QED
      BY <3>2
  <2> QED
    BY <1>2, <1>3, <2>1, <2>2 DEF Apart
<1> QED
  BY <1>2, <1>4, <1>5, <1>6 DEF p, n

LEMMA AppendParts ==
  ASSUME NEW q \in Seq(Bufs), NEW j \in Bufs, Distinct(q), \A x \in Elems(q) : Key(x) # Key(j)
  PROVE  /\ Append(q, j) \in Seq(Bufs) /\ Append(q, j) # <<>> /\ Last(Append(q, j)) = j
         /\ Elems(Append(q, j)) = Elems(q) \cup {j} /\ Distinct(Append(q, j))
<1> DEFINE p == Append(q, j)
           n == Len(q)
<1>1. n \in Nat /\ DOMAIN q = 1 .. n
  OBVIOUS
<1>2. /\ p \in Seq(Bufs) /\ Len(p) = n + 1 /\ DOMAIN p = 1 .. n + 1
      /\ p[n + 1] = j /\ \A i \in 1 .. n : p[i] = q[i]
  OBVIOUS
<1>3. /\ \A i \in 1 .. n + 1 : i = n + 1 \/ i \in 1 .. n
      /\ 1 .. n \subseteq 1 .. n + 1 /\ n + 1 \in 1 .. n + 1
  BY <1>1
<1> HIDE DEF p, n
<1>4. Elems(p) = Elems(q) \cup {j}
  BY <1>1, <1>2, <1>3 DEF Elems
<1>5. Distinct(p)
  <2>1. \A i \in 1 .. n : Key(p[i]) # Key(p[n + 1])
    BY <1>1, <1>2 DEF Elems
  <2>2. \A i, k \in 1 .. n : Key(p[i]) = Key(p[k]) => i = k
    BY <1>1, <1>2 DEF Distinct
  <2> QED
    BY <1>2, <1>3, <2>1, <2>2 DEF Distinct
<1> QED
  BY <1>2, <1>3, <1>4, <1>5 DEF p, Last

\* What a block's joining changes.
JoinedAs(s, u, b, j) ==
  /\ Elems(u.cur.bufs) = Elems(s.cur.bufs) \cup {j} /\ Len(u.cur.bufs) = Len(s.cur.bufs) + 1
  /\ u.cur.id = s.cur.id /\ u.cur.data = s.cur.data + 1 /\ u.cur.written = s.cur.written
  /\ u.cur.revokes = s.cur.revokes \ {b} /\ u.cur.freed = s.cur.freed /\ u.alloc = s.alloc
  /\ u.buf[b].end = Key(j) /\ u.buf[b].upto = TRUE /\ u.buf[b].val = s.buf[b].val
  /\ \A c \in Blocks \ {b} : u.buf[c] = s.buf[c]

LEMMA JoinedLinked ==
  ASSUME NEW s, NEW b \in Blocks, Fit(s), Linked(s, {b}, 0, 0), s.buf[b].cached,
         s.cur.data = Len(s.cur.bufs), \A x \in Elems(s.cur.bufs) : x.k <= s.cur.data,
         b \notin Lbas(s.cur), NEW j, j = JbdBuf(s.cur.id, s.cur.data + 1, b)
  PROVE  /\ Fit(Joined(s, b, j)) /\ Linked(Joined(s, b, j), {b}, 0, 0)
         /\ JoinedAs(s, Joined(s, b, j), b, j)
<1> DEFINE bufs == <<j>> \o s.cur.bufs
           queue == Append(s.rec[b].queue, j)
           y == s.buf[b]
           x == [y EXCEPT !.refs = @ + 1]
           t == [[[s.cur EXCEPT !.bufs = bufs] EXCEPT !.data = @ + 1] EXCEPT !.revokes = @ \ {b}]
           r == [t |-> s.cur.id, queue |-> queue]
           a == [s EXCEPT !.rec[b] = [t |-> s.cur.id, queue |-> Append(@.queue, j)],
                    !.buf[b].refs = @ + 1,
                    !.cur.bufs = <<j>> \o @, !.cur.data = @ + 1,
                    !.cur.revokes = @ \ {b}]
           u == Joined(s, b, j)
<1>1. /\ s.cur \in Trans /\ s.cur.bufs \in Seq(Bufs) /\ s.rec \in [Blocks -> Recs]
      /\ s.rec[b].queue \in Seq(Bufs) /\ DOMAIN s.buf = Blocks /\ IsBuf(y)
      /\ s.cur.id \in Nat /\ s.cur.data \in Nat
  <2>1. s.cur \in Trans /\ s.rec \in [Blocks -> Recs] /\ DOMAIN s.buf = Blocks /\ IsBuf(y)
    BY DEF Linked, Typed
  <2>2. s.cur.bufs \in Seq(Bufs) /\ s.rec[b].queue \in Seq(Bufs) /\ s.cur.id \in Nat
    BY <2>1 DEF Trans, Recs
  <2> QED
    BY <2>1, <2>2
<1>2. /\ j \in Bufs /\ j.t = s.cur.id /\ j.lba = b /\ Key(j) \in Keys /\ Key(j).t = s.cur.id
      /\ Key(j).k = s.cur.data + 1
  BY <1>1 DEF JbdBuf, Bufs, Key, Keys
<1>3. \A z \in Elems(s.cur.bufs) : Key(z) # Key(j) /\ z.lba # b
  <2> SUFFICES ASSUME NEW z \in Elems(s.cur.bufs) PROVE Key(z) # Key(j) /\ z.lba # b
    OBVIOUS
  <2>1. z \in Bufs
    BY <1>1 DEF Elems
  <2>2. z.k \in Nat /\ z.k <= s.cur.data /\ Key(z).k = z.k
    BY <2>1 DEF Bufs, Key
  <2>3. Key(z).k # Key(j).k
    BY <1>1, <1>2, <2>2
  <2> QED
    BY <2>3 DEF Lbas
<1>4. \A z \in Elems(s.rec[b].queue) : Key(z) # Key(j)
  <2> SUFFICES ASSUME NEW z \in Elems(s.rec[b].queue), Key(z) = Key(j) PROVE FALSE
    OBVIOUS
  <2>1. z \in Waiting(s) /\ z.lba = b
    BY InRecord
  <2>2. z.t = s.cur.id
    BY <1>2 DEF Key
  <2> QED
    BY <2>1, <2>2, OwnerOf
<1>5. Distinct(s.cur.bufs) /\ Apart(s.cur.bufs) /\ Distinct(s.rec[b].queue)
  BY DEF Linked, Owned, Mine, Listed
<1>6. /\ bufs \in Seq(Bufs) /\ Len(bufs) = Len(s.cur.bufs) + 1
      /\ Elems(bufs) = Elems(s.cur.bufs) \cup {j} /\ Distinct(bufs) /\ Apart(bufs)
  BY <1>1, <1>2, <1>3, <1>5, LongerParts
<1>7. /\ queue \in Seq(Bufs) /\ queue # <<>> /\ Last(queue) = j
      /\ Elems(queue) = Elems(s.rec[b].queue) \cup {j} /\ Distinct(queue)
  BY <1>1, <1>2, <1>4, <1>5, AppendParts
<1>8. /\ Fit(a) /\ a.cp = s.cp /\ a.cur = t /\ a.rec = [s.rec EXCEPT ![b] = r]
      /\ a.buf = [s.buf EXCEPT ![b] = x] /\ a.alloc = s.alloc
  BY ZenonT(30) DEF Fit
<1>9. u = Dirtied(a, b, Key(j))
  BY DEF Joined
<1> HIDE DEF bufs, queue, a
<1>10. t \in Trans /\ /\ t.id = s.cur.id /\ t.data = s.cur.data + 1 /\ t.written = s.cur.written
                      /\ t.bufs = bufs /\ t.revokes = s.cur.revokes \ {b}
                      /\ t.freed = s.cur.freed
  <2> DEFINE w == s.cur
  <2>1. w \in Trans
    BY <1>1
  <2> HIDE DEF w
  <2> DEFINE w1 == [w EXCEPT !.bufs = bufs]
             w2 == [w1 EXCEPT !.data = @ + 1]
             w3 == [w2 EXCEPT !.revokes = @ \ {b}]
  <2>2. w1 \in Trans /\ /\ w1.id = w.id /\ w1.data = w.data /\ w1.written = w.written
                        /\ w1.bufs = bufs /\ w1.revokes = w.revokes /\ w1.freed = w.freed
    BY <1>6, <2>1 DEF Trans
  <2>0. t = w3
    BY DEF w
  <2> HIDE DEF w1, t
  <2>3. w2 \in Trans /\ /\ w2.id = w.id /\ w2.data = w.data + 1 /\ w2.written = w.written
                        /\ w2.bufs = bufs /\ w2.revokes = w.revokes /\ w2.freed = w.freed
    BY <2>2, SMTT(30) DEF Trans
  <2> HIDE DEF w2
  <2>4. w3 \in Trans /\ /\ w3.id = w.id /\ w3.data = w.data + 1 /\ w3.written = w.written
                        /\ w3.bufs = bufs /\ w3.revokes = w.revokes \ {b} /\ w3.freed = w.freed
    BY <2>3 DEF Trans
  <2> HIDE DEF w3
  <2> QED
    BY <2>0, <2>4 DEF w
<1>11. r \in Recs /\ r.queue = queue /\ r.t = s.cur.id
  BY <1>1, <1>7 DEF Recs
<1> HIDE DEF r, t, y
<1>12. y.cached /\ y.refs = 1
  <2>1. Refs(s, {b}, b) = 1
    BY DEF Refs
  <2> QED
    BY <2>1 DEF Linked, Held, y
<1>13. IsBuf(x) /\ x.cached /\ x.refs = 2 /\ x.val = y.val
  <2> DEFINE n == y.refs + 1
  <2>1. n = 2 /\ n \in Nat
    BY <1>12
  <2> HIDE DEF n
  <2>2. LET z == [y EXCEPT !.refs = n] IN IsBuf(z) /\ z.cached /\ z.refs = n /\ z.val = y.val
    BY <1>1, <1>12, <2>1 DEF IsBuf
  <2> QED
    BY <2>1, <2>2 DEF n
<1> HIDE DEF x
<1>14. a.buf[b] = x /\ DOMAIN a.buf = Blocks /\ \A c \in Blocks \ {b} : a.buf[c] = s.buf[c]
  BY <1>1, <1>8
<1>15. /\ Rebuffered(a, u, b) /\ u.rec = a.rec /\ u.buf[b].refs = a.buf[b].refs
       /\ u.buf[b].end = Key(j) /\ u.buf[b].upto = TRUE /\ u.buf[b].val = a.buf[b].val
  <2> DEFINE end == Key(j)
  <2>1. IsBuf(a.buf[b]) /\ a.buf[b].cached /\ Fit(a) /\ DOMAIN a.buf = Blocks /\ end \in Keys
    BY <1>2, <1>8, <1>13, <1>14
  <2>2. u = Dirtied(a, b, end)
    BY <1>9
  <2> HIDE DEF end, u
  <2>3. DirtiedAs(a, u, b, end)
    BY <2>1, <2>2, DirtiedParts
  <2> QED
    BY <2>3 DEF end, DirtiedAs
<1> HIDE DEF u
<1>16. /\ Fit(u) /\ u.cp = s.cp /\ u.cur = t /\ u.alloc = s.alloc /\ DOMAIN u.buf = Blocks
       /\ u.rec = [s.rec EXCEPT ![b] = r] /\ IsBuf(u.buf[b]) /\ u.buf[b].cached
       /\ u.buf[b].refs = 2 /\ u.buf[b].val = s.buf[b].val
       /\ \A c \in Blocks \ {b} : u.buf[c] = s.buf[c]
  BY <1>8, <1>13, <1>14, <1>15 DEF Rebuffered, y
<1>17. /\ u.rec \in [Blocks -> Recs] /\ u.rec[b] = r
       /\ \A c \in Blocks \ {b} : u.rec[c] = s.rec[c]
  BY <1>1, <1>11, <1>16
<1>18. JoinedAs(s, u, b, j)
  BY <1>6, <1>10, <1>15, <1>16 DEF JoinedAs
<1>19. Typed(u) /\ Ids(u) /\ Counts(u, 0)
  <2>1. Typed(u)
    BY <1>10, <1>16, <1>17 DEF Linked, Typed
  <2> QED
    BY <1>10, <1>16, <2>1 DEF Linked, Ids, Counts
<1>20. Owned(u)
  BY <1>2, <1>6, <1>10, <1>16 DEF Linked, Owned, Mine
<1>21. Waiting(u) = Waiting(s) \cup {j}
  BY <1>2, <1>6, <1>10, <1>16 DEF Waiting
<1>22. Listed(u)
  <2> SUFFICES ASSUME NEW c \in Blocks
               PROVE  /\ Elems(u.rec[c].queue) = {z \in Waiting(u) : z.lba = c}
                      /\ Distinct(u.rec[c].queue)
    BY DEF Listed
  <2>1. Elems(s.rec[c].queue) = {z \in Waiting(s) : z.lba = c} /\ Distinct(s.rec[c].queue)
    BY DEF Linked, Listed
  <2>2. CASE c = b
    BY <1>2, <1>7, <1>11, <1>17, <1>21, <2>1, <2>2
  <2>3. CASE c # b
    BY <1>2, <1>17, <1>21, <2>1, <2>3
  <2> QED
    BY <2>2, <2>3
<1>23. Latest(u, 0, 0)
  <2>1. \A c \in Blocks \ {b} : Settles(u, c)
    BY <1>16, <1>17 DEF Linked, Latest, Settles, LatestOwns, EndIsKnown
  <2>2. LatestOwns(u, b)
    BY <1>2, <1>7, <1>11, <1>17 DEF LatestOwns
  <2>3. EndIsKnown(u, b)
    BY <1>2, <1>7, <1>11, <1>15, <1>17 DEF EndIsKnown
  <2> QED
    BY <2>1, <2>2, <2>3 DEF Latest, Settles
<1>24. Lbas(u.cur) = Lbas(s.cur) \cup {b}
  BY <1>2, <1>6, <1>10, <1>16 DEF Lbas
<1>25. Held(u, {b})
  <2> SUFFICES ASSUME NEW c \in Blocks
               PROVE  /\ c \in Lbas(u.cur) => u.rec[c].t = u.cur.id
                      /\ IF u.buf[c].cached THEN u.buf[c].refs = Refs(u, {b}, c)
                         ELSE c \notin Lbas(u.cur) \cup {b}
    BY DEF Held
  <2>1. CASE c = b
    <3>1. Refs(u, {b}, b) = 2
      BY <1>24 DEF Refs
    <3> QED
      BY <1>10, <1>11, <1>16, <1>17, <2>1, <3>1
  <2>2. CASE c # b
    <3>1. Refs(u, {b}, c) = Refs(s, {b}, c)
      BY <1>24, <2>2 DEF Refs
    <3> QED
      BY <1>10, <1>16, <1>17, <1>24, <2>2, <3>1 DEF Linked, Held
  <2> QED
    BY <2>1, <2>2
<1> QED
  BY <1>16, <1>18, <1>19, <1>20, <1>22, <1>23, <1>25 DEF Linked, u

\* What a caller's change of block b leaves of the open transaction, b in it.
Entered(s, u, b) ==
  /\ Fit(u) /\ Linked(u, {b}, 0, 0) /\ Working(u)
  /\ u.cur.id = s.cur.id /\ u.alloc = s.alloc /\ u.cur.freed = s.cur.freed
  /\ b \in Lbas(u.cur) /\ u.buf[b].val = s.buf[b].val /\ u.buf[b].upto = TRUE

\* A caller holds block b of a state at work, and b is not freed.
Writing(s, b) ==
  /\ Fit(s) /\ Linked(s, {b}, 0, 0) /\ Working(s) /\ s.cur.id = s.alloc
  /\ s.buf[b].cached /\ s.buf[b].upto = TRUE /\ b \notin s.cur.freed

LEMMA ChangedWriting ==
  ASSUME NEW s, Busy(s), NEW b \in Blocks, b \notin s.cur.freed, NEW v,
         b = Bitmap => \A f \in s.cur.freed : v[f] = "free", NEW w, w = Changed(s, b, v)
  PROVE  /\ Writing(w, b) /\ w.cur = s.cur /\ w.alloc = s.alloc /\ w.buf[b].val = v
<1>1. /\ Fit(w) /\ Linked(w, {b}, 0, 0) /\ w.cur = s.cur /\ w.alloc = s.alloc
      /\ w.buf[b].cached /\ w.buf[b].val = v
      /\ w.buf[b].upto = TRUE /\ (s.buf[b].cached => w.buf[b].end = s.buf[b].end)
      /\ \A c \in Blocks \ {b} : w.buf[c] = s.buf[c]
  <2>1. Fit(s) /\ Linked(s, {}, 0, 0)
    BY DEF Busy, Good
  <2> QED
    <3>1. ChangedTo(s, w, b, v)
      BY <2>1, ChangedLinked
    <3> QED
      BY <3>1 DEF ChangedTo
<1>2. Lbas(s.cur) \subseteq Blocks /\ s.cur.freed \subseteq Pool /\ Bitmap \in Blocks
  <2>1. s.cur \in Trans
    BY DEF Busy, Good, Linked, Typed
  <2> QED
    BY <2>1, LbasAreBlocks DEF Trans, Blocks
<1>3. ASSUME NEW x \in Elems(w.cur.bufs) PROVE Marked(w, x)
  <2>1. Marked(s, x) /\ x.lba \in Lbas(s.cur)
    BY <1>1 DEF Busy, Good, Working, Lbas
  <2>2. s.buf[x.lba].cached
    BY <1>2, <2>1 DEF Busy, Good, Linked, Held
  <2>3. w.buf[x.lba].end = s.buf[x.lba].end
    BY <1>1, <1>2, <2>1, <2>2
  <2> QED
    BY <1>1, <2>1, <2>3 DEF Marked
<1>4. ASSUME NEW f \in w.cur.freed PROVE FreedIsFree(w, f)
  <2>1. FreedIsFree(s, f) /\ f # b
    BY <1>1 DEF Busy, Good, Working
  <2>2. w.buf[Bitmap].upto = TRUE /\ w.buf[Bitmap].val[f] = "free"
    <3>1. CASE b = Bitmap
      BY <1>1, <3>1
    <3>2. CASE b # Bitmap
      BY <1>1, <1>2, <2>1, <3>2 DEF FreedIsFree
    <3> QED
      BY <3>1, <3>2
  <2>3. f \in Lbas(w.cur) => ~w.buf[f].dirty
    BY <1>1, <1>2, <2>1 DEF FreedIsFree
  <2> QED
    BY <1>1, <2>1, <2>2, <2>3 DEF FreedIsFree
<1>5. Working(w)
  BY <1>1, <1>3, <1>4 DEF Busy, Good, Working
<1> QED
  BY <1>1, <1>5 DEF Writing, Busy

\* Whether the callback of its buffer says that a block is in the transaction.
LEMMA InTransaction ==
  ASSUME NEW s, NEW b \in Blocks, Writing(s, b)
  PROVE  s.buf[b].end.t = s.cur.id <=> b \in Lbas(s.cur)
<1>1. s.cur.id # 0
  BY DEF Writing, Working
<1>2. ASSUME b \in Lbas(s.cur) PROVE s.buf[b].end.t = s.cur.id
  <2>1. PICK x \in Elems(s.cur.bufs) : x.lba = b
    BY <1>2 DEF Lbas
  <2>2. Marked(s, x) /\ x.t = s.cur.id
    BY DEF Writing, Working, Linked, Owned, Mine
  <2>3. s.buf[b].end = Key(x)
    BY <2>1, <2>2 DEF Marked, Writing
  <2> QED
    BY <2>2, <2>3 DEF Key
<1>3. ASSUME s.buf[b].end.t = s.cur.id PROVE b \in Lbas(s.cur)
  <2>1. s.buf[b].end # None
    BY <1>1, <1>3 DEF None
  <2>2. EndIsKnown(s, b)
    BY DEF Writing, Linked, Latest, Settles
  <2>3. PICK x \in Elems(s.rec[b].queue) : Key(x) = s.buf[b].end
    BY <2>1, <2>2 DEF EndIsKnown, Writing
  <2>4. Linked(s, {b}, 0, 0)
    BY DEF Writing
  <2>5. x \in Waiting(s) /\ x.lba = b
    BY <2>4, InRecord
  <2>6. x.t = s.cur.id
    BY <1>3, <2>3 DEF Key
  <2> QED
    BY <2>4, <2>5, <2>6, OwnerOf
<1> QED
  BY <1>2, <1>3

LEMMA SetDirtyEntered ==
  ASSUME NEW s, NEW b \in Blocks, Writing(s, b), NEW d, d = SetDirty(s, b)
  PROVE  Entered(s, d, b)
<1>1. CASE b \in Lbas(s.cur)
  <2>1. d = s
    BY <1>1, InTransaction DEF SetDirty
  <2> QED
    BY <1>1, <2>1 DEF Entered, Writing
<1>2. CASE b \notin Lbas(s.cur)
  <2> DEFINE j == JbdBuf(s.cur.id, s.cur.data + 1, b)
  <2>1. d = Joined(s, b, j)
    BY <1>2, InTransaction DEF SetDirty, Joined
  <2>2. /\ Fit(s) /\ Linked(s, {b}, 0, 0) /\ s.buf[b].cached /\ s.cur.data = Len(s.cur.bufs)
        /\ \A x \in Elems(s.cur.bufs) : x.k <= s.cur.data
    BY DEF Writing, Working, Marked
  <2>3. j.k = s.cur.data + 1 /\ j.lba = b
    BY DEF JbdBuf
  <2> DEFINE n == s.cur.data
  <2>4. n \in Nat /\ Lbas(s.cur) \subseteq Blocks /\ Elems(s.cur.bufs) \subseteq Bufs
    <3>1. s.cur \in Trans
      BY <2>2 DEF Linked, Typed
    <3>2. s.cur.bufs \in Seq(Bufs)
      BY <3>1 DEF Trans
    <3> QED
      BY <2>2, <3>1, <3>2, LbasAreBlocks
  <2> HIDE DEF j
  <2>5. Fit(d) /\ Linked(d, {b}, 0, 0) /\ JoinedAs(s, d, b, j)
    BY <1>2, <2>1, <2>2, JoinedLinked DEF j
  <2>6. Lbas(d.cur) = Lbas(s.cur) \cup {b}
    BY <2>3, <2>5 DEF Lbas, JoinedAs
  <2>7. ASSUME NEW x \in Elems(d.cur.bufs) PROVE Marked(d, x)
    <3>1. CASE x = j
      BY <2>3, <2>4, <2>5, <3>1 DEF Marked, JoinedAs
    <3>2. CASE x \in Elems(s.cur.bufs)
      <4>1. Marked(s, x) /\ x.lba \in Lbas(s.cur) /\ x.k \in Nat
        BY <2>4, <3>2 DEF Writing, Working, Lbas, Bufs
      <4>2. x.k <= n
        BY <4>1 DEF Marked
      <4>3. x.k <= n + 1
        BY <2>4, <4>1, <4>2
      <4>4. d.buf[x.lba] = s.buf[x.lba]
        BY <1>2, <2>4, <2>5, <4>1 DEF JoinedAs
      <4> QED
        BY <2>5, <4>1, <4>3, <4>4 DEF Marked, JoinedAs
    <3> QED
      BY <2>5, <3>1, <3>2 DEF JoinedAs
  <2>8. ASSUME NEW f \in d.cur.freed PROVE FreedIsFree(d, f)
    <3>1. FreedIsFree(s, f) /\ f # b
      BY <2>5 DEF Writing, Working, JoinedAs
    <3>2. Bitmap \in Blocks
      BY DEF Blocks
    <3>3. d.buf[Bitmap].upto = TRUE /\ d.buf[Bitmap].val = s.buf[Bitmap].val
      BY <2>5, <3>1, <3>2 DEF JoinedAs, FreedIsFree
    <3>4. f \in Lbas(d.cur) => ~d.buf[f].dirty
      BY <2>4, <2>5, <2>6, <3>1 DEF FreedIsFree, JoinedAs
    <3> QED
      BY <2>6, <3>1, <3>3, <3>4 DEF FreedIsFree
  <2>9. d.cur.data = Len(d.cur.bufs) /\ d.cur.written = 0 /\ d.cur.revokes \subseteq d.cur.freed
    BY <2>2, <2>5 DEF JoinedAs, Writing, Working
  <2>10. Working(d)
    BY <2>5, <2>7, <2>8, <2>9 DEF JoinedAs, Writing, Working
  <2> QED
    BY <2>5, <2>6, <2>10 DEF Entered, JoinedAs
<1> QED
  BY <1>1, <1>2

\* The open transaction after a change of block b to contents v.
Wrought(s, u, b, v) ==
  /\ Busy(u) /\ u.cur.id = s.cur.id /\ u.alloc = s.alloc /\ u.cur.freed = s.cur.freed
  /\ b \in Lbas(u.cur) /\ u.buf[b].val = v /\ u.buf[b].upto = TRUE

LEMMA ChangeWrought ==
  ASSUME NEW s, Busy(s), NEW b \in Blocks, b \notin s.cur.freed, NEW v,
         b = Bitmap => \A f \in s.cur.freed : v[f] = "free"
  PROVE  Wrought(s, Change(s, b, v), b, v)
<1> DEFINE w == Changed(s, b, v)
           d == SetDirty(w, b)
           u == Put(d, b)
<1>0. Change(s, b, v) = u
  BY DEF Change, Changed
<1>1. Writing(w, b) /\ w.cur = s.cur /\ w.alloc = s.alloc /\ w.buf[b].val = v
  BY ChangedWriting
<1> HIDE DEF w
<1>2. Entered(w, d, b)
  BY <1>1, SetDirtyEntered
<1> HIDE DEF d
<1>3. Fit(u) /\ Linked(u, {}, 0, 0) /\ Released(d, u, b)
  <2>1. Fit(d) /\ Linked(d, {b}, 0, 0) /\ b \in {b} /\ {b} \ {b} = {}
    BY <1>2 DEF Entered
  <2> QED
    BY <2>1, PutLinked
<1> HIDE DEF u
<1>4. Like(d.buf[b], u.buf[b])
  <2> DEFINE y == d.buf[b]
  <2>1. u.buf[b] = [y EXCEPT !.refs = @ - 1]
    BY <1>2, <1>3 DEF Released, Entered
  <2>2. IsBuf(y) /\ y.cached
    BY <1>2 DEF Entered, Linked, Typed, Held
  <2> HIDE DEF y
  <2>3. Like(y, [y EXCEPT !.refs = @ - 1])
    BY <2>2 DEF IsBuf, Like
  <2> QED
    BY <2>1, <2>3 DEF y
<1>5. \A c \in Blocks : Like(d.buf[c], u.buf[c])
  BY <1>3, <1>4 DEF Released, Like
<1>6. u.cur = d.cur /\ u.alloc = d.alloc /\ Lbas(d.cur) \subseteq Blocks /\ Bitmap \in Blocks
  <2>1. d.cur \in Trans
    BY <1>2 DEF Entered, Linked, Typed
  <2> QED
    BY <1>3, <2>1, LbasAreBlocks DEF Released, Blocks
<1>7. ASSUME NEW x \in Elems(u.cur.bufs) PROVE Marked(u, x)
  <2>1. Marked(d, x) /\ x.lba \in Lbas(d.cur)
    BY <1>2, <1>6 DEF Entered, Working, Lbas
  <2> QED
    BY <1>5, <1>6, <2>1 DEF Marked, Like
<1>8. ASSUME NEW f \in u.cur.freed PROVE FreedIsFree(u, f)
  <2>1. FreedIsFree(d, f)
    BY <1>2, <1>6 DEF Entered, Working
  <2> QED
    BY <1>5, <1>6, <2>1 DEF FreedIsFree, Like
<1>9. Working(u)
  BY <1>2, <1>6, <1>7, <1>8 DEF Entered, Working
<1>10. Busy(u) /\ u.cur.id = s.cur.id /\ u.alloc = s.alloc /\ u.cur.freed = s.cur.freed
  BY <1>1, <1>2, <1>3, <1>6, <1>9 DEF Busy, Good, Entered, Writing
<1> QED
  BY <1>0, <1>1, <1>2, <1>4, <1>6, <1>10 DEF Wrought, Entered, Like

----------------------------------------------------------------------------
(* The calls of the interface *)

\* What a block is used for as the open transaction sees it: what it freed is free.
LEMMA FreedIsSeen ==
  ASSUME NEW s, Good(s), NEW f \in s.cur.freed
  PROVE  Loaded(s, Bitmap)[f] = "free"
<1>1. FreedIsFree(s, f)
  BY DEF Good, Working
<1>2. Bitmap \in Blocks
  BY DEF Blocks
<1>3. s.buf[Bitmap].cached
  BY <1>1, <1>2 DEF Good, Linked, Held, FreedIsFree
<1> QED
  BY <1>1, <1>3 DEF FreedIsFree, Loaded

\* The bitmap when block b gets another use.
NewUses(s, b, use) == [p \in Pool |-> IF p = b THEN use ELSE Loaded(s, Bitmap)[p]]

LEMMA SetUseWrought ==
  ASSUME NEW s, Busy(s), NEW b \in Pool, NEW use, use = "free" \/ b \notin s.cur.freed
  PROVE  Wrought(s, SetUse(s, b, use), Bitmap, NewUses(s, b, use))
<1> DEFINE v == NewUses(s, b, use)
<1>1. SetUse(s, b, use) = Change(s, Bitmap, v)
  BY DEF SetUse, NewUses
<1>2. s.cur.freed \subseteq Pool
  <2>1. s.cur \in Trans
    BY DEF Busy, Good, Linked, Typed
  <2> QED
    BY <2>1 DEF Trans
<1>3. Bitmap \in Blocks /\ Bitmap \notin s.cur.freed
  BY <1>2, JournalAssumption DEF Blocks
<1>4. ASSUME NEW f \in s.cur.freed PROVE v[f] = "free"
  <2>1. Loaded(s, Bitmap)[f] = "free"
    BY FreedIsSeen DEF Busy
  <2> QED
    BY <1>2, <2>1 DEF NewUses
<1> HIDE DEF v
<1>5. Wrought(s, Change(s, Bitmap, v), Bitmap, v)
  BY <1>3, <1>4, ChangeWrought
<1> QED
  BY <1>1, <1>5 DEF v

\* A block the transaction does not use again gets new contents.
LEMMA ChangeGood ==
  ASSUME NEW s, Busy(s), NEW b \in Pool, b \notin s.cur.freed, NEW v
  PROVE  Good(Change(s, b, v))
<1>1. b \in Blocks /\ b # Bitmap
  BY JournalAssumption DEF Blocks
<1>2. Wrought(s, Change(s, b, v), b, v)
  BY <1>1, ChangeWrought
<1> QED
  BY <1>2 DEF Wrought, Busy

LEMMA AllocMetaGood ==
  ASSUME NEW s, Busy(s), NEW b \in Pool, b \notin s.cur.freed, NEW v
  PROVE  Good(Change(SetUse(s, b, "meta"), b, v))
<1> DEFINE u == SetUse(s, b, "meta")
<1>1. Wrought(s, u, Bitmap, NewUses(s, b, "meta"))
  BY SetUseWrought
<1> HIDE DEF u
<1>2. Busy(u) /\ b \notin u.cur.freed
  BY <1>1 DEF Wrought
<1>3. Good(Change(u, b, v))
  BY <1>2, ChangeGood
<1> QED
  BY <1>3 DEF u

LEMMA AllocDataGood ==
  ASSUME NEW s, Busy(s), NEW b \in Pool, b \notin s.cur.freed, NEW v
  PROVE  Good(Issue(SetUse(s, b, "data"), Write("disk", b, v)))
<1> DEFINE u == SetUse(s, b, "data")
           w == Issue(u, Write("disk", b, v))
<1>1. Wrought(s, u, Bitmap, NewUses(s, b, "data"))
  BY SetUseWrought
<1>2. Fit(u) /\ Good(u) /\ Linked(u, {}, 0, 0)
  BY <1>1 DEF Wrought, Busy, Good
<1> HIDE DEF u
<1>3. Fit(w) /\ Same(u, w)
  BY <1>2, IssueSame
<1> HIDE DEF w
<1>4. Good(w)
  BY <1>2, <1>3, SameLinked, SameKept, KeptGood
<1> QED
  BY <1>4 DEF w, u

\* A block is freed.
Freed(s, b) == Invalidate(TryRevoke(SetUse(s, b, "free"), b), b)

LEMMA TryRevokeParts ==
  ASSUME NEW s, Fit(s), Linked(s, {}, 0, 0), NEW b \in Pool, NEW u, u = TryRevoke(s, b)
  PROVE  /\ Fit(u) /\ Linked(u, {}, 0, 0) /\ u.buf = s.buf /\ u.alloc = s.alloc
         /\ u.cur.id = s.cur.id /\ u.cur.data = s.cur.data /\ u.cur.written = s.cur.written
         /\ u.cur.bufs = s.cur.bufs /\ u.cur.freed = s.cur.freed
         /\ u.cur.revokes \subseteq s.cur.revokes \cup {b}
<1>1. CASE u = s
  BY <1>1
<1>2. CASE u = [s EXCEPT !.cur.revokes = @ \cup {b}]
  <2> DEFINE t == s.cur
             w == [t EXCEPT !.revokes = @ \cup {b}]
  <2>1. t \in Trans
    BY DEF Linked, Typed
  <2>2. /\ Fit(u) /\ u.cp = s.cp /\ u.rec = s.rec /\ u.buf = s.buf /\ u.alloc = s.alloc
        /\ u.cur = w
    BY <1>2 DEF Fit
  <2> HIDE DEF t
  <2>3. w \in Trans /\ /\ w.id = t.id /\ w.data = t.data /\ w.written = t.written
                       /\ w.bufs = t.bufs /\ w.freed = t.freed /\ w.revokes = t.revokes \cup {b}
    BY <2>1 DEF Trans
  <2> HIDE DEF w
  <2>4. Linked(u, {}, 0, 0)
    BY <2>2, <2>3, CurLinked DEF t
  <2> QED
    BY <2>2, <2>3, <2>4 DEF t
<1> QED
  BY <1>1, <1>2 DEF TryRevoke

LEMMA InvalidateParts ==
  ASSUME NEW s, Fit(s), Linked(s, {}, 0, 0), NEW b \in Blocks, NEW u, u = Invalidate(s, b)
  PROVE  /\ Fit(u) /\ Linked(u, {}, 0, 0) /\ u.cur = s.cur /\ u.alloc = s.alloc
         /\ u.buf[b].cached => ~u.buf[b].dirty
         /\ \A c \in Blocks \ {b} : u.buf[c] = s.buf[c]
<1> DEFINE y == s.buf[b]
           x == [y EXCEPT !.end = None, !.dirty = FALSE, !.upto = FALSE]
<1>1. DOMAIN s.buf = Blocks /\ IsBuf(y)
  BY DEF Linked, Typed
<1>2. CASE y.cached
  <2>1. /\ Fit(u) /\ u.cp = s.cp /\ u.cur = s.cur /\ u.rec = s.rec /\ u.alloc = s.alloc
        /\ u.buf = [s.buf EXCEPT ![b] = x]
    BY <1>2 DEF Invalidate, Fit
  <2>2. y.refs = Refs(s, {}, b)
    BY <1>2 DEF Linked, Held
  <2> HIDE DEF y
  <2>3. None \in Keys
    BY DEF None, Keys
  <2>4. IsBuf(x) /\ x.cached /\ ~x.dirty /\ x.refs = y.refs /\ x.end = None
    BY <1>1, <1>2, <2>3 DEF IsBuf
  <2> HIDE DEF x
  <2>5. Linked(u, {}, 0, 0)
    BY <2>1, <2>2, <2>4, BufLinked
  <2>6. u.buf[b] = x /\ \A c \in Blocks \ {b} : u.buf[c] = s.buf[c]
    BY <1>1, <2>1
  <2> QED
    BY <2>1, <2>4, <2>5, <2>6
<1>3. CASE ~y.cached
  BY <1>3 DEF Invalidate
<1> QED
  BY <1>2, <1>3

LEMMA FreeGood ==
  ASSUME NEW s, Busy(s), NEW b \in Pool
  PROVE  Good([Freed(s, b) EXCEPT !.cur.freed = @ \cup {b}])
<1> DEFINE p == SetUse(s, b, "free")
           q == TryRevoke(p, b)
           r == Invalidate(q, b)
           u == [r EXCEPT !.cur.freed = @ \cup {b}]
           v == NewUses(s, b, "free")
<1>1. Freed(s, b) = r
  BY DEF Freed
<1>2. Wrought(s, p, Bitmap, v)
  BY SetUseWrought
<1> HIDE DEF p
<1>3. v[b] = "free" /\ b \in Blocks /\ b # Bitmap /\ Bitmap \in Blocks
  BY JournalAssumption DEF NewUses, Blocks
<1> HIDE DEF v
<1>4. Fit(p) /\ Linked(p, {}, 0, 0) /\ Working(p) /\ p.cur.id = p.alloc
  BY <1>2 DEF Wrought, Busy, Good
<1>5. /\ Fit(q) /\ Linked(q, {}, 0, 0) /\ q.buf = p.buf /\ q.alloc = p.alloc
      /\ q.cur.id = p.cur.id /\ q.cur.data = p.cur.data /\ q.cur.written = p.cur.written
      /\ q.cur.bufs = p.cur.bufs /\ q.cur.freed = p.cur.freed
      /\ q.cur.revokes \subseteq p.cur.revokes \cup {b}
  BY <1>4, TryRevokeParts
<1> HIDE DEF q
<1>6. /\ Fit(r) /\ Linked(r, {}, 0, 0) /\ r.cur = q.cur /\ r.alloc = q.alloc
      /\ r.buf[b].cached => ~r.buf[b].dirty
      /\ \A c \in Blocks \ {b} : r.buf[c] = q.buf[c]
  BY <1>3, <1>5, InvalidateParts, SMTT(30)
<1> HIDE DEF r
<1> DEFINE t == r.cur
           w == [t EXCEPT !.freed = @ \cup {b}]
<1>7. t \in Trans
  BY <1>6 DEF Linked, Typed
<1>8. /\ Fit(u) /\ u.cp = r.cp /\ u.rec = r.rec /\ u.buf = r.buf /\ u.alloc = r.alloc
      /\ u.cur = w
  BY <1>6 DEF Fit
<1> HIDE DEF t, u
<1>9. w \in Trans /\ /\ w.id = t.id /\ w.data = t.data /\ w.written = t.written
                     /\ w.bufs = t.bufs /\ w.freed = t.freed \cup {b} /\ w.revokes = t.revokes
  BY <1>7 DEF Trans
<1> HIDE DEF w
<1>10. Linked(u, {}, 0, 0)
  BY <1>6, <1>8, <1>9, CurLinked DEF t
<1>11. /\ u.cur.id = p.cur.id /\ u.cur.data = p.cur.data /\ u.cur.written = p.cur.written
       /\ u.cur.bufs = p.cur.bufs /\ u.cur.freed = p.cur.freed \cup {b} /\ u.alloc = p.alloc
       /\ u.cur.revokes \subseteq p.cur.revokes \cup {b}
       /\ u.buf[b].cached => ~u.buf[b].dirty
       /\ \A c \in Blocks \ {b} : u.buf[c] = p.buf[c]
  BY <1>5, <1>6, <1>8, <1>9 DEF t
<1>12. Lbas(u.cur) = Lbas(p.cur) /\ Lbas(u.cur) \subseteq Blocks
  <2>1. Lbas(u.cur) \subseteq Blocks
    BY <1>8, <1>9, LbasAreBlocks
  <2> QED
    BY <1>11, <2>1 DEF Lbas
<1>13. ASSUME NEW x \in Elems(u.cur.bufs) PROVE Marked(u, x)
  <2>1. Marked(p, x) /\ x.lba \in Lbas(p.cur)
    BY <1>4, <1>11 DEF Working, Lbas
  <2>2. CASE x.lba = b
    BY <1>11, <2>1, <2>2 DEF Marked
  <2>3. CASE x.lba # b
    BY <1>11, <1>12, <2>1, <2>3 DEF Marked
  <2> QED
    BY <2>2, <2>3
<1>14. ASSUME NEW f \in u.cur.freed PROVE FreedIsFree(u, f)
  <2>1. Bitmap \in Lbas(u.cur) /\ u.buf[Bitmap] = p.buf[Bitmap]
    BY <1>2, <1>3, <1>11, <1>12 DEF Wrought
  <2>2. CASE f = b
    <3>1. u.buf[Bitmap].upto = TRUE /\ u.buf[Bitmap].val[f] = "free"
      BY <1>2, <1>3, <2>1, <2>2 DEF Wrought
    <3>2. f \in Lbas(u.cur) => ~u.buf[f].dirty
      BY <1>3, <1>10, <1>11, <2>2 DEF Linked, Held
    <3> QED
      BY <2>1, <3>1, <3>2 DEF FreedIsFree
  <2>3. CASE f # b
    <3>1. FreedIsFree(p, f)
      BY <1>4, <1>11, <2>3 DEF Working
    <3> QED
      BY <1>11, <1>12, <2>1, <2>3, <3>1 DEF FreedIsFree
  <2> QED
    BY <2>2, <2>3
<1>15. Working(u)
  <2>1. u.cur.revokes \subseteq u.cur.freed
    BY <1>4, <1>11 DEF Working
  <2>2. u.cur.id = u.alloc /\ u.alloc # 0
    BY <1>4, <1>11 DEF Working
  <2>3. u.cur.data = Len(u.cur.bufs) /\ u.cur.written = 0
    BY <1>4, <1>11 DEF Working
  <2> QED
    BY <1>13, <1>14, <2>1, <2>2, <2>3 DEF Working
<1> QED
  BY <1>1, <1>8, <1>10, <1>15 DEF Good, u

LEMMA BeginGood ==
  ASSUME NEW s, Good(s), s.cur = NoTrans
  PROVE  Good([s EXCEPT !.cur = NewTrans(s.alloc)])
<1> DEFINE t == NewTrans(s.alloc)
           u == [s EXCEPT !.cur = t]
<1>1. s.alloc \in Nat /\ s.alloc # 0
  BY DEF Good, Linked, Typed, Working
<1>2. /\ t \in Trans /\ t.bufs = <<>> /\ t.id = s.alloc /\ t.data = 0 /\ t.written = 0
      /\ t.revokes = {} /\ t.freed = {}
  <2>1. <<>> \in Seq(Bufs)
    OBVIOUS
  <2> QED
    BY <1>1, <2>1 DEF NewTrans, Trans
<1>3. s.cur.bufs = <<>>
  BY DEF NoTrans, NewTrans
<1> HIDE DEF t
<1>4. /\ Fit(u) /\ u.cp = s.cp /\ u.rec = s.rec /\ u.buf = s.buf /\ u.alloc = s.alloc
      /\ u.cur = t
  BY DEF Good, Fit
<1> HIDE DEF u
<1>5. \A i \in DOMAIN s.cp : s.cp[i].id # s.alloc
  <2>1. \A n \in 1 .. s.alloc - 1 : n # s.alloc
    BY <1>1
  <2> QED
    BY <2>1 DEF Good, Linked, Ids
<1>6. Linked(u, {}, 0, 0)
  BY <1>2, <1>3, <1>4, <1>5, CurReplaced DEF Good
<1>7. Elems(<<>>) = {}
  BY DEF Elems
<1>8. Working(u)
  BY <1>1, <1>2, <1>4, <1>7 DEF Working
<1> QED
  BY <1>4, <1>6, <1>8 DEF Good, u, t

LEMMA ClosedGood ==
  ASSUME NEW u, NEW a \in Nat \ {0}, Closed(u, a)
  PROVE  Good(u)
<1>1. /\ NoTrans.id = 0 /\ NoTrans.data = 0 /\ NoTrans.written = 0 /\ NoTrans.bufs = <<>>
      /\ NoTrans.revokes = {} /\ NoTrans.freed = {}
  BY DEF NoTrans, NewTrans
<1>2. Elems(<<>>) = {} /\ Len(<<>>) = 0
  BY DEF Elems
<1>3. Working(u)
  BY <1>1, <1>2 DEF Working, Closed
<1> QED
  BY <1>3 DEF Closed, Good

LEMMA CommittedGood ==
  ASSUME NEW s, Busy(s)
  PROVE  Good(Committed(s))
<1>1. s.alloc \in Nat \ {0} /\ s.alloc + 1 \in Nat \ {0}
  <2>1. s.alloc \in Nat /\ s.alloc # 0
    BY DEF Busy, Good, Linked, Typed, Working
  <2> QED
    BY <2>1
<1>2. Closed(Committed(s), s.alloc) \/ Closed(Committed(s), s.alloc + 1)
  BY BusySound, CommittedClosed
<1> QED
  BY <1>1, <1>2, ClosedGood

LEMMA AbortedGood ==
  ASSUME NEW s, Good(s)
  PROVE  Good(Aborted(s))
<1>1. s.alloc \in Nat \ {0} /\ Fit(s) /\ Linked(s, {}, 0, 0)
  BY DEF Good, Linked, Typed, Working
<1> DEFINE u == Aborted(s)
<1>2. Fit(u) /\ Linked(u, {}, 0, 0) /\ u.cur = NoTrans /\ u.alloc = s.alloc
  BY <1>1, AbortedLinked
<1> HIDE DEF u
<1>3. Closed(u, s.alloc)
  BY <1>2 DEF Closed
<1>4. Good(u)
  BY <1>1, <1>3, ClosedGood
<1> QED
  BY <1>4 DEF u

\* A buffer nobody holds is of no block of the open transaction.
LEMMA Unheld ==
  ASSUME NEW s, Linked(s, {}, 0, 0), NEW b \in Blocks, s.buf[b].cached, s.buf[b].refs = 0
  PROVE  b \notin Lbas(s.cur)
<1>1. s.buf[b].refs = Refs(s, {}, b)
  BY DEF Linked, Held
<1>2. b \in Lbas(s.cur) => Refs(s, {}, b) = 1
  BY DEF Refs
<1> QED
  BY <1>1, <1>2

LEMMA EvictGood ==
  ASSUME NEW s, Good(s), NEW b \in Blocks, s.buf[b].cached, s.buf[b].refs = 0
  PROVE  Good([FlushBuf(s, b) EXCEPT !.buf[b] = NoBuf])
<1> DEFINE p == FlushBuf(s, b)
           u == [p EXCEPT !.buf[b] = NoBuf]
<1>1. b \notin Lbas(s.cur) /\ Fit(s) /\ Linked(s, {}, 0, 0)
  BY Unheld DEF Good
<1>2. Fit(p) /\ Linked(p, {}, 0, 0) /\ Wrote(s, p, b)
  BY <1>1, FlushBufLinked
<1> HIDE DEF p
<1>3. /\ Fit(u) /\ u.cp = p.cp /\ u.cur = p.cur /\ u.rec = p.rec /\ u.alloc = p.alloc
      /\ u.buf = [p.buf EXCEPT ![b] = NoBuf]
  BY <1>2 DEF Fit
<1> HIDE DEF u
<1>4. IsBuf(NoBuf) /\ ~NoBuf.cached
  BY DEF IsBuf, NoBuf
<1>5. b \notin Lbas(p.cur) /\ DOMAIN p.buf = Blocks
  BY <1>1, <1>2 DEF Wrote, Linked, Typed
<1>6. Linked(u, {}, 0, 0)
  <2> DEFINE x == NoBuf
  <2>1. IsBuf(x) /\ ~x.cached /\ u.buf = [p.buf EXCEPT ![b] = x]
    BY <1>3, <1>4
  <2> HIDE DEF x
  <2> QED
    BY <1>2, <1>3, <1>5, <2>1, BufLinked
<1>7. \A c \in Blocks \ {b} : u.buf[c] = p.buf[c]
  BY <1>3, <1>5
<1>8. Kept(s, u)
  <2>1. Lbas(s.cur) \subseteq Blocks
    BY <1>1, LbasAreBlocks DEF Linked, Typed
  <2> QED
    BY <1>1, <1>2, <1>3, <1>7, <2>1 DEF Kept, Wrote, Like
<1>9. Good(u)
  BY <1>3, <1>6, <1>8, KeptGood
<1> QED
  BY <1>9 DEF u, p

LEMMA FlushedGood ==
  ASSUME NEW s, Good(s), NEW S, S \subseteq {b \in Blocks : s.buf[b].cached /\ s.buf[b].refs = 0},
         NEW q \in Seq(S)
  PROVE  Good(AllFlushBuf(s, q))
<1> DEFINE n == Len(q)
<1>1. n \in Nat /\ \A k \in 1 .. n : q[k] \in S
  OBVIOUS
<1>2. Fit(s) /\ Linked(s, {}, 0, 0)
  BY DEF Good
<1>3. \A k \in 1 .. n : q[k] \in Blocks /\ s.buf[q[k]].cached /\ q[k] \notin Lbas(s.cur)
  BY <1>1, <1>2, Unheld
<1> HIDE DEF n
<1>4. PICK f : FlushBufRun(s, q, f)
  BY <1>1, FlushBufSteps DEF n
<1>5. /\ f[0] = s /\ AllFlushBuf(s, q) = f[n]
      /\ \A k \in 1 .. n : f[k] = FlushBuf(f[k - 1], q[k])
  BY <1>4 DEF FlushBufRun, n
<1> DEFINE On(k) == /\ Fit(f[k]) /\ Linked(f[k], {}, 0, 0) /\ Kept(s, f[k])
                    /\ \A c \in Blocks : f[k].buf[c].cached = s.buf[c].cached
           T == {k \in Int : On(k)}
<1>6. 0 \in T
  BY <1>2, <1>5 DEF Kept, Like
<1>7. ASSUME NEW k \in 1 .. n, k - 1 \in T PROVE k \in T
  <2> DEFINE v == f[k - 1]
             b == q[k]
             w == FlushBuf(v, b)
  <2>1. /\ Fit(v) /\ Linked(v, {}, 0, 0) /\ Kept(s, v)
        /\ \A c \in Blocks : v.buf[c].cached = s.buf[c].cached
    BY <1>7
  <2>2. f[k] = w
    BY <1>5
  <2> HIDE DEF v, T
  <2>3. b \in Blocks /\ v.buf[b].cached /\ b \notin Lbas(v.cur)
    BY <1>3, <2>1 DEF Kept
  <2> HIDE DEF b
  <2>4. Fit(w) /\ Linked(w, {}, 0, 0) /\ Wrote(v, w, b)
    BY <2>1, <2>3, FlushBufLinked
  <2> HIDE DEF w
  <2>5. Kept(s, w)
    <3>1. Moved(v, w, b)
      BY <2>4, WroteMoved
    <3>2. Kept(v, w)
      BY <2>1, <2>3, <3>1, MovedKept DEF Linked
    <3> QED
      BY <2>1, <3>2, KeptTwice
  <2>6. \A c \in Blocks : w.buf[c].cached = s.buf[c].cached
    BY <2>1, <2>3, <2>4 DEF Wrote
  <2>7. On(k)
    BY <2>2, <2>4, <2>5, <2>6
  <2> QED
    BY <2>7 DEF T
<1> HIDE DEF T
<1>8. n \in T
  BY <1>1, <1>6, <1>7, AllTurns
<1>9. Fit(f[n]) /\ Linked(f[n], {}, 0, 0) /\ Kept(s, f[n])
  BY <1>8 DEF T
<1> QED
  BY <1>5, <1>9, KeptGood

\* The cache as the next call finds it, and what the call writes.
Handed(s) == [s EXCEPT !.io = <<>>]

LEMMA NothingTold == Told(<<>>)
<1> DEFINE none == {}
<1>1. <<>> \in Seq(none) /\ \A w \in none : IsWrite(w)
  OBVIOUS
<1> HIDE DEF none
<1> QED
  BY <1>1 DEF Told

LEMMA HandedGood ==
  ASSUME NEW s, Good(s)
  PROVE  Good(Handed(s)) /\ Told(s.io)
<1> DEFINE u == Handed(s)
<1>1. Fit(s) /\ Linked(s, {}, 0, 0) /\ Told(s.io)
  BY DEF Good, Fit
<1>2. Fit(u) /\ Same(s, u)
  BY <1>1, NothingTold DEF Fit, Same, Handed
<1> HIDE DEF u
<1>3. Good(u)
  BY <1>1, <1>2, SameLinked, SameKept, KeptGood
<1> QED
  BY <1>1, <1>3 DEF u

----------------------------------------------------------------------------
(* Recovery: what it writes *)

LEMMA ConcatTold ==
  ASSUME NEW q, Told(q), NEW r, Told(r)
  PROVE  Told(q \o r)
<1>1. PICK S : q \in Seq(S) /\ \A v \in S : IsWrite(v)
  BY DEF Told
<1>2. PICK T : r \in Seq(T) /\ \A v \in T : IsWrite(v)
  BY DEF Told
<1>3. q \in Seq(S \cup T) /\ r \in Seq(S \cup T)
  BY <1>1, <1>2
<1>4. q \o r \in Seq(S \cup T)
  BY <1>3
<1> QED
  BY <1>1, <1>2, <1>4 DEF Told

LEMMA OneTold ==
  ASSUME NEW w, IsWrite(w)
  PROVE  Told(<<w>>)
<1>1. <<w>> = Append(<<>>, w)
  OBVIOUS
<1> QED
  BY <1>1, NothingTold, AppendTold

\* The loops of recovery.
IsCount(q, n) == q = [i \in 1 .. n |-> i]
ReplayedTags(d, at, h, table, q, n, f) ==
  f = [i \in 0 .. n |-> IF i = 0 THEN <<>> ELSE ReplayTag(d, at, h, table, f[i - 1], q[i])]
ReplayRun(d, at, h, table, q, f) ==
  /\ f[0] = <<>> /\ Replayed(d, at, h, table) = f[Len(q)]
  /\ \A i \in 1 .. Len(q) : f[i] = ReplayTag(d, at, h, table, f[i - 1], q[i])

LEMMA ReplaySteps ==
  ASSUME NEW d, NEW at, NEW h, NEW table, NEW q, IsCount(q, TagsPerBlock), Len(q) \in Nat
  PROVE  \E f : ReplayRun(d, at, h, table, q, f)
<1> DEFINE S == {n \in Nat : \E f : ReplayedTags(d, at, h, table, q, n, f)}
<1>1. 0 \in S
  <2> DEFINE f == [i \in 0 .. 0 |-> <<>>]
  <2>1. ReplayedTags(d, at, h, table, q, 0, f)
    BY DEF ReplayedTags
  <2> QED
    BY <2>1
<1>2. ASSUME NEW n \in Nat, n \in S PROVE n + 1 \in S
  <2>1. PICK f : ReplayedTags(d, at, h, table, q, n, f)
    BY <1>2
  <2> DEFINE On(p, i) == ReplayTag(d, at, h, table, p, q[i])
             g == [i \in 0 .. n + 1 |-> IF i = n + 1 THEN On(f[n], i) ELSE f[i]]
  <2>2. \A i \in 0 .. n : f[i] = IF i = 0 THEN <<>> ELSE On(f[i - 1], i)
    BY <2>1 DEF ReplayedTags
  <2>3. \A i \in 0 .. n + 1 : g[i] = IF i = 0 THEN <<>> ELSE On(g[i - 1], i)
    BY <2>2, PlacesUpTo
  <2>4. g = [i \in 0 .. n + 1 |-> g[i]]
    OBVIOUS
  <2>5. ReplayedTags(d, at, h, table, q, n + 1, g)
    BY <2>3, <2>4 DEF ReplayedTags
  <2> QED
    BY <2>5
<1> HIDE DEF S
<1>3. Len(q) \in S
  BY <1>1, <1>2, AllNumbers
<1> DEFINE f == CHOOSE g : ReplayedTags(d, at, h, table, q, Len(q), g)
<1>4. ReplayedTags(d, at, h, table, q, Len(q), f)
  BY <1>3 DEF S
<1>5. Replayed(d, at, h, table) = f[Len(q)]
  BY DEF Replayed, ForEach, ReplayedTags, IsCount
<1> HIDE DEF f
<1>6. \A i \in 0 .. Len(q) : f[i] = IF i = 0 THEN <<>>
                                    ELSE ReplayTag(d, at, h, table, f[i - 1], q[i])
  BY <1>4 DEF ReplayedTags
<1>7. ReplayRun(d, at, h, table, q, f)
  BY <1>5, <1>6 DEF ReplayRun
<1> QED
  BY <1>7

LEMMA ReplayedTold ==
  ASSUME NEW d, NEW at, NEW h, NEW table
  PROVE  Told(Replayed(d, at, h, table))
<1> DEFINE q == [i \in 1 .. TagsPerBlock |-> i]
           n == Len(q)
<1>1. n \in Nat
  BY JournalAssumption
<1> HIDE DEF n
<1>2. PICK f : ReplayRun(d, at, h, table, q, f)
  <2>1. Len(q) \in Nat /\ IsCount(q, TagsPerBlock)
    BY <1>1 DEF n, IsCount
  <2> QED
    BY <2>1, ReplaySteps
<1> HIDE DEF q
<1>3. /\ f[0] = <<>> /\ Replayed(d, at, h, table) = f[n]
      /\ \A i \in 1 .. n : f[i] = ReplayTag(d, at, h, table, f[i - 1], q[i])
  BY <1>2 DEF ReplayRun, n
<1> DEFINE S == {i \in Int : Told(f[i])}
<1>4. 0 \in S
  BY <1>3, NothingTold
<1>5. ASSUME NEW i \in 1 .. n, i - 1 \in S PROVE i \in S
  <2> DEFINE out == f[i - 1]
  <2>1. Told(out) /\ f[i] = ReplayTag(d, at, h, table, out, q[i])
    BY <1>3, <1>5
  <2> HIDE DEF out, S
  <2>2. \A val, lba : IsWrite(Write("disk", lba, val))
    BY DEF IsWrite, Write
  <2>3. Told(f[i])
    <3>1. f[i] = out \/ \E lba, val : f[i] = Append(out, Write("disk", lba, val))
      BY <2>1 DEF ReplayTag
    <3> QED
      BY <2>1, <2>2, <3>1, AppendTold
  <2> QED
    BY <2>3 DEF S
<1> HIDE DEF S
<1>6. n \in S
  BY <1>1, <1>4, <1>5, AllTurns
<1> QED
  BY <1>3, <1>6 DEF S

WalkedOn(d, lastId, table, z, n, f) ==
  f = [i \in 0 .. n |-> IF i = 0 THEN z ELSE WalkOn(d, lastId, table, f[i - 1])]
\* Where a walk begins.
Begun(d) == [at |-> d.jsb.start, id |-> d.jsb.seq, stop |-> FALSE,
             revokedBy |-> [b \in Blocks |-> 0], out |-> <<>>]
WalkRun(d, lastId, table, n, f) ==
  /\ f[0] = Begun(d) /\ Walk(d, lastId, table) = f[n]
  /\ \A i \in 1 .. n : f[i] = WalkOn(d, lastId, table, f[i - 1])

LEMMA WalkSteps ==
  ASSUME NEW d, NEW lastId, NEW table, NEW q, IsCount(q, setup.maxlen), Len(q) \in Nat
  PROVE  \E f : WalkRun(d, lastId, table, Len(q), f)
<1> DEFINE z == Begun(d)
           S == {n \in Nat : \E f : WalkedOn(d, lastId, table, z, n, f)}
<1>0. z = Begun(d)
  OBVIOUS
<1> HIDE DEF z
<1>1. 0 \in S
  <2> DEFINE f == [i \in 0 .. 0 |-> z]
  <2>1. WalkedOn(d, lastId, table, z, 0, f)
    BY DEF WalkedOn
  <2> QED
    BY <2>1
<1>2. ASSUME NEW n \in Nat, n \in S PROVE n + 1 \in S
  <2>1. PICK f : WalkedOn(d, lastId, table, z, n, f)
    BY <1>2
  <2> DEFINE On(p) == WalkOn(d, lastId, table, p)
             g == [i \in 0 .. n + 1 |-> IF i = n + 1 THEN On(f[n]) ELSE f[i]]
  <2>2. \A i \in 0 .. n : f[i] = IF i = 0 THEN z ELSE On(f[i - 1])
    BY <2>1 DEF WalkedOn
  <2>3. \A i \in 0 .. n + 1 : g[i] = IF i = 0 THEN z ELSE On(g[i - 1])
    BY <2>2, PlacesUpTo
  <2>4. g = [i \in 0 .. n + 1 |-> g[i]]
    OBVIOUS
  <2>5. WalkedOn(d, lastId, table, z, n + 1, g)
    BY <2>3, <2>4 DEF WalkedOn
  <2> QED
    BY <2>5
<1> HIDE DEF S
<1>3. Len(q) \in S
  BY <1>1, <1>2, AllNumbers
<1> DEFINE f == CHOOSE g : WalkedOn(d, lastId, table, z, Len(q), g)
<1>4. WalkedOn(d, lastId, table, z, Len(q), f)
  BY <1>3 DEF S
<1>5. Walk(d, lastId, table) = f[Len(q)]
  BY DEF Walk, ForEach, WalkedOn, Begun, z, IsCount
<1> HIDE DEF f
<1>6. \A i \in 0 .. Len(q) : f[i] = IF i = 0 THEN z ELSE WalkOn(d, lastId, table, f[i - 1])
  BY <1>4 DEF WalkedOn
<1>7. WalkRun(d, lastId, table, Len(q), f)
  BY <1>0, <1>5, <1>6 DEF WalkRun
<1> QED
  BY <1>7

\* A walk counts transactions and collects writes.
Walking(p) ==
  DOMAIN p = {"at", "id", "stop", "revokedBy", "out"} /\ p.id \in Nat /\ Told(p.out)

LEMMA WalkOnWalking ==
  ASSUME NEW d, NEW lastId, NEW table, NEW p, Walking(p)
  PROVE  Walking(WalkOn(d, lastId, table, p))
<1> DEFINE h == d.log[p.at]
           tags == IF h.type = "desc" THEN Len(TagsOf(h)) ELSE 0
           next == Wrapped(p.at + tags + 1)
           id == IF h.type = "commit" THEN p.id + 1 ELSE p.id
           revokedBy == [b \in Blocks |-> IF b \in h.revoked THEN h.seq ELSE p.revokedBy[b]]
           copies == Replayed(d, p.at, h, table)
           out == IF h.type = "desc" THEN p.out \o copies ELSE p.out
           u == WalkOn(d, lastId, table, p)
           w == [at |-> next, stop |-> next = d.jsb.start, id |-> id, revokedBy |-> revokedBy,
                 out |-> out]
<1>1. u = [p EXCEPT !.stop = TRUE] \/ u = w
  BY DEF WalkOn
<1>2. CASE u = [p EXCEPT !.stop = TRUE]
  <2> HIDE DEF u
  <2>1. DOMAIN u = DOMAIN p /\ u.id = p.id /\ u.out = p.out
    BY <1>2 DEF Walking
  <2> QED
    BY <2>1 DEF Walking, u
<1>3. CASE u = w
  <2>1. id \in Nat
    BY DEF Walking
  <2>2. Told(copies)
    BY ReplayedTold
  <2> HIDE DEF copies
  <2>3. Told(p.out \o copies)
    BY <2>2, ConcatTold DEF Walking
  <2>4. Told(out)
    BY <2>3 DEF Walking
  <2> HIDE DEF u, out, id, revokedBy, next, h
  <2>5. DOMAIN u = {"at", "id", "stop", "revokedBy", "out"} /\ u.id = id /\ u.out = out
    BY <1>3
  <2> QED
    BY <2>1, <2>4, <2>5 DEF Walking, u
<1> QED
  BY <1>1, <1>2, <1>3

LEMMA WalkWalking ==
  ASSUME NEW d, d.jsb.seq \in Nat, setup \in Setups, NEW lastId, NEW table
  PROVE  Walk(d, lastId, table).id \in Nat /\ Told(Walk(d, lastId, table).out)
<1> DEFINE q == [i \in 1 .. setup.maxlen |-> i]
           n == Len(q)
<1>1. n \in Nat
  BY JournalAssumption
<1>2. PICK f : WalkRun(d, lastId, table, n, f)
  <2>1. IsCount(q, setup.maxlen)
    BY DEF IsCount
  <2> HIDE DEF q
  <2> QED
    BY <1>1, <2>1, WalkSteps
<1> HIDE DEF n
<1>3. /\ f[0] = Begun(d) /\ Walk(d, lastId, table) = f[n]
      /\ \A i \in 1 .. n : f[i] = WalkOn(d, lastId, table, f[i - 1])
  BY <1>2 DEF WalkRun
<1> DEFINE S == {i \in Int : Walking(f[i])}
<1>4. 0 \in S
  <2>1. Begun(d).id \in Nat /\ Told(Begun(d).out)
    BY NothingTold DEF Begun
  <2>2. DOMAIN Begun(d) = {"at", "id", "stop", "revokedBy", "out"}
    BY DEF Begun
  <2> QED
    BY <1>3, <2>1, <2>2 DEF Walking
<1>5. ASSUME NEW i \in 1 .. n, i - 1 \in S PROVE i \in S
  BY <1>3, <1>5, WalkOnWalking
<1> HIDE DEF S
<1>6. n \in S
  BY <1>1, <1>4, <1>5, AllTurns
<1> QED
  BY <1>3, <1>6 DEF S, Walking

LEMMA RecoveryTold ==
  ASSUME NEW d, d.jsb.seq \in Nat, setup \in Setups
  PROVE  Told(RecoveryWrites(d))
<1> DEFINE nothing == [b \in Blocks |-> 0]
           k == Walk(d, d.jsb.seq + setup.maxId, nothing).id
           replayed == Walk(d, k - 1, Walk(d, k - 1, nothing).revokedBy).out
           W(i) == Write("jsb", 0, [start |-> 0, seq |-> i])
<1>1. k \in Nat /\ Told(replayed)
  BY WalkWalking
<1>2. RecoveryWrites(d) = IF d.jsb.start = 0 THEN <<>>
                          ELSE IF k > d.jsb.seq THEN replayed \o <<W(k - 1)>> ELSE <<W(k)>>
  BY DEF RecoveryWrites
<1> HIDE DEF k, replayed
<1>3. \A i \in Nat : IsWrite(W(i))
  BY DEF IsWrite, Write
<1>4. \A i \in Nat : Told(<<W(i)>>)
  <2> HIDE DEF W
  <2> QED
    BY <1>3, OneTold
<1>5. CASE k > d.jsb.seq
  <2>1. k - 1 \in Nat
    BY <1>1, <1>5
  <2> HIDE DEF W
  <2>2. Told(<<W(k - 1)>>)
    BY <1>4, <2>1
  <2>3. Told(replayed \o <<W(k - 1)>>)
    BY <1>1, <2>2, ConcatTold
  <2> QED
    BY <1>2, <1>5, <2>3, NothingTold
<1>6. CASE ~(k > d.jsb.seq)
  <2> HIDE DEF W
  <2> QED
    BY <1>1, <1>2, <1>4, <1>6, NothingTold
<1> QED
  BY <1>5, <1>6

----------------------------------------------------------------------------
(* The specification *)

\* The device has a superblock of the journal, the writes that wait are writes,
\* and the memory is gone or is good.
IInv ==
  /\ setup \in Setups
  /\ "jsb" \in DOMAIN media /\ media.jsb.seq \in Nat
  /\ Told(io)
  /\ m = Down \/ Good(m)

\* What a call computes is good when it is the memory.
LEMMA GoodCarried ==
  ASSUME NEW s, Good(s), m' = s, setup' = setup
  PROVE  Good(m)'
<1>1. Fit(s) /\ Linked(s, {}, 0, 0) /\ Working(s)
  BY DEF Good
<1>2. Fit(m)'
  BY <1>1 DEF Fit, Told, IsWrite
<1>3. (Typed(m) /\ Ids(m) /\ Counts(m, 0))'
  BY <1>1 DEF Linked, Typed, Ids, Counts, Trans, Recs, Bufs, Keys, IsBuf, Blocks
<1>4. (Owned(m) /\ Listed(m))'
  <2>1. Owned(m)'
    BY <1>1 DEF Linked, Owned, Mine, Elems, Distinct, Apart, Key
  <2>2. Waiting(m)' = Waiting(s)
    BY DEF Waiting, Elems
  <2>3. \A b \in Blocks : /\ Elems(s.rec[b].queue) = {x \in Waiting(s) : x.lba = b}
                           /\ Distinct(s.rec[b].queue)
    BY <1>1 DEF Linked, Listed
  <2>4. Listed(m)'
    BY <2>2, <2>3 DEF Listed, Elems, Distinct, Key
  <2> QED
    BY <2>1, <2>4
<1>5. (Latest(m, 0, 0) /\ Held(m, {}))'
  BY <1>1 DEF Linked, Latest, Held, Settles, LatestOwns, EndIsKnown, Refs, Lbas, Elems, Key, Blocks
<1>6. Working(m)'
  BY <1>1 DEF Working, Marked, FreedIsFree, NoTrans, NewTrans, Elems, Lbas, Key
<1> QED
  BY <1>2, <1>3, <1>4, <1>5, <1>6 DEF Good, Linked

LEMMA GoodStays ==
  ASSUME Good(m), m' = m, setup' = setup
  PROVE  Good(m)'
BY GoodCarried

\* A call of the interface.
LEMMA RunKeeps ==
  ASSUME IInv, NEW s, Good(s), Run(s)
  PROVE  IInv'
<1>1. Good(Handed(s)) /\ Told(s.io)
  BY HandedGood
<1>2. m' = Handed(s) /\ io' = s.io /\ media' = media /\ setup' = setup
  BY DEF Run, Handed
<1>3. Good(m)'
  BY <1>1, <1>2, GoodCarried
<1>4. Told(io)'
  BY <1>1, <1>2 DEF Told, IsWrite
<1> QED
  BY <1>2, <1>3, <1>4 DEF IInv

LEMMA UpIsGood ==
  ASSUME IInv, m.up
  PROVE  Good(m)
BY DEF IInv, Down

LEMMA InTransIsBusy ==
  ASSUME IInv, InTrans
  PROVE  Busy(m)
<1>1. Good(m) /\ m.cur # NoTrans
  BY UpIsGood DEF InTrans, Ready
<1> QED
  BY <1>1 DEF Busy, Good, Working

LEMMA PerformKeeps ==
  ASSUME IInv, PerformWrite
  PROVE  IInv'
<1> DEFINE w == Head(io)
<1>1. PICK S : io \in Seq(S) /\ \A v \in S : IsWrite(v)
  BY DEF IInv, Told
<1>2. IsWrite(w) /\ Tail(io) \in Seq(S)
  BY <1>1 DEF PerformWrite
<1>3. Told(io)'
  BY <1>1, <1>2 DEF PerformWrite, Told, IsWrite
<1> HIDE DEF w
<1>4. media' = Perform(media, w)
  BY DEF PerformWrite, w
<1>5. ("jsb" \in DOMAIN media /\ media.jsb.seq \in Nat)'
  <2>1. "jsb" \in DOMAIN media /\ media.jsb.seq \in Nat
    BY DEF IInv
  <2>2. CASE w.to = "disk"
    <3>1. media' = [media EXCEPT !.disk[w.at] = w.val]
      BY <1>4, <2>2 DEF Perform
    <3> QED
      BY <2>1, <3>1
  <2>3. CASE w.to = "log"
    <3>1. media' = [media EXCEPT !.log[w.at] = w.val]
      BY <1>4, <2>3 DEF Perform
    <3> QED
      BY <2>1, <3>1
  <2>4. CASE w.to = "jsb"
    <3>1. media' = [media EXCEPT !.jsb = w.val]
      BY <1>4, <2>4 DEF Perform
    <3>2. w.val.seq \in Nat
      BY <1>2, <2>4 DEF IsWrite
    <3> QED
      BY <2>1, <3>1, <3>2
  <2> QED
    BY <1>2, <2>2, <2>3, <2>4 DEF IsWrite
<1>6. (m = Down \/ Good(m))'
  <2>1. m' = m /\ setup' = setup
    BY DEF PerformWrite
  <2>2. CASE m = Down
    BY <2>1, <2>2 DEF Down
  <2>3. CASE Good(m)
    BY <2>1, <2>3, GoodStays
  <2> QED
    BY <2>2, <2>3 DEF IInv
<1> QED
  BY <1>3, <1>5, <1>6 DEF IInv, PerformWrite

\* The memory of a journal that has just been opened.
LEMMA FreshGood ==
  ASSUME NEW id \in Nat \ {0}, NEW sb, sb.seq \in Nat, setup \in Setups
  PROVE  Good(Fresh(First, id, sb))
<1> DEFINE s == Fresh(First, id, sb)
<1>1. /\ DOMAIN s = {"up", "io", "buf", "rec", "cp", "cur", "start", "last", "tid", "alloc", "sb",
                     "dirty"}
      /\ s.up = TRUE /\ s.io = <<>> /\ s.buf = [b \in Blocks |-> NoBuf]
      /\ s.rec = [b \in Blocks |-> NoRec] /\ s.cp = <<>> /\ s.cur = NoTrans
      /\ s.start = 1 /\ s.last = 1 /\ s.tid = id /\ s.alloc = id /\ s.sb = sb
  BY DEF Fresh, First
<1> HIDE DEF s
<1>2. /\ NoTrans \in Trans /\ NoTrans.id = 0 /\ NoTrans.bufs = <<>> /\ NoTrans.data = 0
      /\ NoTrans.written = 0 /\ NoTrans.revokes = {} /\ NoTrans.freed = {}
  <2>1. <<>> \in Seq(Bufs)
    OBVIOUS
  <2> QED
    BY <2>1 DEF NoTrans, NewTrans, Trans
<1>3. NoRec \in Recs /\ NoRec.queue = <<>>
  <2>1. <<>> \in Seq(Bufs)
    OBVIOUS
  <2> QED
    BY <2>1 DEF NoRec, Recs
<1>4. IsBuf(NoBuf) /\ ~NoBuf.cached
  BY DEF IsBuf, NoBuf
<1>5. Elems(<<>>) = {} /\ Distinct(<<>>) /\ Apart(<<>>) /\ Lbas(NoTrans) = {}
  BY <1>2 DEF Elems, Distinct, Apart, Lbas
<1>6. Fit(s)
  <2>1. setup.maxlen \in Int
    BY JournalAssumption
  <2> QED
    BY <1>1, <2>1, NothingTold DEF Fit
<1>7. Typed(s) /\ Ids(s) /\ Counts(s, 0)
  <2>1. <<>> \in Seq(Trans) /\ DOMAIN <<>> = {}
    OBVIOUS
  <2> QED
    BY <1>1, <1>2, <1>3, <1>4, <2>1 DEF Typed, Ids, Counts
<1>8. Owned(s)
  BY <1>1, <1>2, <1>5 DEF Owned, Mine
<1>9. Listed(s)
  <2>1. Waiting(s) = {}
    BY <1>1, <1>2, <1>5 DEF Waiting
  <2> QED
    BY <1>1, <1>3, <1>5, <2>1 DEF Listed
<1>10. Latest(s, 0, 0)
  BY <1>1, <1>3, <1>4 DEF Latest, Settles, LatestOwns, EndIsKnown
<1>11. Held(s, {})
  BY <1>1, <1>4, <1>5 DEF Held
<1>12. Working(s)
  BY <1>1, <1>2, <1>5 DEF Working
<1> QED
  BY <1>6, <1>7, <1>8, <1>9, <1>10, <1>11, <1>12 DEF Good, Linked, s

LEMMA OpenKeeps ==
  ASSUME IInv, Open
  PROVE  IInv'
<1> DEFINE p == Fresh(First, media.jsb.seq + 1, media.jsb)
           q == TellSb(p)
           s == WriteSb(q)
<1>1. m' = [s EXCEPT !.io = <<>>] /\ io' = s.io /\ media' = media /\ setup' = setup
  BY DEF Open
<1>2. Good(p)
  <2>1. media.jsb.seq + 1 \in Nat \ {0} /\ media.jsb.seq \in Nat /\ setup \in Setups
    BY DEF IInv
  <2> QED
    BY <2>1, FreshGood
<1> HIDE DEF p
<1>3. Fit(q) /\ Same(p, q)
  BY <1>2, TellSbSame DEF Good
<1> HIDE DEF q
<1>4. Fit(s) /\ Same(q, s)
  BY <1>3, WriteSbSame
<1> HIDE DEF s
<1>5. Good(q)
  BY <1>2, <1>3, SameLinked, SameKept, KeptGood DEF Good
<1>6. Good(s)
  BY <1>4, <1>5, SameLinked, SameKept, KeptGood DEF Good
<1>7. Good(Handed(s)) /\ Told(s.io)
  BY <1>6, HandedGood
<1>8. m' = Handed(s)
  BY <1>1 DEF Handed
<1>9. Good(m)'
  BY <1>1, <1>7, <1>8, GoodCarried
<1>10. Told(io)'
  BY <1>1, <1>7 DEF Told, IsWrite
<1> QED
  BY <1>1, <1>9, <1>10 DEF IInv

LEMMA StopKeeps ==
  ASSUME IInv, Stop
  PROVE  IInv'
<1> DEFINE p == PurgeAll(m)
           q == [p EXCEPT !.sb = [start |-> 0, seq |-> 0], !.dirty = TRUE]
           s == WriteSb(q)
<1>1. io' = s.io /\ m' = Down /\ media' = media /\ setup' = setup
  BY DEF Stop
<1>2. Fit(p)
  BY UpIsGood, PurgeAllFits DEF Stop, Ready, Good
<1> HIDE DEF p
<1>3. Fit(q)
  BY <1>2 DEF Fit
<1> HIDE DEF q
<1>4. Told(s.io)
  BY <1>3, WriteSbSame DEF Fit
<1> HIDE DEF s
<1>5. Told(io)'
  BY <1>1, <1>4 DEF Told, IsWrite
<1>6. (m = Down)'
  BY <1>1 DEF Down
<1> QED
  BY <1>1, <1>5, <1>6 DEF IInv

LEMMA RecoverKeeps ==
  ASSUME IInv, Recover
  PROVE  IInv'
<1>1. Told(RecoveryWrites(media))
  BY RecoveryTold DEF IInv
<1> DEFINE w == RecoveryWrites(media)
<1>2. io' = w /\ media' = media /\ m' = m /\ setup' = setup
  BY DEF Recover
<1> HIDE DEF w
<1>3. Told(io)'
  <2>1. Told(w)
    BY <1>1 DEF w
  <2> QED
    BY <1>2, <2>1 DEF Told, IsWrite
<1>4. (m = Down)'
  <2>1. m = Down
    BY DEF Recover, IInv, Good, Fit
  <2> QED
    BY <1>2, <2>1 DEF Down
<1> QED
  BY <1>2, <1>3, <1>4 DEF IInv

LEMMA CrashKeeps ==
  ASSUME IInv, Crash
  PROVE  IInv'
<1>1. Told(io)'
  BY NothingTold DEF Crash, Told, IsWrite
<1>2. (m = Down)'
  BY DEF Crash, Down
<1> QED
  BY <1>1, <1>2 DEF IInv, Crash

LEMMA InitHolds ==
  ASSUME Init
  PROVE  IInv
<1>1. "jsb" \in DOMAIN media /\ media.jsb.seq \in Nat
  BY DEF Init
<1>2. Told(io)
  BY NothingTold DEF Init
<1> QED
  BY <1>1, <1>2 DEF Init, IInv

\* The calls within a transaction.
LEMMA BlockCallsKeep ==
  ASSUME IInv, NEW b \in Pool, NEW v, ChangeMeta(b, v) \/ AllocMeta(b, v) \/ AllocData(b, v)
  PROVE  IInv'
<1>1. InTrans
  BY DEF ChangeMeta, AllocMeta, AllocData
<1>2. Busy(m) /\ Good(m)
  BY <1>1, InTransIsBusy DEF Busy
<1>3. CASE ChangeMeta(b, v)
  <2>1. b \notin m.cur.freed
    BY <1>2, <1>3, FreedIsSeen DEF ChangeMeta, Use
  <2>2. Good(Change(m, b, v))
    BY <1>2, <2>1, ChangeGood
  <2> QED
    BY <1>3, <2>2, RunKeeps DEF ChangeMeta
<1>4. CASE AllocMeta(b, v)
  <2>1. b \notin m.cur.freed
    BY <1>4 DEF AllocMeta, Available
  <2>2. Good(Change(SetUse(m, b, "meta"), b, v))
    BY <1>2, <2>1, AllocMetaGood
  <2> QED
    BY <1>4, <2>2, RunKeeps DEF AllocMeta
<1>5. CASE AllocData(b, v)
  <2>1. b \notin m.cur.freed
    BY <1>5 DEF AllocData, Available
  <2>2. Good(Issue(SetUse(m, b, "data"), Write("disk", b, v)))
    BY <1>2, <2>1, AllocDataGood
  <2> QED
    BY <1>5, <2>2, RunKeeps DEF AllocData
<1> QED
  BY <1>3, <1>4, <1>5

LEMMA FreeKeeps ==
  ASSUME IInv, NEW b \in Pool, Free(b)
  PROVE  IInv'
<1>1. Busy(m)
  BY InTransIsBusy DEF Free
<1> DEFINE s == Freed(m, b)
           u == [s EXCEPT !.cur.freed = @ \cup {b}]
<1>2. Good(u)
  BY <1>1, FreeGood
<1>3. Run(u)
  BY DEF Free, Freed
<1> HIDE DEF u
<1> QED
  BY <1>2, <1>3, RunKeeps

LEMMA CallsKeep ==
  ASSUME IInv, Begin \/ Commit \/ Abort
  PROVE  IInv'
<1>1. CASE Begin
  <2>1. Good(m) /\ m.cur = NoTrans
    BY <1>1, UpIsGood DEF Begin, Ready
  <2>2. Good([m EXCEPT !.cur = NewTrans(m.alloc)])
    BY <2>1, BeginGood
  <2> QED
    BY <1>1, <2>2, RunKeeps DEF Begin
<1>2. CASE Commit
  <2>1. Good(Committed(m))
    BY <1>2, InTransIsBusy, CommittedGood DEF Commit
  <2> QED
    BY <1>2, <2>1, RunKeeps DEF Commit
<1>3. CASE Abort
  <2>1. Good(Aborted(m))
    BY <1>3, InTransIsBusy, AbortedGood DEF Abort, Busy
  <2> QED
    BY <1>3, <2>1, RunKeeps DEF Abort
<1> QED
  BY <1>1, <1>2, <1>3

LEMMA EvictKeeps ==
  ASSUME IInv, NEW b \in Blocks, Evict(b)
  PROVE  IInv'
<1> DEFINE u == [FlushBuf(m, b) EXCEPT !.buf[b] = NoBuf]
<1>1. Good(m) /\ m.buf[b].cached /\ m.buf[b].refs = 0
  BY UpIsGood DEF Evict, Ready
<1>2. Good(u)
  BY <1>1, EvictGood
<1>3. Run(u)
  BY DEF Evict
<1> HIDE DEF u
<1> QED
  BY <1>2, <1>3, RunKeeps

LEMMA FlushKeeps ==
  ASSUME IInv, CacheFlush
  PROVE  IInv'
<1> DEFINE S == {b \in Blocks : m.buf[b].cached /\ m.buf[b].dirty /\ m.buf[b].refs = 0}
           q == SetToSeq(S)
           u == AllFlushBuf(m, q)
<1>1. Good(m)
  BY UpIsGood DEF CacheFlush, Ready
<1>2. q \in Seq(S)
  <2>1. IsFiniteSet(Blocks)
    BY JournalAssumption, FS_AddElement DEF Blocks
  <2>2. S \subseteq Blocks
    OBVIOUS
  <2>3. IsFiniteSet(S)
    BY <2>1, <2>2, FS_Subset
  <2> HIDE DEF S
  <2> QED
    BY <2>3, SetToSeqParts
<1>3. Run(u)
  BY DEF CacheFlush, AllFlushBuf
<1>4. S \subseteq {b \in Blocks : m.buf[b].cached /\ m.buf[b].refs = 0}
  OBVIOUS
<1> HIDE DEF S, q
<1>5. Good(u)
  BY <1>1, <1>2, <1>4, FlushedGood
<1> HIDE DEF u
<1> QED
  BY <1>3, <1>5, RunKeeps

LEMMA StepKeeps ==
  ASSUME IInv, [Next]_vars
  PROVE  IInv'
<1>1. CASE Begin \/ Commit \/ Abort
  BY <1>1, CallsKeep
<1>2. CASE CacheFlush
  BY <1>2, FlushKeeps
<1>3. CASE Stop
  BY <1>3, StopKeeps
<1>4. CASE PerformWrite
  BY <1>4, PerformKeeps
<1>5. CASE Crash
  BY <1>5, CrashKeeps
<1>6. CASE Recover
  BY <1>6, RecoverKeeps
<1>7. CASE Open
  BY <1>7, OpenKeeps
<1>8. CASE \E b \in Pool : Free(b)
  BY <1>8, FreeKeeps
<1>9. CASE \E b \in Blocks : Evict(b)
  BY <1>9, EvictKeeps
<1>10. CASE \E b \in Pool, v \in setup.values :
              ChangeMeta(b, v) \/ AllocMeta(b, v) \/ AllocData(b, v)
  BY <1>10, BlockCallsKeep
<1>11. CASE UNCHANGED vars
  <2>1. m' = m /\ setup' = setup /\ io' = io /\ media' = media
    BY <1>11 DEF vars
  <2>2. Told(io)'
    BY <2>1 DEF IInv, Told, IsWrite
  <2>3. (m = Down \/ Good(m))'
    BY <2>1, GoodStays DEF IInv, Down
  <2> QED
    BY <2>1, <2>2, <2>3 DEF IInv
<1> QED
  BY <1>1, <1>2, <1>3, <1>4, <1>5, <1>6, <1>7, <1>8, <1>9, <1>10, <1>11 DEF Next

\* Good memory has no dangling record and no dangling callback.
LEMMA NothingDangles ==
  ASSUME IInv
  PROVE  NoDangling
<1> SUFFICES ASSUME m.up PROVE NoDangling
  BY DEF NoDangling
<1>1. Linked(m, {}, 0, 0)
  BY UpIsGood DEF Good
<1>2. /\ m.cur \in Trans /\ m.cp \in Seq(Trans) /\ \A i \in DOMAIN m.cp : m.cp[i] \in Trans
      /\ m.rec \in [Blocks -> Recs]
  BY <1>1 DEF Linked, Typed
<1>3. ASSUME NEW x \in Waiting(m) PROVE \E t \in Known : t.id = x.t /\ x \in Elems(t.bufs)
  <2>1. CASE x.t = m.cur.id
    <3>1. x \in Elems(m.cur.bufs)
      BY <1>1, <2>1, OwnerOf
    <3> QED
      BY <2>1, <3>1 DEF Known
  <2>2. CASE x.t # m.cur.id
    <3>1. PICK i \in DOMAIN m.cp : m.cp[i].id = x.t /\ x \in Elems(m.cp[i].bufs)
      BY <1>1, <2>2, OwnerOf
    <3> QED
      BY <3>1 DEF Known
  <2> QED
    BY <2>1, <2>2
<1>4. ASSUME NEW t \in Known, NEW i \in DOMAIN t.bufs
      PROVE  \E k \in DOMAIN m.rec[t.bufs[i].lba].queue :
               Key(m.rec[t.bufs[i].lba].queue[k]) = Key(t.bufs[i])
  <2> DEFINE x == t.bufs[i]
  <2>1. t \in Trans
    BY <1>2 DEF Known
  <2>2. x \in Bufs /\ x \in Elems(t.bufs)
    <3>1. t.bufs \in Seq(Bufs)
      BY <2>1 DEF Trans
    <3> QED
      BY <3>1 DEF Elems
  <2> HIDE DEF x
  <2>3. x \in Waiting(m)
    BY <2>2 DEF Waiting, Known
  <2>4. x \in Elems(m.rec[x.lba].queue)
    BY <1>1, <2>3, OwnerOf
  <2>5. \E k \in DOMAIN m.rec[x.lba].queue : Key(m.rec[x.lba].queue[k]) = Key(x)
    BY <2>4 DEF Elems
  <2> QED
    BY <2>5 DEF x
<1>5. ASSUME NEW b \in Blocks, m.rec[b].queue # <<>>
      PROVE  m.rec[b].t \in {t.id : t \in Known}
  <2> DEFINE x == Last(m.rec[b].queue)
  <2>1. x \in Elems(m.rec[b].queue)
    BY <1>1, <1>5, LastOfRecord
  <2>2. m.rec[b].t = x.t
    BY <1>1, <1>5 DEF Linked, Latest, Settles, LatestOwns
  <2> HIDE DEF x
  <2>3. x \in Waiting(m)
    BY <1>1, <2>1, InRecord
  <2> QED
    BY <1>3, <2>2, <2>3
<1>6. ASSUME NEW b \in Blocks, NEW k \in DOMAIN m.rec[b].queue
      PROVE  \E t \in Known : \E i \in DOMAIN t.bufs : t.bufs[i] = m.rec[b].queue[k]
  <2> DEFINE x == m.rec[b].queue[k]
  <2>1. x \in Elems(m.rec[b].queue)
    BY DEF Elems
  <2> HIDE DEF x
  <2>2. x \in Waiting(m)
    BY <1>1, <2>1, InRecord
  <2>3. \E t \in Known : \E i \in DOMAIN t.bufs : t.bufs[i] = x
    BY <1>3, <2>2 DEF Elems
  <2> QED
    BY <2>3 DEF x
<1>7. ASSUME NEW b \in Blocks, m.buf[b].cached, m.buf[b].end # None
      PROVE  \E k \in DOMAIN m.rec[b].queue : Key(m.rec[b].queue[k]) = m.buf[b].end
  BY <1>1, <1>7 DEF Linked, Latest, Settles, EndIsKnown, Elems
<1> QED
  BY <1>4, <1>5, <1>6, <1>7 DEF NoDangling

\* Each buffer that waits for its place is known to the record of its block, each
\* record that is not empty belongs to a transaction in memory, and each callback
\* finds its buffer there: whatever the interleaving of transactions, commits,
\* aborts, evictions, checkpoints, crashes and recoveries, jbd_trans_end_write
\* meets no freed transaction.
THEOREM RecordsStayLinked == Spec => []NoDangling
<1>1. Init => IInv
  BY InitHolds
<1>2. IInv /\ [Next]_vars => IInv'
  BY StepKeeps
<1>3. IInv => NoDangling
  BY NothingDangles
<1> QED
  BY <1>1, <1>2, <1>3, PTL DEF Spec

=============================================================================
