--------------------------- MODULE ScriptRun_proofs ---------------------------
(***************************************************************************)
(* Proofs about a run of a script, for any set of script files: the words   *)
(* of a line are taken apart as they are written, unless there is a         *)
(* quotation mark; a file whose lines are right and whose includes are      *)
(* right is right; and only the steps of such a script are executed.        *)
(***************************************************************************)
EXTENDS ScriptRun, TLAPS, SequenceTheorems, WellFoundedInduction

----------------------------------------------------------------------------
(* Numbers and sequences *)

LEMMA FirstOf ==
  ASSUME NEW T \in SUBSET Nat, T # {}
  PROVE  \E k \in T : \A j \in T : k <= j
<1>1. PICK k \in T : \A j \in T : ~ (<<j, k>> \in OpToRel(<, Nat))
  BY NatLessThanWellFounded, WFMin
<1>2. \A j \in T : ~ (j < k)
  BY <1>1 DEF OpToRel
<1> QED
  BY <1>2

LEMMA AllFromOne ==
  ASSUME NEW S, 1 \in S, \A n \in Nat \ {0} : n \in S => n + 1 \in S
  PROVE  \A n \in Nat \ {0} : n \in S
<1> DEFINE T == {n \in Nat \ {0} : n \notin S}
<1>1. SUFFICES ASSUME T # {} PROVE FALSE
  OBVIOUS
<1>2. T \in SUBSET Nat
  OBVIOUS
<1>3. PICK m \in T : \A j \in T : m <= j
  BY <1>1, <1>2, FirstOf
<1>4. m \in Nat /\ m # 0 /\ m # 1 /\ m \notin S
  BY <1>3
<1>5. m - 1 \in Nat \ {0} /\ m - 1 + 1 = m /\ ~(m <= m - 1)
  BY <1>4
<1>6. m - 1 \in S
  BY <1>3, <1>5
<1> QED
  BY <1>4, <1>5, <1>6

LEMMA AllFromZero ==
  ASSUME NEW S, 0 \in S, \A n \in Nat : n \in S => n + 1 \in S
  PROVE  \A n \in Nat : n \in S
<1> DEFINE T == {n \in Nat : n \notin S}
<1>1. SUFFICES ASSUME T # {} PROVE FALSE
  OBVIOUS
<1>2. T \in SUBSET Nat
  OBVIOUS
<1>3. PICK m \in T : \A j \in T : m <= j
  BY <1>1, <1>2, FirstOf
<1>4. m \in Nat /\ m # 0 /\ m \notin S
  BY <1>3
<1>5. m - 1 \in Nat /\ m - 1 + 1 = m /\ ~(m <= m - 1)
  BY <1>4
<1>6. m - 1 \in S
  BY <1>3, <1>5
<1> QED
  BY <1>4, <1>5, <1>6

----------------------------------------------------------------------------
(* The words of a line *)

NoWords == [args |-> <<>>, open |-> FALSE]

\* What the loop of ExtractArgs makes of the first n words, and what they are.
Scan(line, f, n) ==
  f = [k \in 1 .. n |-> IF k = 1 THEN NoWords ELSE Take(f[k - 1], line[k])]

WordsUpTo(line, f, n) ==
  f = [k \in 1 .. n |-> IF k = 1 THEN <<>>
                        ELSE IF line[k] = Blank THEN f[k - 1]
                        ELSE Append(f[k - 1], line[k])]

LEMMA ScanExists ==
  ASSUME NEW line
  PROVE  \A n \in Nat \ {0} : \E f : Scan(line, f, n)
<1> DEFINE S == {n \in Nat \ {0} : \E f : Scan(line, f, n)}
<1>1. 1 \in S
  <2> DEFINE f == [k \in 1 .. 1 |-> NoWords]
  <2>1. Scan(line, f, 1)
    BY DEF Scan
  <2> QED
    BY <2>1
<1>2. ASSUME NEW n \in Nat \ {0}, n \in S PROVE n + 1 \in S
  <2>1. PICK f : Scan(line, f, n)
    BY <1>2
  <2> DEFINE g == [k \in 1 .. n + 1 |-> IF k = n + 1 THEN Take(f[n], line[n + 1]) ELSE f[k]]
  <2>2. \A k \in 1 .. n : f[k] = IF k = 1 THEN NoWords ELSE Take(f[k - 1], line[k])
    BY <2>1 DEF Scan
  <2>3. \A k \in 1 .. n + 1 : g[k] = IF k = 1 THEN NoWords ELSE Take(g[k - 1], line[k])
    BY <2>2
  <2>4. g = [k \in 1 .. n + 1 |-> g[k]]
    OBVIOUS
  <2>5. Scan(line, g, n + 1)
    BY <2>3, <2>4 DEF Scan
  <2> QED
    BY <2>5
<1> HIDE DEF S
<1>3. \A n \in Nat \ {0} : n \in S
  BY <1>1, <1>2, AllFromOne
<1> QED
  BY <1>3 DEF S

LEMMA WordsExist ==
  ASSUME NEW line
  PROVE  \A n \in Nat \ {0} : \E f : WordsUpTo(line, f, n)
<1> DEFINE S == {n \in Nat \ {0} : \E f : WordsUpTo(line, f, n)}
           Next2(t, w) == IF w = Blank THEN t ELSE Append(t, w)
<1>1. 1 \in S
  <2> DEFINE f == [k \in 1 .. 1 |-> <<>>]
  <2>1. WordsUpTo(line, f, 1)
    BY DEF WordsUpTo
  <2> QED
    BY <2>1
<1>2. ASSUME NEW n \in Nat \ {0}, n \in S PROVE n + 1 \in S
  <2>1. PICK f : WordsUpTo(line, f, n)
    BY <1>2
  <2>2. \A k \in 1 .. n : f[k] = IF k = 1 THEN <<>> ELSE Next2(f[k - 1], line[k])
    BY <2>1 DEF WordsUpTo
  <2> HIDE DEF Next2
  <2> DEFINE g == [k \in 1 .. n + 1 |-> IF k = n + 1 THEN Next2(f[n], line[n + 1]) ELSE f[k]]
  <2>3. \A k \in 1 .. n + 1 : g[k] = IF k = 1 THEN <<>> ELSE Next2(g[k - 1], line[k])
    BY <2>2
  <2>4. g = [k \in 1 .. n + 1 |-> g[k]]
    OBVIOUS
  <2>5. WordsUpTo(line, g, n + 1)
    BY <2>3, <2>4 DEF WordsUpTo, Next2
  <2> QED
    BY <2>5
<1> HIDE DEF S, Next2
<1>3. \A n \in Nat \ {0} : n \in S
  BY <1>1, <1>2, AllFromOne
<1> QED
  BY <1>3 DEF S

LEMMA LineParts ==
  ASSUME NEW line \in Lines
  PROVE  /\ Len(line) \in Nat \ {0}
         /\ \A k \in 1 .. Len(line) : line[k] \in Words
         /\ Head(line) = line[1]
BY EmptySeq DEF Lines

Quoted(words) == \E k \in 1 .. Len(words) : words[k] \in Opening

\* A line is refused for its quotation marks when one of them opens, and else its
\* arguments are its words.
LEMMA ArgsOfLine ==
  ASSUME NEW line \in Lines
  PROVE  /\ Plain(line) \in Seq(Words)
         /\ ExtractArgs(line) = NoArgs => Quoted(Plain(line))
         /\ ExtractArgs(line) # NoArgs => /\ ExtractArgs(line) = Plain(line)
                                         /\ ~Quoted(Plain(line))
<1> DEFINE n == Len(line)
           scan == CHOOSE f : Scan(line, f, n)
           upTo == CHOOSE f : WordsUpTo(line, f, n)
<1>1. n \in Nat \ {0} /\ \A k \in 1 .. n : line[k] \in Words
  BY LineParts
<1>2. Scan(line, scan, n)
  BY <1>1, ScanExists
<1>3. WordsUpTo(line, upTo, n)
  BY <1>1, WordsExist
<1>4. ExtractArgs(line) = IF scan[n].open THEN NoArgs ELSE scan[n].args
  BY DEF ExtractArgs, Scan, NoWords
<1>5. Plain(line) = upTo[n]
  BY DEF Plain, WordsUpTo
<1> HIDE DEF n, scan, upTo
<1>6. /\ scan[1] = NoWords
      /\ \A k \in 1 .. n : k # 1 => scan[k] = Take(scan[k - 1], line[k])
  BY <1>1, <1>2 DEF Scan
<1> DEFINE Then(t, w) == IF w = Blank THEN t ELSE Append(t, w)
<1>7. /\ upTo[1] = <<>>
      /\ \A k \in 1 .. n : k # 1 => upTo[k] = Then(upTo[k - 1], line[k])
  <2>1. upTo = [k \in 1 .. n |-> IF k = 1 THEN <<>> ELSE Then(upTo[k - 1], line[k])]
    BY <1>3 DEF WordsUpTo
  <2> HIDE DEF Then
  <2> QED
    BY <1>1, <2>1
<1> DEFINE Same(x, w) == /\ x.args = w
                         /\ \A j \in 1 .. Len(w) : w[j] \notin Opening
           Fits(x, w) == /\ x \in [args : Seq(Words \cup {Joined}), open : BOOLEAN]
                         /\ w \in Seq(Words)
                         /\ ~x.open => Same(x, w)
                         /\ x.open => Quoted(w)
           S == {k \in Nat \ {0} : k <= n => Fits(scan[k], upTo[k])}
<1>8. 1 \in S
  <2>1. Fits(NoWords, <<>>)
    <3>1. <<>> \in Seq(Words) /\ <<>> \in Seq(Words \cup {Joined})
      OBVIOUS
    <3>2. \A j \in 1 .. Len(<<>>) : FALSE
      OBVIOUS
    <3> QED
      BY <3>1, <3>2 DEF NoWords
  <2> HIDE DEF Fits
  <2> QED
    BY <1>6, <1>7, <2>1
<1>9. ASSUME NEW x, NEW w, Fits(x, w), NEW c \in Words
      PROVE  Fits(Take(x, c), Then(w, c))
  <2>1. /\ x \in [args : Seq(Words \cup {Joined}), open : BOOLEAN]
        /\ w \in Seq(Words)
        /\ ~x.open => Same(x, w)
        /\ x.open => Quoted(w)
    BY <1>9
  <2>6. /\ Append(w, c) \in Seq(Words)
        /\ Quoted(w) \/ c \in Opening => Quoted(Append(w, c))
    <3>1. /\ Append(w, c) \in Seq(Words) /\ Len(Append(w, c)) = Len(w) + 1
          /\ \A j \in 1 .. Len(w) : Append(w, c)[j] = w[j]
          /\ Append(w, c)[Len(w) + 1] = c /\ Len(w) \in Nat
      BY <2>1
    <3>2. ASSUME c \in Opening PROVE Quoted(Append(w, c))
      <4>1. Len(w) + 1 \in 1 .. Len(Append(w, c))
        BY <3>1
      <4> QED
        BY <3>1, <3>2, <4>1 DEF Quoted
    <3>3. ASSUME Quoted(w) PROVE Quoted(Append(w, c))
      <4>1. PICK j \in 1 .. Len(w) : w[j] \in Opening
        BY <3>3 DEF Quoted
      <4>2. j \in 1 .. Len(Append(w, c))
        BY <3>1
      <4> QED
        BY <3>1, <4>1, <4>2 DEF Quoted
    <3> QED
      BY <3>1, <3>2, <3>3
  <2> HIDE DEF Same
  <2>2. CASE c = Blank
    <3>1. Take(x, c) = x
      BY <2>2 DEF Take
    <3> QED
      BY <1>9, <2>2, <3>1
  <2>3. CASE c # Blank /\ ~x.open /\ c \in Opening
    <3>1. Take(x, c) = [x EXCEPT !.open = TRUE]
      BY <2>3 DEF Take
    <3>2. /\ Take(x, c) \in [args : Seq(Words \cup {Joined}), open : BOOLEAN]
          /\ Take(x, c).open
      BY <2>1, <3>1
    <3> QED
      BY <2>3, <2>6, <3>2
  <2>4. CASE c # Blank /\ ~x.open /\ c \notin Opening
    <3>1. Take(x, c) = [x EXCEPT !.args = Append(x.args, c)]
      BY <2>4 DEF Take
    <3>2. x.args = w /\ \A j \in 1 .. Len(w) : w[j] \notin Opening
      BY <2>1, <2>4 DEF Same
    <3>3. /\ Append(w, c) \in Seq(Words)
          /\ \A j \in 1 .. Len(Append(w, c)) : Append(w, c)[j] \notin Opening
      BY <2>1, <2>4, <3>2
    <3>4. Append(x.args, c) \in Seq(Words \cup {Joined})
      BY <2>1
    <3>5. /\ Take(x, c) \in [args : Seq(Words \cup {Joined}), open : BOOLEAN]
          /\ Take(x, c).args = Append(w, c) /\ ~Take(x, c).open
      BY <2>1, <2>4, <3>1, <3>2, <3>4
    <3> QED
      BY <2>4, <3>3, <3>5 DEF Same
  <2>5. CASE c # Blank /\ x.open
    <3>1. Take(x, c) = x \/ Take(x, c) = [x EXCEPT !.args = Append(x.args, Joined)]
      BY <2>5 DEF Take
    <3>2. Append(x.args, Joined) \in Seq(Words \cup {Joined})
      BY <2>1
    <3>3. /\ Take(x, c) \in [args : Seq(Words \cup {Joined}), open : BOOLEAN]
          /\ Take(x, c).open
      BY <2>1, <2>5, <3>1, <3>2
    <3> QED
      BY <2>1, <2>5, <2>6, <3>3
  <2> QED
    BY <2>1, <2>2, <2>3, <2>4, <2>5
<1>10. ASSUME NEW k \in Nat \ {0}, k \in S PROVE k + 1 \in S
  <2> SUFFICES ASSUME k + 1 <= n PROVE Fits(scan[k + 1], upTo[k + 1])
    OBVIOUS
  <2>1. k <= n /\ k + 1 \in 1 .. n /\ k + 1 # 1 /\ (k + 1) - 1 = k
    BY <1>1
  <2>2. Fits(scan[k], upTo[k])
    BY <1>10, <2>1
  <2> HIDE DEF Fits, S, Then
  <2>3. scan[k + 1] = Take(scan[k], line[k + 1])
    BY <1>6, <2>1
  <2>4. upTo[k + 1] = Then(upTo[k], line[k + 1])
    BY <1>7, <2>1
  <2>5. line[k + 1] \in Words
    BY <1>1, <2>1
  <2> QED
    BY <1>9, <2>2, <2>3, <2>4, <2>5
<1> HIDE DEF Fits
<1>11. n \in S
  <2>1. \A k \in Nat \ {0} : k \in S => k + 1 \in S
    BY <1>10
  <2> HIDE DEF S
  <2> QED
    BY <1>1, <1>8, <2>1, AllFromOne
<1>12. Fits(scan[n], upTo[n])
  BY <1>1, <1>11
<1> HIDE DEF S, Then
<1>13. /\ scan[n].args \in Seq(Words \cup {Joined}) /\ scan[n].open \in BOOLEAN
       /\ upTo[n] \in Seq(Words)
       /\ ~scan[n].open => scan[n].args = upTo[n] /\ ~Quoted(upTo[n])
       /\ scan[n].open => Quoted(upTo[n])
  BY <1>12 DEF Fits, Quoted
<1>14. scan[n].open <=> ExtractArgs(line) = NoArgs
  BY <1>4, <1>13, WordsAssumption
<1> QED
  BY <1>4, <1>5, <1>13, <1>14

LEMMA ArgsArePlain ==
  ASSUME NEW line \in Lines, ExtractArgs(line) # NoArgs
  PROVE  /\ ExtractArgs(line) = Plain(line)
         /\ Plain(line) \in Seq(Words)
         /\ \A k \in 1 .. Len(Plain(line)) : Plain(line)[k] \notin Opening
BY ArgsOfLine DEF Quoted

----------------------------------------------------------------------------
(* Files and what they include *)

LEMMA DetectPathResult ==
  ASSUME NEW f, NEW w
  PROVE  DetectPath(f, w) \in DOMAIN disk \cup {Missing}
BY DEF DetectPath

LEMMA IncludedFiles ==
  ASSUME NEW f, NEW l
  PROVE  Included(f, l) \subseteq DOMAIN disk
BY DetectPathResult DEF Included

\* What f reaches is closed, and has what f includes.
LEMMA BelowParts ==
  ASSUME NEW f
  PROVE  /\ Below(f) \subseteq DOMAIN disk
         /\ Closed(Below(f))
         /\ \A l \in DOMAIN disk[f] : Included(f, l) \subseteq Below(f)
<1>1. Below(f) \subseteq DOMAIN disk
  BY DEF Below
<1>2. ASSUME NEW h \in Below(f), NEW l \in DOMAIN disk[h], NEW g \in Included(h, l)
      PROVE  g \in Below(f)
  <2>1. g \in DOMAIN disk
    BY IncludedFiles
  <2>2. ASSUME NEW S \in SUBSET DOMAIN disk, Closed(S),
               \A k \in DOMAIN disk[f] : Included(f, k) \subseteq S
        PROVE  g \in S
    <3>1. h \in S
      BY <2>2 DEF Below
    <3> QED
      BY <2>2, <3>1 DEF Closed
  <2> QED
    BY <2>1, <2>2 DEF Below
<1>3. ASSUME NEW l \in DOMAIN disk[f], NEW g \in Included(f, l)
      PROVE  g \in Below(f)
  BY IncludedFiles DEF Below
<1> QED
  BY <1>1, <1>2, <1>3 DEF Closed

\* Each closed set with what f includes has all that f reaches.
LEMMA BelowIsLeast ==
  ASSUME NEW f, NEW S \in SUBSET DOMAIN disk, Closed(S),
         \A l \in DOMAIN disk[f] : Included(f, l) \subseteq S
  PROVE  Below(f) \subseteq S
BY DEF Below

LEMMA BelowOfBelow ==
  ASSUME NEW f, NEW g \in Below(f)
  PROVE  Below(g) \subseteq Below(f)
<1>1. /\ Below(f) \subseteq DOMAIN disk /\ Closed(Below(f))
      /\ \A l \in DOMAIN disk[g] : Included(g, l) \subseteq Below(f)
  BY BelowParts DEF Closed
<1> QED
  BY <1>1, BelowIsLeast

\* What f reaches is what it includes and what that reaches.
LEMMA BelowThroughIncluded ==
  ASSUME NEW f, NEW h \in Below(f)
  PROVE  \E l \in DOMAIN disk[f] : \E g \in Included(f, l) : h = g \/ h \in Below(g)
<1> DEFINE S == {x \in DOMAIN disk : \E l \in DOMAIN disk[f] : \E g \in Included(f, l) :
                                       x = g \/ x \in Below(g)}
<1>1. Closed(S)
  <2> SUFFICES ASSUME NEW x \in S, NEW k \in DOMAIN disk[x], NEW y \in Included(x, k)
               PROVE  y \in S
    BY DEF Closed
  <2>1. PICK l \in DOMAIN disk[f] : \E g \in Included(f, l) : x = g \/ x \in Below(g)
    OBVIOUS
  <2>2. PICK g \in Included(f, l) : x = g \/ x \in Below(g)
    BY <2>1
  <2>3. y \in Below(g)
    BY <2>2, BelowParts DEF Closed
  <2>4. y \in DOMAIN disk
    BY IncludedFiles
  <2> QED
    BY <2>3, <2>4
<1>2. \A l \in DOMAIN disk[f] : Included(f, l) \subseteq S
  BY IncludedFiles
<1>3. S \in SUBSET DOMAIN disk
  OBVIOUS
<1> HIDE DEF S
<1>4. h \in S
  BY <1>1, <1>2, <1>3, BelowIsLeast
<1> QED
  BY <1>4 DEF S

----------------------------------------------------------------------------
(* Right files *)

\* f and all it reaches have no wrong line and do not reach themselves.
Good(f) == \A h \in {f} \cup Below(f) : /\ h \notin Below(h)
                                        /\ \A l \in DOMAIN disk[h] : ~Wrong(h, l)

\* A file is right when its lines are and what it includes is.
LEMMA GoodFromIncluded ==
  ASSUME NEW f, \A l \in DOMAIN disk[f] : ~Wrong(f, l) /\ \A g \in Included(f, l) : Good(g)
  PROVE  Good(f)
<1>1. ASSUME NEW h \in Below(f) PROVE \E g : Good(g) /\ g \in Below(f) /\ h \in {g} \cup Below(g)
  <2>1. PICK l \in DOMAIN disk[f] : \E g \in Included(f, l) : h = g \/ h \in Below(g)
    BY BelowThroughIncluded
  <2>2. PICK g \in Included(f, l) : h = g \/ h \in Below(g)
    BY <2>1
  <2>3. Good(g) /\ g \in Below(f)
    BY BelowParts
  <2> QED
    BY <2>2, <2>3
<1>2. \A h \in Below(f) : h \notin Below(h) /\ \A l \in DOMAIN disk[h] : ~Wrong(h, l)
  BY <1>1 DEF Good
<1>3. f \notin Below(f)
  BY <1>2
<1> QED
  BY <1>2, <1>3 DEF Good

LEMMA RightMeansGood == Good(Main) => RunsOnlyWhatIsRight
BY DEF Good, RunsOnlyWhatIsRight

\* The files stay as they are, and so does what is said of them.
LEMMA GoodStays ==
  ASSUME disk' = disk
  PROVE  /\ \A f : Good(f)' <=> Good(f)
         /\ \A f, l : Wrong(f, l)' <=> Wrong(f, l)
         /\ \A f, l : Included(f, l)' = Included(f, l)
BY DEF Good, Below, Closed, Included, Wrong, DetectPath

----------------------------------------------------------------------------
(* The calls of Parse *)

Frames == [file : DOMAIN disk, at : Nat \ {0}]

LEMMA HereParts ==
  ASSUME TypeOK, stack # <<>>
  PROVE  /\ Len(stack) \in Nat \ {0} /\ stack \in Seq(Frames)
         /\ Here = stack[Len(stack)] /\ Here \in Frames
         /\ disk[Here.file] \in Seq(Lines)
<1>1. stack \in Seq(Frames) /\ Len(stack) \in Nat \ {0}
  BY EmptySeq DEF TypeOK, Frames
<1>2. Here = stack[Len(stack)]
  BY DEF Here, Last
<1>3. Here \in Frames
  BY <1>1, <1>2
<1>4. disk[Here.file] \in Seq(Lines)
  BY <1>3, DisksAssumption DEF TypeOK, Frames
<1> QED
  BY <1>1, <1>2, <1>3, <1>4

\* The calls without the innermost.
LEMMA FrontParts ==
  ASSUME TypeOK, stack # <<>>
  PROVE  /\ Front(stack) \in Seq(Frames) /\ Len(Front(stack)) = Len(stack) - 1
         /\ \A k \in 1 .. Len(stack) - 1 : Front(stack)[k] = stack[k]
<1>1. Len(stack) \in Nat \ {0} /\ stack \in Seq(Frames)
  BY HereParts
<1>2. \A i \in 1 .. Len(stack) - 1 : stack[i] \in Frames
  BY <1>1
<1>3. Front(stack) = SubSeq(stack, 1, Len(stack) - 1)
  BY DEF Front
<1> DEFINE n == Len(stack) - 1
<1>4. n \in Nat
  BY <1>1
<1>5. \A i \in 1 .. n : stack[i] \in Frames
  BY <1>2
<1> HIDE DEF n
<1>6. /\ SubSeq(stack, 1, n) \in Seq(Frames) /\ Len(SubSeq(stack, 1, n)) = n
      /\ \A i \in 1 .. n : SubSeq(stack, 1, n)[i] = stack[i]
  BY <1>4, <1>5, SubSeqProperties
<1> QED
  BY <1>3, <1>6 DEF n

\* The calls when the innermost has gone on by a line.
LEMMA CallsParts ==
  ASSUME TypeOK, stack # <<>>
  PROVE  /\ Calls \in Seq(Frames) /\ Len(Calls) = Len(stack)
         /\ \A k \in 1 .. Len(stack) - 1 : Calls[k] = stack[k]
         /\ Calls[Len(stack)].file = Here.file /\ Calls[Len(stack)].at = Here.at + 1
<1> DEFINE c == [Here EXCEPT !.at = @ + 1]
<1>1. Len(stack) \in Nat \ {0} /\ Here \in Frames
  BY HereParts
<1>2. c \in Frames /\ c.file = Here.file /\ c.at = Here.at + 1
  BY <1>1 DEF Frames
<1>3. /\ Front(stack) \in Seq(Frames) /\ Len(Front(stack)) = Len(stack) - 1
      /\ \A k \in 1 .. Len(stack) - 1 : Front(stack)[k] = stack[k]
  BY FrontParts
<1>4. Calls = Front(stack) \o <<c>>
  BY DEF Calls
<1> HIDE DEF c
<1>5. /\ Calls \in Seq(Frames) /\ Len(Calls) = Len(stack)
      /\ \A k \in 1 .. Len(stack) - 1 : Calls[k] = Front(stack)[k]
      /\ Calls[Len(stack)] = c
  BY <1>1, <1>2, <1>3, <1>4
<1> QED
  BY <1>2, <1>3, <1>5

----------------------------------------------------------------------------
(* Types *)

\* The configurations cs are numbered from 0 to at most 3.
Numbered(cs) == DOMAIN cs \in SUBSET Nat /\ \A k \in DOMAIN cs : cs[k].id \in 0 .. 3

LEMMA OneConfig ==
  ASSUME NEW x, NEW i \in 0 .. 3
  PROVE  Numbered(<<Config(i, x)>>)
BY DEF Numbered, Config

LEMMA TwoConfigs ==
  ASSUME NEW x, NEW y, NEW i \in 0 .. 3, NEW j \in 0 .. 3
  PROVE  Numbered(<<Config(i, x), Config(j, y)>>)
BY DEF Numbered, Config

LEMMA ThreeConfigs ==
  ASSUME NEW x, NEW y, NEW z, NEW i \in 0 .. 3, NEW j \in 0 .. 3, NEW k \in 0 .. 3
  PROVE  Numbered(<<Config(i, x), Config(j, y), Config(k, z)>>)
BY DEF Numbered, Config

LEMMA FourConfigs ==
  ASSUME NEW x, NEW y, NEW z, NEW w,
         NEW i \in 0 .. 3, NEW j \in 0 .. 3, NEW k \in 0 .. 3, NEW l \in 0 .. 3
  PROVE  Numbered(<<Config(i, x), Config(j, y), Config(k, z), Config(l, w)>>)
BY DEF Numbered, Config

LEMMA GeneratorsNumbered ==
  ASSUME NEW c \in DOMAIN Generators
  PROVE  Numbered(Generators[c])
<1>1. 0 \in 0 .. 3 /\ 1 \in 0 .. 3 /\ 2 \in 0 .. 3 /\ 3 \in 0 .. 3
  OBVIOUS
<1>2. c \in {"load", "store", "set", "dir", "file", "slink", "rm", "chmod", "chown"}
  BY DEF Generators
<1>3. Numbered(Generators["load"])
  BY <1>1, FourConfigs DEF Generators
<1>4. Numbered(Generators["store"])
  BY <1>1, ThreeConfigs DEF Generators
<1>5. /\ Numbered(Generators["set"]) /\ Numbered(Generators["dir"])
      /\ Numbered(Generators["rm"]) /\ Numbered(Generators["chmod"])
  BY <1>1, OneConfig DEF Generators
<1>6. /\ Numbered(Generators["file"]) /\ Numbered(Generators["slink"])
      /\ Numbered(Generators["chown"])
  BY <1>1, TwoConfigs DEF Generators
<1> QED
  BY <1>2, <1>3, <1>4, <1>5, <1>6

\* A line has arguments of one of the forms of its command.
LEMMA GetArgsResult ==
  ASSUME NEW cmd \in DOMAIN Generators, NEW args, Fitting(cmd, args) # {}
  PROVE  /\ GetArgs(cmd, args) \in ToSet(Generators[cmd])
         /\ Accepts(GetArgs(cmd, args), args)
         /\ GetArgs(cmd, args).id \in 0 .. 3
<1> DEFINE T == Fitting(cmd, args)
           first == CHOOSE k \in T : \A j \in T : k <= j
<1>1. /\ \A c \in DOMAIN Generators : DOMAIN Generators[c] \in SUBSET Nat
      /\ \A c \in DOMAIN Generators : \A k \in DOMAIN Generators[c] : Generators[c][k].id \in 0 .. 3
  BY GeneratorsNumbered DEF Numbered
<1>2. T \in SUBSET Nat
  BY <1>1 DEF Fitting
<1>3. first \in T
  BY <1>2, FirstOf
<1>4. GetArgs(cmd, args) = Generators[cmd][first]
  BY DEF GetArgs
<1> HIDE DEF first
<1>5. first \in DOMAIN Generators[cmd] /\ Accepts(Generators[cmd][first], args)
  BY <1>3 DEF Fitting
<1> QED
  BY <1>1, <1>4, <1>5 DEF ToSet

\* The calls s are of files that are there, each at one of its lines or behind them.
StackOK(s) == /\ s \in Seq(Frames) /\ Len(s) <= MaxDepth
              /\ \A k \in DOMAIN s : s[k].at <= Len(disk[s[k].file]) + 1

Phases == {"parsing", "running", "done", "dead", "overflow"}
StepSet == [cmd : DOMAIN Generators, id : 0 .. 3, file : DOMAIN disk, line : Nat \ {0}]
Places == (DOMAIN disk) \X (Nat \ {0})

LEMMA TypeParts ==
  TypeOK <=> /\ disk \in Disks /\ phase \in Phases /\ StackOK(stack)
             /\ steps \in Seq(StepSet) /\ errors \in Seq(Places)
             /\ hasErrors \in BOOLEAN /\ ran \in 0 .. Len(steps)
BY DEF TypeOK, StackOK, Frames, Phases, StepSet, Places

LEMMA TypeStep ==
  ASSUME TypeOK, disk' = disk, phase' \in Phases, StackOK(stack'),
         steps' \in Seq(StepSet), errors' \in Seq(Places), hasErrors' \in BOOLEAN,
         ran' \in 0 .. Len(steps')
  PROVE  TypeOK'
<1>1. /\ stack' \in Seq([file : DOMAIN disk, at : Nat \ {0}])
      /\ Len(stack') <= MaxDepth
      /\ \A k \in DOMAIN stack' : stack'[k].at <= Len(disk[stack'[k].file]) + 1
  BY DEF StackOK, Frames
<1> QED
  BY <1>1 DEF TypeOK, Phases, StepSet, Places

LEMMA StackNext ==
  ASSUME TypeOK, Reading
  PROVE  StackOK(Calls)
<1>1. stack # <<>> /\ Here.at <= Len(disk[Here.file])
  BY DEF Reading
<1>2. /\ Len(stack) \in Nat \ {0} /\ Here \in Frames
      /\ disk[Here.file] \in Seq(Lines)
  BY <1>1, HereParts
<1>3. /\ Calls \in Seq(Frames) /\ Len(Calls) = Len(stack)
      /\ \A k \in 1 .. Len(stack) - 1 : Calls[k] = stack[k]
      /\ Calls[Len(stack)].file = Here.file /\ Calls[Len(stack)].at = Here.at + 1
  BY <1>1, CallsParts
<1>4. Calls[Len(stack)].at <= Len(disk[Calls[Len(stack)].file]) + 1
  <2>1. Here.at + 1 <= Len(disk[Here.file]) + 1
    BY <1>1, <1>2 DEF Frames
  <2> QED
    BY <1>3, <2>1
<1>5. ASSUME NEW k \in DOMAIN Calls PROVE Calls[k].at <= Len(disk[Calls[k].file]) + 1
  <2>1. k \in 1 .. Len(stack) - 1 \/ k = Len(stack)
    BY <1>2, <1>3
  <2>2. CASE k \in 1 .. Len(stack) - 1
    <3>1. k \in DOMAIN stack /\ Calls[k] = stack[k]
      BY <1>2, <1>3, <2>2, HereParts, <1>1
    <3> QED
      BY <3>1, TypeParts DEF StackOK
  <2> QED
    BY <1>4, <2>1, <2>2
<1> QED
  BY <1>3, <1>5, TypeParts DEF StackOK

LEMMA StackCall ==
  ASSUME TypeOK, Reading, NEW f \in DOMAIN disk, Len(stack) < MaxDepth
  PROVE  /\ StackOK(Calls \o <<Call(f)>>)
         /\ Len(Calls \o <<Call(f)>>) = Len(stack) + 1
         /\ \A k \in 1 .. Len(stack) : (Calls \o <<Call(f)>>)[k] = Calls[k]
         /\ (Calls \o <<Call(f)>>)[Len(stack) + 1].file = f
         /\ (Calls \o <<Call(f)>>)[Len(stack) + 1].at = 1
<1> DEFINE s == Calls \o <<Call(f)>>
           n == Len(stack)
<1>1. StackOK(Calls) /\ stack # <<>>
  BY StackNext DEF Reading
<1>2. n \in Nat \ {0} /\ Calls \in Seq(Frames) /\ Len(Calls) = n
  BY <1>1, HereParts, CallsParts
<1>3. Call(f) \in Frames /\ Call(f).file = f /\ Call(f).at = 1
  BY DEF Call, Frames
<1>4. disk[f] \in Seq(Lines)
  BY DisksAssumption DEF TypeOK
<1>5. Call(f).at <= Len(disk[Call(f).file]) + 1
  BY <1>3, <1>4
<1> HIDE DEF n
<1>6. /\ s \in Seq(Frames) /\ Len(s) = n + 1
      /\ \A k \in 1 .. n : s[k] = Calls[k]
      /\ s[n + 1] = Call(f)
  BY <1>2, <1>3
<1> HIDE DEF s
<1>7. ASSUME NEW k \in DOMAIN s PROVE s[k].at <= Len(disk[s[k].file]) + 1
  <2>1. k \in 1 .. n \/ k = n + 1
    BY <1>2, <1>6
  <2>2. \A j \in 1 .. n : Calls[j].at <= Len(disk[Calls[j].file]) + 1
    BY <1>1, <1>2 DEF StackOK
  <2> QED
    BY <1>5, <1>6, <2>1, <2>2
<1>8. n + 1 <= MaxDepth
  BY <1>2, DisksAssumption DEF n
<1>9. StackOK(s)
  BY <1>6, <1>7, <1>8 DEF StackOK
<1> QED
  BY <1>3, <1>6, <1>9 DEF s, n

LEMMA StackReturn ==
  ASSUME TypeOK, stack # <<>>
  PROVE  StackOK(Front(stack))
<1>1. /\ Len(stack) \in Nat \ {0} /\ stack \in Seq(Frames)
      /\ Front(stack) \in Seq(Frames) /\ Len(Front(stack)) = Len(stack) - 1
      /\ \A k \in 1 .. Len(stack) - 1 : Front(stack)[k] = stack[k]
  BY HereParts, FrontParts
<1>2. ASSUME NEW k \in DOMAIN Front(stack)
      PROVE  Front(stack)[k].at <= Len(disk[Front(stack)[k].file]) + 1
  <2>1. k \in 1 .. Len(stack) - 1 /\ k \in DOMAIN stack
    BY <1>1
  <2> QED
    BY <1>1, <2>1, TypeParts DEF StackOK
<1>3. Len(Front(stack)) <= MaxDepth
  <2>1. Len(stack) <= MaxDepth /\ MaxDepth \in Nat
    BY TypeParts, DisksAssumption DEF StackOK
  <2> QED
    BY <1>1, <2>1
<1> QED
  BY <1>1, <1>2, <1>3 DEF StackOK

LEMMA ComplainTypes ==
  ASSUME TypeOK, Reading, Complain
  PROVE  TypeOK'
<1>1. Here \in Frames
  BY HereParts DEF Reading
<1>2. errors' \in Seq(Places)
  <2>1. <<Here.file, Here.at>> \in Places
    BY <1>1 DEF Frames, Places
  <2> QED
    BY <2>1, TypeParts DEF Complain
<1>3. StackOK(stack')
  BY StackNext DEF Complain
<1> QED
  BY <1>2, <1>3, TypeParts, TypeStep DEF Complain

LEMMA GetTypes ==
  ASSUME TypeOK, Get
  PROVE  TypeOK'
<1>1. Reading /\ Known(Head(Line)) /\ Fitting(Head(Line), Args) # {}
  BY DEF Get, Commands
<1>2. Here \in Frames
  BY <1>1, HereParts DEF Reading
<1>3. CASE phase' = "dead" /\ UNCHANGED <<stack, steps>>
  BY <1>3, TypeParts, TypeStep DEF Get, Phases
<1>4. CASE /\ steps' = Append(steps, StepAt(Here, Line))
           /\ stack' = Calls /\ UNCHANGED phase
  <2>1. StepAt(Here, Line) \in StepSet
    <3>1. GetArgs(Head(Line), ExtractArgs(Line)).id \in 0 .. 3
      BY <1>1, GetArgsResult DEF Known, Args
    <3> QED
      BY <1>1, <1>2, <3>1 DEF StepAt, StepSet, Frames, Known
  <2>2. steps \in Seq(StepSet) /\ ran \in 0 .. Len(steps)
    BY TypeParts
  <2>3. steps' \in Seq(StepSet) /\ Len(steps') = Len(steps) + 1
    BY <1>4, <2>1, <2>2
  <2>4. ran \in 0 .. Len(steps')
    BY <2>2, <2>3
  <2>5. StackOK(stack')
    BY <1>1, <1>4, StackNext
  <2> QED
    BY <1>4, <2>3, <2>4, <2>5, TypeParts, TypeStep DEF Get
<1> QED
  BY <1>3, <1>4 DEF Get

LEMMA IncludeTypes ==
  ASSUME TypeOK, Include
  PROVE  TypeOK'
<1> DEFINE f == DetectPath(Here.file, Args[1])
<1>1. Reading /\ f # Missing
  BY DEF Include, Includes
<1>2. f \in DOMAIN disk
  BY <1>1, DetectPathResult
<1>3. CASE Len(stack) < MaxDepth
  <2>1. stack' = Calls \o <<Call(f)>> /\ UNCHANGED phase
    BY <1>3 DEF Include
  <2> HIDE DEF f
  <2>2. StackOK(stack')
    BY <1>1, <1>2, <1>3, <2>1, StackCall
  <2> QED
    BY <2>1, <2>2, TypeParts, TypeStep DEF Include
<1>4. CASE ~(Len(stack) < MaxDepth)
  <2>1. phase' = "overflow" /\ UNCHANGED stack
    BY <1>4 DEF Include
  <2> QED
    BY <2>1, TypeParts, TypeStep DEF Include, Phases
<1> QED
  BY <1>3, <1>4

LEMMA TypesStay ==
  ASSUME TypeOK, [Next]_vars
  PROVE  TypeOK'
<1>1. CASE Skip
  <2>1. StackOK(stack')
    BY <1>1, StackNext DEF Skip
  <2> QED
    BY <1>1, <2>1, TypeParts, TypeStep DEF Skip
<1>2. CASE BadQuotes \/ BadInclude \/ MissingInclude \/ UnknownCommand \/ BadArguments
  BY <1>2, ComplainTypes DEF BadQuotes, BadInclude, MissingInclude, UnknownCommand,
                             BadArguments, Includes, Commands
<1>3. CASE Return
  <2>1. StackOK(stack')
    BY <1>3, StackReturn DEF Return
  <2>2. phase' \in Phases
    BY <1>3 DEF Return, Phases
  <2> QED
    BY <1>3, <2>1, <2>2, TypeParts, TypeStep DEF Return
<1>4. CASE Run
  <2>1. Len(steps) \in Nat /\ ran \in 0 .. Len(steps) /\ ran < Len(steps) /\ ran' = ran + 1
    BY <1>4, TypeParts DEF Run
  <2>2. ran' \in 0 .. Len(steps)
    BY <2>1
  <2> QED
    BY <1>4, <2>2, TypeParts, TypeStep DEF Run
<1>5. CASE Crash \/ Finish
  BY <1>5, TypeParts, TypeStep DEF Crash, Finish, Phases
<1>6. CASE UNCHANGED vars
  BY <1>6, TypeParts, TypeStep DEF vars
<1> QED
  BY <1>1, <1>2, <1>3, <1>4, <1>5, <1>6, GetTypes, IncludeTypes DEF Next, Parse

LEMMA TypesAtFirst == Init => TypeOK
<1> SUFFICES ASSUME Init PROVE TypeOK
  OBVIOUS
<1>1. /\ steps \in Seq(StepSet) /\ errors \in Seq(Places)
      /\ hasErrors \in BOOLEAN /\ ran \in 0 .. Len(steps)
  <2>1. steps = <<>> /\ errors = <<>> /\ hasErrors = FALSE /\ ran = 0
    BY DEF Init
  <2>2. <<>> \in Seq(StepSet) /\ <<>> \in Seq(Places) /\ Len(<<>>) = 0
    BY EmptySeq
  <2>3. 0 \in 0 .. 0
    OBVIOUS
  <2>4. steps \in Seq(StepSet)
    BY <2>1, <2>2
  <2>5. errors \in Seq(Places)
    BY <2>1, <2>2
  <2>6. hasErrors \in BOOLEAN
    BY <2>1
  <2>7. ran \in 0 .. Len(steps)
    BY <2>1, <2>2, <2>3
  <2> QED
    BY <2>4, <2>5, <2>6, <2>7
<1>3. phase \in Phases /\ disk \in Disks
  BY DEF Init, Phases
<1>2. StackOK(stack)
  <2>1. CASE Main \in DOMAIN disk
    <3>1. stack = <<Call(Main)>>
      BY <2>1 DEF Init
    <3>2. Call(Main) \in Frames /\ Call(Main).file = Main /\ Call(Main).at = 1
      BY <2>1 DEF Call, Frames
    <3>3. disk[Main] \in Seq(Lines)
      BY <2>1, DisksAssumption DEF Init
    <3>4. /\ stack \in Seq(Frames) /\ Len(stack) = 1
          /\ \A k \in DOMAIN stack : stack[k] = Call(Main)
      BY <3>1, <3>2
    <3>5. 1 <= Len(disk[Main]) + 1 /\ 1 <= MaxDepth
      BY <3>3, DisksAssumption
    <3> QED
      BY <3>2, <3>4, <3>5 DEF StackOK
  <2>2. CASE Main \notin DOMAIN disk
    <3>1. stack = <<>> /\ Len(<<>>) = 0 /\ DOMAIN <<>> = {} /\ <<>> \in Seq(Frames)
      BY <2>2, EmptySeq DEF Init
    <3>2. 0 <= MaxDepth
      BY DisksAssumption
    <3> QED
      BY <3>1, <3>2 DEF StackOK
  <2> QED
    BY <2>1, <2>2
<1> QED
  BY <1>1, <1>2, <1>3, TypeParts

----------------------------------------------------------------------------
(* What a line is when the parser does not complain of it *)

LEMMA IncludeIsNoCommand == ~Known("include")
BY DEF Known, Generators

LEMMA SkippedLine ==
  ASSUME Skip
  PROVE  ~Wrong(Here.file, Here.at) /\ Included(Here.file, Here.at) = {}
BY DEF Skip, Wrong, Included, Line

LEMMA IncludeLine ==
  ASSUME TypeOK, Include
  PROVE  /\ ~Wrong(Here.file, Here.at)
         /\ Included(Here.file, Here.at) = {DetectPath(Here.file, Args[1])}
<1>1. /\ Reading /\ ~Skipped(Line) /\ Args # NoArgs /\ Head(Line) = "include"
      /\ Len(Args) = 1 /\ DetectPath(Here.file, Args[1]) # Missing
  BY DEF Include, Includes
<1>2. Line \in Lines
  BY <1>1, HereParts DEF Reading, Line, Frames
<1>3. Args = Plain(Line) /\ \A k \in 1 .. Len(Args) : Args[k] \notin Opening
  BY <1>1, <1>2, ArgsArePlain DEF Args
<1>4. Line = disk[Here.file][Here.at]
  BY DEF Line
<1>5. ~Wrong(Here.file, Here.at)
  BY <1>1, <1>3, <1>4, IncludeIsNoCommand DEF Wrong
<1>6. Included(Here.file, Here.at) = {DetectPath(Here.file, Args[1])}
  <2>1. Plain(Line)[1] \notin Opening
    BY <1>1, <1>3
  <2> QED
    BY <1>1, <1>3, <1>4, <2>1 DEF Included
<1> QED
  BY <1>5, <1>6

LEMMA CommandLine ==
  ASSUME TypeOK, Get
  PROVE  ~Wrong(Here.file, Here.at) /\ Included(Here.file, Here.at) = {}
<1>1. /\ Reading /\ ~Skipped(Line) /\ Args # NoArgs /\ Head(Line) # "include"
      /\ Known(Head(Line)) /\ Fitting(Head(Line), Args) # {}
  BY DEF Get, Commands
<1>2. Line \in Lines
  BY <1>1, HereParts DEF Reading, Line, Frames
<1>3. Args = Plain(Line) /\ \A k \in 1 .. Len(Args) : Args[k] \notin Opening
  BY <1>1, <1>2, ArgsArePlain DEF Args
<1>4. Line = disk[Here.file][Here.at]
  BY DEF Line
<1>5. \E c \in ToSet(Generators[Head(Line)]) : Accepts(c, Args)
  BY <1>1, GetArgsResult DEF Known
<1>6. ~Wrong(Here.file, Here.at)
  BY <1>1, <1>3, <1>4, <1>5 DEF Wrong
<1> QED
  BY <1>1, <1>4, <1>6 DEF Included

----------------------------------------------------------------------------
(* The invariant of the parser *)

\* What has been read of the call k of the calls s is right: the lines and what
\* they include, but for the file that is being read now.
ReadSoFar(s, k) ==
  \A l \in 1 .. s[k].at - 1 :
    /\ ~Wrong(s[k].file, l)
    /\ \A g \in Included(s[k].file, l) :
         Good(g) \/ (k < Len(s) /\ l = s[k].at - 1 /\ g = s[k + 1].file)

ParseInv ==
  /\ TypeOK
  /\ phase = "parsing" /\ ~hasErrors =>
       /\ stack # <<>> => stack[1].file = Main
       /\ \A k \in DOMAIN stack : ReadSoFar(stack, k)
  /\ phase = "running" => Good(Main)

\* One line more of the innermost call.
LEMMA ReadOnNext ==
  ASSUME TypeOK, Reading, \A k \in DOMAIN stack : ReadSoFar(stack, k),
         ~Wrong(Here.file, Here.at),
         NEW s, Len(s) \in Nat, Len(s) >= Len(stack),
         \A k \in 1 .. Len(stack) : s[k] = Calls[k],
         \A g \in Included(Here.file, Here.at) :
           Len(s) > Len(stack) /\ g = s[Len(stack) + 1].file
  PROVE  \A k \in 1 .. Len(stack) : ReadSoFar(s, k)
<1> DEFINE n == Len(stack)
<1>1. n \in Nat \ {0} /\ Here = stack[n] /\ Here \in Frames /\ DOMAIN stack = 1 .. n
  BY HereParts DEF Reading
<1>2. /\ \A k \in 1 .. n - 1 : Calls[k] = stack[k]
      /\ Calls[n].file = Here.file /\ Calls[n].at = Here.at + 1
  BY CallsParts DEF Reading
<1> HIDE DEF n
<1>3. ASSUME NEW k \in 1 .. n - 1 PROVE ReadSoFar(s, k)
  <2>1. /\ k \in 1 .. n /\ k + 1 \in 1 .. n /\ k < n /\ k < Len(s)
    BY <1>1, <1>3 DEF n
  <2>2. s[k] = stack[k]
    BY <1>2, <1>3, <2>1 DEF n
  <2>3. s[k + 1].file = stack[k + 1].file
    <3>1. CASE k + 1 \in 1 .. n - 1
      BY <1>2, <2>1, <3>1 DEF n
    <3>2. CASE k + 1 = n
      BY <1>1, <1>2, <2>1, <3>2 DEF n
    <3> QED
      BY <1>1, <2>1, <3>1, <3>2
  <2>4. ReadSoFar(stack, k)
    BY <1>1, <2>1
  <2> QED
    BY <2>1, <2>2, <2>3, <2>4 DEF ReadSoFar, n
<1>4. ReadSoFar(s, n)
  <2>1. s[n].file = Here.file /\ s[n].at = Here.at + 1 /\ Here.at \in Nat \ {0}
    BY <1>1, <1>2 DEF n, Frames
  <2>2. ReadSoFar(stack, n)
    BY <1>1
  <2>3. \A l \in 1 .. s[n].at - 1 : l \in 1 .. Here.at - 1 \/ l = Here.at
    BY <2>1
  <2>4. ASSUME NEW l \in 1 .. Here.at - 1
        PROVE  ~Wrong(Here.file, l) /\ \A g \in Included(Here.file, l) : Good(g)
    <3>1. ~(n < Len(stack))
      BY <1>1 DEF n
    <3> QED
      BY <1>1, <2>2, <3>1 DEF ReadSoFar
  <2>5. Here.at = s[n].at - 1
    BY <2>1
  <2>6. Len(s) > Len(stack) => n < Len(s)
    BY <1>1 DEF n
  <2> QED
    BY <2>1, <2>3, <2>4, <2>5, <2>6 DEF ReadSoFar, n
<1>5. \A k \in 1 .. n : k \in 1 .. n - 1 \/ k = n
  BY <1>1
<1> QED
  BY <1>3, <1>4, <1>5 DEF n

\* The calls that stay when the innermost comes to its end.
LEMMA ReadOnReturn ==
  ASSUME TypeOK, stack # <<>>, Here.at > Len(disk[Here.file]),
         \A k \in DOMAIN stack : ReadSoFar(stack, k)
  PROVE  /\ Good(Here.file)
         /\ \A k \in 1 .. Len(stack) - 1 : ReadSoFar(Front(stack), k)
<1> DEFINE n == Len(stack)
<1>1. /\ n \in Nat \ {0} /\ Here = stack[n] /\ Here \in Frames /\ DOMAIN stack = 1 .. n
      /\ disk[Here.file] \in Seq(Lines)
  BY HereParts
<1>2. /\ Len(Front(stack)) = n - 1
      /\ \A k \in 1 .. n - 1 : Front(stack)[k] = stack[k]
  BY FrontParts
<1>3. Good(Here.file)
  <2>1. ReadSoFar(stack, n) /\ ~(n < n)
    BY <1>1
  <2>2. ASSUME NEW l \in DOMAIN disk[Here.file] PROVE l \in 1 .. Here.at - 1
    BY <1>1 DEF Frames
  <2>3. \A l \in DOMAIN disk[Here.file] :
          ~Wrong(Here.file, l) /\ \A g \in Included(Here.file, l) : Good(g)
    BY <1>1, <2>1, <2>2 DEF ReadSoFar
  <2> QED
    BY <2>3, GoodFromIncluded
<1> HIDE DEF n
<1>4. ASSUME NEW k \in 1 .. n - 1 PROVE ReadSoFar(Front(stack), k)
  <2>1. k \in 1 .. n /\ (k < n - 1 \/ k + 1 = n) /\ (k < n - 1 => k + 1 \in 1 .. n - 1)
    BY <1>1, <1>4
  <2>2. ReadSoFar(stack, k) /\ Front(stack)[k] = stack[k]
    BY <1>1, <1>2, <2>1
  <2>3. k + 1 = n => stack[k + 1].file = Here.file
    BY <1>1
  <2>4. k < n - 1 => Front(stack)[k + 1] = stack[k + 1]
    BY <1>2, <2>1
  <2> QED
    BY <1>2, <1>3, <2>1, <2>2, <2>3, <2>4 DEF ReadSoFar
<1> QED
  BY <1>3, <1>4 DEF n

LEMMA ReadSoFarStays ==
  ASSUME disk' = disk, NEW k, ReadSoFar(stack', k)
  PROVE  ReadSoFar(stack, k)'
<1>1. /\ \A f : Good(f)' <=> Good(f)
      /\ \A f, l : Wrong(f, l)' <=> Wrong(f, l)
      /\ \A f, l : Included(f, l)' = Included(f, l)
  BY GoodStays
<1> QED
  BY <1>1 DEF ReadSoFar

LEMMA ParseInvAtFirst == Init => ParseInv
<1> SUFFICES ASSUME Init PROVE ParseInv
  OBVIOUS
<1>1. TypeOK /\ phase # "running"
  BY TypesAtFirst DEF Init
<1>2. CASE Main \in DOMAIN disk
  <2>1. stack = <<Call(Main)>>
    BY <1>2 DEF Init
  <2>2. Call(Main).file = Main /\ Call(Main).at = 1
    BY DEF Call
  <2>3. DOMAIN stack = {1} /\ stack[1] = Call(Main)
    BY <2>1
  <2>4. ReadSoFar(stack, 1)
    <3>1. 1 .. stack[1].at - 1 = {}
      BY <2>2, <2>3
    <3> QED
      BY <3>1 DEF ReadSoFar
  <2> QED
    BY <1>1, <2>2, <2>3, <2>4 DEF ParseInv
<1>3. CASE Main \notin DOMAIN disk
  <2>1. phase # "parsing"
    BY <1>3 DEF Init
  <2> QED
    BY <1>1, <2>1 DEF ParseInv
<1> QED
  BY <1>2, <1>3

\* One more line of the innermost call, which asks for no other file.
LEMMA NextLineKeeps ==
  ASSUME ParseInv, TypeOK', Reading, disk' = disk, stack' = Calls, hasErrors' = hasErrors,
         phase' = "parsing",
         ~Wrong(Here.file, Here.at), Included(Here.file, Here.at) = {}
  PROVE  ParseInv'
<1>1. TypeOK /\ phase = "parsing" /\ stack # <<>>
  BY DEF ParseInv, Reading
<1>2. SUFFICES ASSUME ~hasErrors
               PROVE  /\ stack'[1].file = Main
                      /\ \A k \in DOMAIN stack' : ReadSoFar(stack, k)'
  BY DEF ParseInv
<1>3. stack[1].file = Main /\ \A k \in DOMAIN stack : ReadSoFar(stack, k)
  BY <1>1, <1>2 DEF ParseInv
<1> DEFINE n == Len(stack)
<1>4. n \in Nat \ {0} /\ Here = stack[n]
  BY <1>1, HereParts
<1>5. /\ Calls \in Seq(Frames) /\ Len(Calls) = n
      /\ \A k \in 1 .. n - 1 : Calls[k] = stack[k]
      /\ Calls[n].file = Here.file
  BY <1>1, CallsParts
<1>6. \A k \in 1 .. n : ReadSoFar(Calls, k)
  <2>1. Len(Calls) \in Nat /\ Len(Calls) >= Len(stack)
    BY <1>4, <1>5
  <2> QED
    BY <1>1, <1>3, <2>1, ReadOnNext
<1>7. DOMAIN stack' = 1 .. n
  BY <1>5
<1>8. \A k \in DOMAIN stack' : ReadSoFar(stack, k)'
  BY <1>6, <1>7, ReadSoFarStays
<1>9. stack'[1].file = Main
  <2> HIDE DEF n
  <2>1. 1 = n \/ 1 \in 1 .. n - 1
    BY <1>4
  <2>2. Calls[1].file = stack[1].file
    BY <1>4, <1>5, <2>1
  <2> QED
    BY <1>3, <2>2
<1> QED
  BY <1>8, <1>9

LEMMA IncludeKeeps ==
  ASSUME ParseInv, TypeOK', Include
  PROVE  ParseInv'
<1> DEFINE f == DetectPath(Here.file, Args[1])
           n == Len(stack)
<1>1. TypeOK /\ Reading /\ phase = "parsing" /\ stack # <<>> /\ disk' = disk
      /\ hasErrors' = hasErrors
  BY DEF ParseInv, Include, Includes, Reading
<1>2. f \in DOMAIN disk
  BY DetectPathResult DEF Include
<1>3. CASE ~(Len(stack) < MaxDepth)
  <2>1. phase' = "overflow"
    BY <1>3 DEF Include
  <2> QED
    BY <2>1 DEF ParseInv
<1>4. CASE Len(stack) < MaxDepth
  <2> DEFINE s == Calls \o <<Call(f)>>
  <2>1. stack' = s /\ phase' = phase
    BY <1>4 DEF Include
  <2>2. SUFFICES ASSUME ~hasErrors
                 PROVE  /\ stack'[1].file = Main
                        /\ \A k \in DOMAIN stack' : ReadSoFar(stack, k)'
    BY <1>1, <2>1 DEF ParseInv
  <2>3. stack[1].file = Main /\ \A k \in DOMAIN stack : ReadSoFar(stack, k)
    BY <1>1, <2>2 DEF ParseInv
  <2>4. /\ n \in Nat \ {0} /\ Here = stack[n]
        /\ \A k \in 1 .. n - 1 : Calls[k] = stack[k]
        /\ Calls[n].file = Here.file
    BY <1>1, HereParts, CallsParts
  <2>5. ~Wrong(Here.file, Here.at) /\ Included(Here.file, Here.at) = {f}
    BY <1>1, IncludeLine
  <2> HIDE DEF f
  <2>6. /\ StackOK(s) /\ Len(s) = n + 1
        /\ \A k \in 1 .. n : s[k] = Calls[k]
        /\ s[n + 1].file = f /\ s[n + 1].at = 1
    BY <1>1, <1>2, <1>4, StackCall
  <2> HIDE DEF s
  <2>7. \A k \in 1 .. n : ReadSoFar(s, k)
    <3>1. Len(s) \in Nat /\ Len(s) >= Len(stack) /\ Len(s) > Len(stack)
      BY <2>4, <2>6
    <3>2. \A g \in Included(Here.file, Here.at) :
            Len(s) > Len(stack) /\ g = s[Len(stack) + 1].file
      BY <2>5, <2>6, <3>1
    <3>3. \A k \in 1 .. Len(stack) : s[k] = Calls[k]
      BY <2>6
    <3> QED
      BY <1>1, <2>3, <2>5, <3>1, <3>2, <3>3, ReadOnNext
  <2>8. ReadSoFar(s, n + 1)
    <3>1. 1 .. s[n + 1].at - 1 = {}
      BY <2>6
    <3> QED
      BY <3>1 DEF ReadSoFar
  <2>9. DOMAIN s = 1 .. n + 1
    BY <2>6 DEF StackOK
  <2>10. \A k \in DOMAIN s : k \in 1 .. n \/ k = n + 1
    BY <2>4, <2>9
  <2>11. \A k \in DOMAIN stack' : ReadSoFar(stack, k)'
    BY <1>1, <2>1, <2>7, <2>8, <2>10, ReadSoFarStays
  <2>12. stack'[1].file = Main
    <3>1. n \in Nat \ {0}
      BY <2>4
    <3> HIDE DEF n
    <3>2. (1 = n \/ 1 \in 1 .. n - 1) /\ 1 \in 1 .. n
      BY <3>1
    <3> QED
      BY <2>1, <2>3, <2>4, <2>6, <3>2
  <2> QED
    BY <2>11, <2>12
<1> QED
  BY <1>3, <1>4

LEMMA ReturnKeeps ==
  ASSUME ParseInv, TypeOK', Return
  PROVE  ParseInv'
<1> DEFINE n == Len(stack)
<1>1. /\ TypeOK /\ phase = "parsing" /\ stack # <<>> /\ disk' = disk
      /\ Here.at > Len(disk[Here.file]) /\ stack' = Front(stack) /\ hasErrors' = hasErrors
      /\ phase' = IF n > 1 THEN "parsing" ELSE IF hasErrors THEN "done" ELSE "running"
  BY DEF ParseInv, Return
<1>2. CASE hasErrors
  BY <1>1, <1>2 DEF ParseInv
<1>3. CASE ~hasErrors
  <2>1. stack[1].file = Main /\ \A k \in DOMAIN stack : ReadSoFar(stack, k)
    BY <1>1, <1>3 DEF ParseInv
  <2>2. /\ Good(Here.file) /\ \A k \in 1 .. n - 1 : ReadSoFar(Front(stack), k)
    BY <1>1, <2>1, ReadOnReturn
  <2>3. /\ n \in Nat \ {0} /\ Here = stack[n]
        /\ Front(stack) \in Seq(Frames) /\ Len(Front(stack)) = n - 1
        /\ \A k \in 1 .. n - 1 : Front(stack)[k] = stack[k]
    BY <1>1, HereParts, FrontParts
  <2>4. \A k \in DOMAIN stack' : ReadSoFar(stack, k)'
    <3>1. DOMAIN stack' = 1 .. n - 1
      BY <1>1, <2>3
    <3> QED
      BY <1>1, <2>2, <3>1, ReadSoFarStays
  <2>5. CASE n = 1
    <3>1. Good(Main)'
      BY <1>1, <2>1, <2>2, <2>3, <2>5, GoodStays
    <3>2. phase' = "running"
      BY <1>1, <1>3, <2>5
    <3> QED
      BY <3>1, <3>2 DEF ParseInv
  <2>6. CASE n > 1
    <3>1. stack'[1].file = Main
      <4>1. 1 \in 1 .. n - 1
        BY <2>3, <2>6
      <4> QED
        BY <1>1, <2>1, <2>3, <4>1
    <3>2. phase' = "parsing"
      BY <1>1, <2>6
    <3> QED
      BY <2>4, <3>1, <3>2 DEF ParseInv
  <2> QED
    BY <2>3, <2>5, <2>6
<1> QED
  BY <1>2, <1>3, TypeParts

LEMMA ParseInvStays ==
  ASSUME ParseInv, [Next]_vars
  PROVE  ParseInv'
<1>1. TypeOK /\ TypeOK'
  BY TypesStay DEF ParseInv
<1>2. CASE Skip
  BY <1>1, <1>2, SkippedLine, NextLineKeeps DEF Skip, Reading
<1>3. CASE Get
  <2>1. Reading /\ phase = "parsing" /\ disk' = disk /\ hasErrors' = hasErrors
    BY <1>3 DEF Get, Commands, Reading
  <2>2. CASE phase' = "dead"
    BY <1>1, <2>2 DEF ParseInv
  <2>3. CASE phase' # "dead"
    <3>1. stack' = Calls /\ phase' = phase
      BY <1>3, <2>3 DEF Get
    <3> QED
      BY <1>1, <1>3, <2>1, <3>1, CommandLine, NextLineKeeps
  <2> QED
    BY <2>2, <2>3
<1>4. CASE BadQuotes \/ BadInclude \/ MissingInclude \/ UnknownCommand \/ BadArguments
  <2>1. phase = "parsing" /\ phase' = phase /\ hasErrors' = TRUE
    BY <1>4 DEF BadQuotes, BadInclude, MissingInclude, UnknownCommand, BadArguments,
                Includes, Commands, Reading, Complain
  <2> QED
    BY <1>1, <2>1 DEF ParseInv
<1>5. CASE Run \/ Crash \/ Finish
  <2>1. disk' = disk /\ phase = "running" /\ phase' # "parsing"
    BY <1>5 DEF Run, Crash, Finish
  <2>2. Good(Main)'
    BY <2>1, GoodStays DEF ParseInv
  <2> QED
    BY <1>1, <2>1, <2>2 DEF ParseInv
<1>6. CASE UNCHANGED vars
  <2>1. /\ disk' = disk /\ stack' = stack /\ phase' = phase /\ hasErrors' = hasErrors
    BY <1>6 DEF vars
  <2>2. Good(Main)' <=> Good(Main)
    BY <2>1, GoodStays
  <2>3. \A k : ReadSoFar(stack, k) => ReadSoFar(stack, k)'
    BY <2>1, ReadSoFarStays
  <2> QED
    BY <1>1, <2>1, <2>2, <2>3 DEF ParseInv
<1> QED
  BY <1>1, <1>2, <1>3, <1>4, <1>5, <1>6, IncludeKeeps, ReturnKeeps DEF Next, Parse

----------------------------------------------------------------------------
(* The text of the script *)

\* The texts that the places S count in, in the part of the call k of s that is
\* behind it.
Part(S, s, k) == Listing(S, Texts(S)[MaxDepth - k], s[k].file)
                        [IF k < Len(s) THEN s[k].at - 2 ELSE s[k].at - 1]

\* The parts of the calls s, one behind the other.
Sums(S, s, p) == /\ p[0] = <<>>
                 /\ \A k \in 1 .. Len(s) : p[k] \in Seq(Spots) /\ p[k] = p[k - 1] \o Part(S, s, k)

InPlace(S, out, s) == \E p : Sums(S, s, p) /\ out = p[Len(s)]

\* Each call but the innermost is behind the line that includes the next one.
Linked(s) == \A k \in 1 .. Len(s) - 1 :
               /\ s[k].at > 1
               /\ Included(s[k].file, s[k].at - 1) = {s[k + 1].file}

StepPlaces == [k \in DOMAIN steps |-> <<steps[k].file, steps[k].line>>]

CountInv ==
  /\ TypeOK
  /\ phase = "parsing" => /\ stack # <<>> /\ stack[1].file = Main /\ Linked(stack)
                          /\ InPlace(Faults, errors, stack)
                          /\ InPlace(Orders, StepPlaces, stack)
  /\ phase \in {"running", "done"} => errors = Listed(Faults) /\ StepPlaces = Listed(Orders)

\* The files stay as they are, and so does their text.
LEMMA TextStays ==
  ASSUME disk' = disk
  PROVE  /\ \A f, l : Included(f, l)' = Included(f, l)
         /\ Spots' = Spots /\ Faults' = Faults /\ Orders' = Orders
         /\ \A S, t, g : Listing(S, t, g)' = Listing(S, t, g)
         /\ \A S : Texts(S)' = Texts(S) /\ Listed(S)' = Listed(S)
<1>1. /\ \A f, l : Included(f, l)' = Included(f, l)
      /\ \A f, l : Wrong(f, l)' <=> Wrong(f, l)
  BY GoodStays
<1>2. Spots' = Spots
  BY DEF Spots
<1>3. Faults' = Faults
  BY <1>1, <1>2 DEF Faults
<1>4. Orders' = Orders
  BY <1>1, <1>2 DEF Orders
<1>5. \A S, t, g, l : Adds(S, t, g, l)' = Adds(S, t, g, l)
  BY DEF Adds, Included, DetectPath
<1>6. \A S, t, g : Listing(S, t, g)' = Listing(S, t, g)
  BY <1>5, ZenonT(60) DEF Listing
<1>7. \A S : Texts(S)' = Texts(S)
  BY <1>6 DEF Texts
<1> QED
  BY <1>1, <1>2, <1>3, <1>4, <1>6, <1>7 DEF Listed

LEMMA CountStays ==
  ASSUME disk' = disk
  PROVE  /\ \A s : Linked(s)' <=> Linked(s)
         /\ \A S, out, s : InPlace(S, out, s)' <=> InPlace(S, out, s)
<1>1. \A S, s, k : Part(S, s, k)' = Part(S, s, k)
  BY TextStays DEF Part
<1>2. \A S, s, p : Sums(S, s, p)' <=> Sums(S, s, p)
  BY <1>1, TextStays DEF Sums
<1> QED
  BY <1>2, TextStays DEF Linked, InPlace

\* There is such a listing.
SumsOf(S, t, g, f, n) ==
  f = [l \in 0 .. n |-> IF l = 0 THEN <<>> ELSE f[l - 1] \o Adds(S, t, g, l)]

LEMMA SumsExist ==
  ASSUME NEW S, NEW t, NEW g
  PROVE  \A n \in Nat : \E f : SumsOf(S, t, g, f, n)
<1> DEFINE N == {n \in Nat : \E f : SumsOf(S, t, g, f, n)}
<1>1. 0 \in N
  <2> DEFINE f == [l \in 0 .. 0 |-> <<>>]
  <2>1. SumsOf(S, t, g, f, 0)
    BY DEF SumsOf
  <2> QED
    BY <2>1
<1>2. ASSUME NEW n \in Nat, n \in N PROVE n + 1 \in N
  <2>1. PICK f : SumsOf(S, t, g, f, n)
    BY <1>2
  <2> DEFINE h == [l \in 0 .. n + 1 |-> IF l = n + 1 THEN f[n] \o Adds(S, t, g, n + 1) ELSE f[l]]
  <2>2. \A l \in 0 .. n : f[l] = IF l = 0 THEN <<>> ELSE f[l - 1] \o Adds(S, t, g, l)
    BY <2>1 DEF SumsOf
  <2>3. \A l \in 0 .. n + 1 : h[l] = IF l = 0 THEN <<>> ELSE h[l - 1] \o Adds(S, t, g, l)
    BY <2>2
  <2>4. h = [l \in 0 .. n + 1 |-> h[l]]
    OBVIOUS
  <2>5. SumsOf(S, t, g, h, n + 1)
    BY <2>3, <2>4 DEF SumsOf
  <2> QED
    BY <2>5
<1> HIDE DEF N
<1>3. \A n \in Nat : n \in N
  BY <1>1, <1>2, AllFromZero
<1> QED
  BY <1>3 DEF N

\* The listing of a file adds line after line.
LEMMA ListingParts ==
  ASSUME TypeOK, NEW S, NEW t, NEW g \in DOMAIN disk
  PROVE  /\ Len(disk[g]) \in Nat
         /\ Listing(S, t, g)[0] = <<>>
         /\ \A l \in 1 .. Len(disk[g]) :
              Listing(S, t, g)[l] = Listing(S, t, g)[l - 1] \o Adds(S, t, g, l)
<1> DEFINE n == Len(disk[g])
           up == CHOOSE f : SumsOf(S, t, g, f, n)
<1>1. n \in Nat
  BY DisksAssumption DEF TypeOK
<1>2. Listing(S, t, g) = up
  BY DEF Listing, SumsOf
<1>3. \E f : SumsOf(S, t, g, f, n)
  BY <1>1, SumsExist
<1>4. SumsOf(S, t, g, up, n)
  BY <1>3
<1> HIDE DEF up, n
<1>5. \A l \in 0 .. n : up[l] = IF l = 0 THEN <<>> ELSE up[l - 1] \o Adds(S, t, g, l)
  BY <1>4 DEF SumsOf
<1>6. up[0] = <<>>
  <2>1. 0 \in 0 .. n
    BY <1>1
  <2> QED
    BY <1>5, <2>1
<1>7. ASSUME NEW l \in 1 .. n PROVE up[l] = up[l - 1] \o Adds(S, t, g, l)
  <2>1. l \in 0 .. n /\ l # 0
    BY <1>1
  <2> QED
    BY <1>5, <2>1
<1> QED
  BY <1>1, <1>2, <1>6, <1>7 DEF n

LEMMA ListingTypes ==
  ASSUME TypeOK, NEW S \in SUBSET Spots, NEW t \in [DOMAIN disk -> Seq(Spots)], NEW g \in DOMAIN disk
  PROVE  \A l \in 0 .. Len(disk[g]) : Listing(S, t, g)[l] \in Seq(Spots)
<1> DEFINE n == Len(disk[g])
           f == Listing(S, t, g)
           T == {l \in Nat : l <= n => f[l] \in Seq(Spots)}
<1>1. n \in Nat /\ f[0] = <<>> /\ \A l \in 1 .. n : f[l] = f[l - 1] \o Adds(S, t, g, l)
  BY ListingParts
<1>2. ASSUME NEW l \in 1 .. n PROVE Adds(S, t, g, l) \in Seq(Spots)
  <2> DEFINE a == IF <<g, l>> \in S THEN <<<<g, l>>>> ELSE <<>>
             b == IF Included(g, l) = {} THEN <<>> ELSE t[CHOOSE h \in Included(g, l) : TRUE]
  <2>1. a \in Seq(Spots)
    BY EmptySeq
  <2>2. b \in Seq(Spots)
    BY IncludedFiles, EmptySeq
  <2>3. Adds(S, t, g, l) = a \o b
    BY DEF Adds
  <2> HIDE DEF a, b
  <2> QED
    BY <2>1, <2>2, <2>3
<1> HIDE DEF n, f
<1>3. 0 \in T
  BY <1>1, EmptySeq
<1>4. ASSUME NEW l \in Nat, l \in T PROVE l + 1 \in T
  <2>1. SUFFICES ASSUME l + 1 <= n PROVE f[l + 1] \in Seq(Spots)
    OBVIOUS
  <2> DEFINE k == l + 1
  <2>2. k \in 1 .. n /\ k - 1 = l /\ l <= n
    BY <1>1, <2>1
  <2>3. f[l] \in Seq(Spots)
    BY <1>4, <2>2
  <2> HIDE DEF k
  <2>4. f[k] = f[l] \o Adds(S, t, g, k)
    BY <1>1, <2>2
  <2>5. Adds(S, t, g, k) \in Seq(Spots)
    BY <1>2, <2>2
  <2>6. f[k] \in Seq(Spots)
    BY <2>3, <2>4, <2>5
  <2> QED
    BY <2>6 DEF k
<1>5. \A l \in Nat : l \in T
  <2> HIDE DEF T
  <2> QED
    BY <1>3, <1>4, AllFromZero
<1> QED
  BY <1>1, <1>5 DEF n, f

\* There are such texts.
TextsOf(S, f, n) ==
  f = [d \in 0 .. n |-> [g \in DOMAIN disk |->
         IF d = 0 THEN <<>> ELSE Listing(S, f[d - 1], g)[Len(disk[g])]]]

Deeper(S, t) == [g \in DOMAIN disk |-> Listing(S, t, g)[Len(disk[g])]]
Nothing == [g \in DOMAIN disk |-> <<>>]

LEMMA TextsSteps ==
  ASSUME NEW S, NEW n \in Nat, NEW f
  PROVE  TextsOf(S, f, n) <=> f = [d \in 0 .. n |-> IF d = 0 THEN Nothing ELSE Deeper(S, f[d - 1])]
<1> DEFINE u == [d \in 0 .. n |-> [g \in DOMAIN disk |->
                  IF d = 0 THEN <<>> ELSE Listing(S, f[d - 1], g)[Len(disk[g])]]]
           v == [d \in 0 .. n |-> IF d = 0 THEN Nothing ELSE Deeper(S, f[d - 1])]
<1>1. ASSUME NEW d \in 0 .. n PROVE u[d] = v[d]
  <2>1. CASE d = 0
    BY <2>1 DEF Nothing
  <2>2. CASE d # 0
    BY <2>2 DEF Deeper
  <2> QED
    BY <2>1, <2>2
<1>2. u = v
  <2>1. u = [d \in 0 .. n |-> u[d]] /\ v = [d \in 0 .. n |-> v[d]]
    OBVIOUS
  <2> HIDE DEF u, v
  <2> QED
    BY <1>1, <2>1
<1>3. TextsOf(S, f, n) <=> f = u
  BY DEF TextsOf
<1> QED
  BY <1>2, <1>3

LEMMA TextsExist ==
  ASSUME NEW S
  PROVE  \A n \in Nat : \E f : TextsOf(S, f, n)
<1> DEFINE Is(f, n) == f = [d \in 0 .. n |-> IF d = 0 THEN Nothing ELSE Deeper(S, f[d - 1])]
           N == {n \in Nat : \E f : Is(f, n)}
<1>1. 0 \in N
  <2> DEFINE f == [d \in 0 .. 0 |-> Nothing]
  <2>1. Is(f, 0)
    OBVIOUS
  <2> QED
    BY <2>1
<1>2. ASSUME NEW n \in Nat, n \in N PROVE n + 1 \in N
  <2>1. PICK f : Is(f, n)
    BY <1>2
  <2> DEFINE h == [d \in 0 .. n + 1 |-> IF d = n + 1 THEN Deeper(S, f[n]) ELSE f[d]]
  <2>2. \A d \in 0 .. n : f[d] = IF d = 0 THEN Nothing ELSE Deeper(S, f[d - 1])
    BY <2>1
  <2>3. \A d \in 0 .. n + 1 : h[d] = IF d = 0 THEN Nothing ELSE Deeper(S, h[d - 1])
    BY <2>2
  <2>4. h = [d \in 0 .. n + 1 |-> h[d]]
    OBVIOUS
  <2>5. Is(h, n + 1)
    BY <2>3, <2>4
  <2> HIDE DEF h, Is
  <2> QED
    BY <2>5
<1> HIDE DEF N
<1>3. \A n \in Nat : n \in N
  BY <1>1, <1>2, AllFromZero
<1>4. \A n \in Nat : \E f : Is(f, n)
  <2> HIDE DEF Is
  <2> QED
    BY <1>3 DEF N
<1>5. ASSUME NEW n \in Nat PROVE \E f : TextsOf(S, f, n)
  <2>1. PICK f : Is(f, n)
    BY <1>4
  <2>2. TextsOf(S, f, n)
    BY <2>1, TextsSteps
  <2> QED
    BY <2>2
<1> QED
  BY <1>5

\* The texts of a depth are those of the depth below it, listed once more.
LEMMA TextsParts ==
  ASSUME NEW S
  PROVE  /\ Texts(S)[0] = Nothing
         /\ \A d \in 1 .. MaxDepth : Texts(S)[d] = Deeper(S, Texts(S)[d - 1])
<1> DEFINE t == CHOOSE f : TextsOf(S, f, MaxDepth)
<1>1. MaxDepth \in Nat
  BY DisksAssumption
<1>2. Texts(S) = t
  BY DEF Texts, TextsOf
<1>3. TextsOf(S, t, MaxDepth)
  BY <1>1, TextsExist
<1> HIDE DEF t
<1>4. t = [d \in 0 .. MaxDepth |-> IF d = 0 THEN Nothing ELSE Deeper(S, t[d - 1])]
  BY <1>1, <1>3, TextsSteps
<1>5. \A d \in 0 .. MaxDepth : t[d] = IF d = 0 THEN Nothing ELSE Deeper(S, t[d - 1])
  BY <1>4
<1>6. t[0] = Nothing
  <2>1. 0 \in 0 .. MaxDepth
    BY <1>1
  <2> QED
    BY <1>5, <2>1
<1>7. ASSUME NEW d \in 1 .. MaxDepth PROVE t[d] = Deeper(S, t[d - 1])
  <2>1. d \in 0 .. MaxDepth /\ d # 0
    BY <1>1
  <2> QED
    BY <1>5, <2>1
<1> QED
  BY <1>2, <1>6, <1>7

LEMMA TextsTypes ==
  ASSUME TypeOK, NEW S \in SUBSET Spots
  PROVE  \A d \in 0 .. MaxDepth : Texts(S)[d] \in [DOMAIN disk -> Seq(Spots)]
<1> DEFINE t == Texts(S)
           N == {d \in Nat : d <= MaxDepth => t[d] \in [DOMAIN disk -> Seq(Spots)]}
<1>1. MaxDepth \in Nat
  BY DisksAssumption
<1>2. t[0] = Nothing /\ \A d \in 1 .. MaxDepth : t[d] = Deeper(S, t[d - 1])
  BY TextsParts
<1> HIDE DEF t
<1>3. 0 \in N
  BY <1>2, EmptySeq DEF Nothing
<1>4. ASSUME NEW e \in Nat, e \in N PROVE e + 1 \in N
  <2>1. SUFFICES ASSUME e + 1 <= MaxDepth PROVE t[e + 1] \in [DOMAIN disk -> Seq(Spots)]
    OBVIOUS
  <2> DEFINE d == e + 1
  <2>2. d \in 1 .. MaxDepth /\ d - 1 = e /\ e <= MaxDepth
    BY <1>1, <2>1
  <2>3. t[e] \in [DOMAIN disk -> Seq(Spots)]
    BY <1>4, <2>2
  <2> HIDE DEF d
  <2>4. t[d] = Deeper(S, t[e])
    BY <1>2, <2>2
  <2>5. ASSUME NEW g \in DOMAIN disk PROVE Listing(S, t[e], g)[Len(disk[g])] \in Seq(Spots)
    <3>1. Len(disk[g]) \in Nat
      BY ListingParts
    <3>2. Len(disk[g]) \in 0 .. Len(disk[g])
      BY <3>1
    <3> QED
      BY <2>3, <3>2, ListingTypes
  <2>6. t[d] \in [DOMAIN disk -> Seq(Spots)]
    BY <2>4, <2>5 DEF Deeper
  <2> QED
    BY <2>6 DEF d
<1>5. \A d \in Nat : d \in N
  <2> HIDE DEF N
  <2> QED
    BY <1>3, <1>4, AllFromZero
<1> QED
  BY <1>1, <1>5 DEF t

LEMMA ThreeInARow ==
  ASSUME NEW T, NEW a \in Seq(T), NEW b \in Seq(T), NEW c \in Seq(T)
  PROVE  (a \o b) \o c = a \o (b \o c) /\ (a \o b) \in Seq(T)
BY ConcatAssociative, ConcatProperties

\* What a line adds: nothing, its place, or the text of the file it brings in.
Own(S, g, l) == IF <<g, l>> \in S THEN <<<<g, l>>>> ELSE <<>>

\* Each file has a text of places.
AreTexts(t) == t \in [DOMAIN disk -> Seq(Spots)]

\* The text f of the lines of g, before line l and behind it.
Grows(S, t, f, g, l) ==
  /\ f[l - 1] \in Seq(Spots) /\ f[l] \in Seq(Spots)
  /\ Included(g, l) = {} => f[l] = f[l - 1] \o Own(S, g, l)
  /\ \A h : Included(g, l) = {h} /\ <<g, l>> \notin S => f[l] = f[l - 1] \o t[h]

LEMMA PartGrows ==
  ASSUME TypeOK, NEW S \in SUBSET Spots, NEW t, AreTexts(t),
         NEW g \in DOMAIN disk, NEW l \in 1 .. Len(disk[g])
  PROVE  Grows(S, t, Listing(S, t, g), g, l)
<1> DEFINE f == Listing(S, t, g)
<1>1. Len(disk[g]) \in Nat /\ f[l] = f[l - 1] \o Adds(S, t, g, l)
  BY ListingParts
<1>2. l \in 0 .. Len(disk[g]) /\ l - 1 \in 0 .. Len(disk[g])
  BY <1>1
<1>5. f[l - 1] \in Seq(Spots) /\ f[l] \in Seq(Spots)
  BY <1>2, ListingTypes DEF AreTexts
<1> HIDE DEF f
<1>6. ASSUME Included(g, l) = {} PROVE f[l] = f[l - 1] \o Own(S, g, l)
  <2>1. Own(S, g, l) \in Seq(Spots)
    BY EmptySeq DEF Own
  <2>2. Adds(S, t, g, l) = Own(S, g, l) \o <<>>
    BY <1>6 DEF Adds, Own
  <2>3. Adds(S, t, g, l) = Own(S, g, l)
    BY <2>1, <2>2
  <2> QED
    BY <1>1, <2>3
<1>7. ASSUME NEW h, Included(g, l) = {h}, <<g, l>> \notin S PROVE f[l] = f[l - 1] \o t[h]
  <2>1. h \in DOMAIN disk /\ (CHOOSE x \in Included(g, l) : TRUE) = h /\ Included(g, l) # {}
    BY <1>7, IncludedFiles
  <2>2. Adds(S, t, g, l) = <<>> \o t[h]
    BY <1>7, <2>1 DEF Adds
  <2>3. t[h] \in Seq(Spots)
    BY <2>1 DEF AreTexts
  <2>4. Adds(S, t, g, l) = t[h]
    BY <2>2, <2>3
  <2> QED
    BY <1>1, <2>4
<1> QED
  BY <1>5, <1>6, <1>7 DEF Grows, f

\* The calls but the innermost keep their parts when it goes on.
LEMMA NextInPlace ==
  ASSUME TypeOK, Reading, NEW S \in SUBSET Spots, NEW out, InPlace(S, out, stack),
         Included(Here.file, Here.at) = {}
  PROVE  InPlace(S, out \o Own(S, Here.file, Here.at), Calls)
<1> DEFINE n == Len(stack)
           o == Own(S, Here.file, Here.at)
<1>1. PICK p : Sums(S, stack, p) /\ out = p[n]
  BY DEF InPlace
<1>2. /\ n \in Nat \ {0} /\ Here = stack[n] /\ Here \in Frames /\ n <= MaxDepth
      /\ Here.at \in 1 .. Len(disk[Here.file])
  BY HereParts, TypeParts DEF Reading, StackOK, Frames
<1>3. /\ Len(Calls) = n /\ \A k \in 1 .. n - 1 : Calls[k] = stack[k]
      /\ Calls[n].file = Here.file /\ Calls[n].at = Here.at + 1
  BY CallsParts DEF Reading
<1>4. /\ p[0] = <<>>
      /\ \A k \in 1 .. n : p[k] \in Seq(Spots) /\ p[k] = p[k - 1] \o Part(S, stack, k)
  BY <1>1 DEF Sums
<1>5. ASSUME NEW k \in 1 .. n - 1 PROVE Part(S, Calls, k) = Part(S, stack, k)
  BY <1>2, <1>3 DEF Part
<1> DEFINE t == Texts(S)[MaxDepth - n]
           f == Listing(S, t, Here.file)
<1>6. Part(S, stack, n) = f[Here.at - 1] /\ Part(S, Calls, n) = f[Here.at]
  <2>1. ~(n < n) /\ Here.at \in Nat /\ Here.at + 1 - 1 = Here.at
    BY <1>2
  <2>2. Part(S, stack, n) = f[Here.at - 1]
    BY <1>2, <2>1 DEF Part
  <2>3. Part(S, Calls, n) = Listing(S, Texts(S)[MaxDepth - n], Calls[n].file)[Calls[n].at - 1]
    BY <1>3, <2>1 DEF Part
  <2> QED
    BY <1>3, <2>1, <2>2, <2>3
<1>7. /\ f[Here.at - 1] \in Seq(Spots) /\ f[Here.at] \in Seq(Spots)
      /\ f[Here.at] = f[Here.at - 1] \o o
  <2>1. MaxDepth - n \in 0 .. MaxDepth /\ Here.file \in DOMAIN disk
    BY <1>2, DisksAssumption DEF Frames
  <2>2. AreTexts(t)
    BY <2>1, TextsTypes DEF AreTexts
  <2>3. Here.at \in 1 .. Len(disk[Here.file])
    BY <1>2
  <2> HIDE DEF t
  <2>4. f = Listing(S, t, Here.file)
    OBVIOUS
  <2> HIDE DEF f
  <2> DEFINE g == Here.file
             l == Here.at
  <2>5. /\ g \in DOMAIN disk /\ l \in 1 .. Len(disk[g]) /\ f = Listing(S, t, g)
        /\ Included(g, l) = {} /\ o = Own(S, g, l)
    BY <2>1, <2>3, <2>4
  <2> HIDE DEF g, l, o
  <2>6. Grows(S, t, f, g, l)
    BY <2>2, <2>5, PartGrows
  <2> QED
    BY <2>5, <2>6 DEF g, l, Grows
<1>8. o \in Seq(Spots)
  <2>1. CASE <<Here.file, Here.at>> \in S
    BY <2>1 DEF Own
  <2>2. CASE <<Here.file, Here.at>> \notin S
    BY <2>2, EmptySeq DEF Own
  <2> QED
    BY <2>1, <2>2
<1> HIDE DEF t, f, o, n
<1> DEFINE q == [k \in 0 .. n |-> IF k = n THEN p[n] \o o ELSE p[k]]
<1>9. /\ q[n] = p[n] \o o /\ \A k \in 0 .. n - 1 : q[k] = p[k]
  BY <1>2
<1> HIDE DEF q
<1>10. q[0] = <<>>
  BY <1>2, <1>4, <1>9
<1>11. ASSUME NEW k \in 1 .. n - 1
       PROVE  q[k] \in Seq(Spots) /\ q[k] = q[k - 1] \o Part(S, Calls, k)
  <2>1. k \in 1 .. n /\ k \in 0 .. n - 1 /\ k - 1 \in 0 .. n - 1
    BY <1>2
  <2> QED
    BY <1>4, <1>5, <1>9, <2>1
<1>12. q[n] \in Seq(Spots) /\ q[n] = q[n - 1] \o Part(S, Calls, n)
  <2>1. n \in 1 .. n /\ n - 1 \in 0 .. n - 1
    BY <1>2
  <2>2. q[n - 1] = p[n - 1] /\ p[n] = p[n - 1] \o f[Here.at - 1] /\ p[n] \in Seq(Spots)
    BY <1>4, <1>6, <1>9, <2>1
  <2>3. p[n - 1] \in Seq(Spots)
    <3>1. n - 1 = 0 \/ n - 1 \in 1 .. n
      BY <1>2
    <3> QED
      BY <1>4, <3>1, EmptySeq
  <2>4. q[n] = (p[n - 1] \o f[Here.at - 1]) \o o
    BY <1>9, <2>2
  <2>5. (p[n - 1] \o f[Here.at - 1]) \o o = p[n - 1] \o (f[Here.at - 1] \o o)
    <3> DEFINE a == p[n - 1]
               b == f[Here.at - 1]
    <3>1. a \in Seq(Spots) /\ b \in Seq(Spots)
      BY <1>7, <2>3
    <3> HIDE DEF a, b
    <3>2. (a \o b) \o o = a \o (b \o o)
      BY <1>8, <3>1, ThreeInARow
    <3> QED
      BY <3>2 DEF a, b
  <2>6. q[n] \in Seq(Spots)
    BY <1>8, <1>9, <2>2
  <2> QED
    BY <1>6, <1>7, <2>2, <2>4, <2>5, <2>6
<1>13. \A k \in 1 .. n : k \in 1 .. n - 1 \/ k = n
  BY <1>2
<1>14. Sums(S, Calls, q)
  BY <1>3, <1>10, <1>11, <1>12, <1>13 DEF Sums, n
<1> QED
  BY <1>1, <1>3, <1>9, <1>14 DEF InPlace, n, o

\* A call that has just begun has read nothing.
LEMMA CallInPlace ==
  ASSUME TypeOK, Reading, NEW S \in SUBSET Spots, NEW out, InPlace(S, out, stack),
         NEW f \in DOMAIN disk, Len(stack) < MaxDepth
  PROVE  InPlace(S, out, Calls \o <<Call(f)>>)
<1> DEFINE n == Len(stack)
           s == Calls \o <<Call(f)>>
<1>1. PICK p : Sums(S, stack, p) /\ out = p[n]
  BY DEF InPlace
<1>2. /\ n \in Nat \ {0} /\ Here = stack[n] /\ Here \in Frames
      /\ Here.at \in 1 .. Len(disk[Here.file])
  BY HereParts DEF Reading, Frames
<1>3. /\ Len(s) = n + 1 /\ s[n + 1].file = f /\ s[n + 1].at = 1
      /\ \A k \in 1 .. n : s[k] = Calls[k]
  BY StackCall
<1>4. /\ \A k \in 1 .. n - 1 : Calls[k] = stack[k]
      /\ Calls[n].file = Here.file /\ Calls[n].at = Here.at + 1
  BY CallsParts DEF Reading
<1>5. /\ p[0] = <<>>
      /\ \A k \in 1 .. n : p[k] \in Seq(Spots) /\ p[k] = p[k - 1] \o Part(S, stack, k)
  BY <1>1 DEF Sums
<1> HIDE DEF s, n
<1>6. ASSUME NEW k \in 1 .. n - 1 PROVE Part(S, s, k) = Part(S, stack, k)
  <2>1. k \in 1 .. n /\ k < n /\ k < n + 1 /\ s[k] = stack[k]
    BY <1>2, <1>3, <1>4
  <2> QED
    BY <1>3, <2>1 DEF Part, n
<1>7. Part(S, s, n) = Part(S, stack, n)
  <2>1. n \in 1 .. n /\ ~(n < n) /\ n < n + 1 /\ (Here.at + 1) - 2 = Here.at - 1
    BY <1>2
  <2>2. s[n].file = stack[n].file /\ s[n].at - 2 = stack[n].at - 1
    BY <1>2, <1>3, <1>4, <2>1
  <2> QED
    BY <1>3, <2>1, <2>2 DEF Part, n
<1>8. Part(S, s, n + 1) = <<>>
  <2>1. ~(n + 1 < n + 1) /\ 1 - 1 = 0
    BY <1>2
  <2>2. Part(S, s, n + 1) = Listing(S, Texts(S)[MaxDepth - (n + 1)], f)[0]
    BY <1>3, <2>1 DEF Part
  <2> QED
    BY <2>2, ListingParts
<1> DEFINE q == [k \in 0 .. n + 1 |-> IF k = n + 1 THEN p[n] ELSE p[k]]
<1>9. /\ q[n + 1] = p[n] /\ \A k \in 0 .. n : q[k] = p[k]
  BY <1>2
<1> HIDE DEF q
<1>10. q[0] = <<>>
  BY <1>2, <1>5, <1>9
<1>11. ASSUME NEW k \in 1 .. n
       PROVE  q[k] \in Seq(Spots) /\ q[k] = q[k - 1] \o Part(S, s, k)
  <2>1. k \in 0 .. n /\ k - 1 \in 0 .. n /\ (k \in 1 .. n - 1 \/ k = n)
    BY <1>2
  <2>2. Part(S, s, k) = Part(S, stack, k)
    BY <1>6, <1>7, <2>1
  <2> QED
    BY <1>5, <1>9, <2>1, <2>2
<1>12. q[n + 1] \in Seq(Spots) /\ q[n + 1] = q[n + 1 - 1] \o Part(S, s, n + 1)
  <2>1. n \in 1 .. n /\ n \in 0 .. n /\ n + 1 - 1 = n
    BY <1>2
  <2>2. p[n] \in Seq(Spots)
    BY <1>5, <2>1
  <2>3. p[n] \o <<>> = p[n]
    BY <2>2, ConcatEmptySeq
  <2> QED
    BY <1>8, <1>9, <2>1, <2>2, <2>3
<1>13. \A k \in 1 .. n + 1 : k \in 1 .. n \/ k = n + 1
  BY <1>2
<1>14. Sums(S, s, q)
  <2>1. ASSUME NEW k \in 1 .. n + 1
        PROVE  q[k] \in Seq(Spots) /\ q[k] = q[k - 1] \o Part(S, s, k)
    <3>1. CASE k = n + 1
      <4>1. k - 1 = n + 1 - 1
        BY <1>2, <3>1
      <4>2. q[k] = q[n + 1] /\ q[k - 1] = q[n + 1 - 1] /\ Part(S, s, k) = Part(S, s, n + 1)
        BY <3>1, <4>1
      <4> QED
        BY <1>12, <4>2
    <3> QED
      BY <1>11, <1>13, <3>1
  <2> QED
    BY <1>3, <1>10, <2>1 DEF Sums
<1>15. out = q[Len(s)]
  BY <1>1, <1>3, <1>9 DEF n
<1>16. InPlace(S, out, s)
  BY <1>14, <1>15 DEF InPlace
<1> QED
  BY <1>16 DEF s

\* What the innermost call has read at its end is the text of its file.
LEMMA WholeFile ==
  ASSUME TypeOK, stack # <<>>, Here.at > Len(disk[Here.file]), NEW S \in SUBSET Spots
  PROVE  Part(S, stack, Len(stack)) = Texts(S)[MaxDepth - Len(stack) + 1][Here.file]
<1> DEFINE n == Len(stack)
<1>1. /\ n \in Nat \ {0} /\ Here = stack[n] /\ Here \in Frames /\ n <= MaxDepth
      /\ disk[Here.file] \in Seq(Lines)
  BY HereParts, TypeParts DEF StackOK
<1>2. Here.at - 1 = Len(disk[Here.file])
  <2>1. Here.at <= Len(disk[Here.file]) + 1
    BY <1>1, TypeParts DEF StackOK
  <2> QED
    BY <1>1, <2>1 DEF Frames
<1>3. Part(S, stack, n) = Listing(S, Texts(S)[MaxDepth - n], Here.file)[Len(disk[Here.file])]
  <2>1. ~(n < n)
    BY <1>1
  <2> QED
    BY <1>1, <1>2, <2>1 DEF Part
<1> DEFINE d == MaxDepth - n + 1
<1>4. d \in 1 .. MaxDepth /\ d - 1 = MaxDepth - n
  BY <1>1, DisksAssumption
<1> HIDE DEF d, n
<1>5. Texts(S)[d] = Deeper(S, Texts(S)[MaxDepth - n])
  BY <1>4, TextsParts
<1>6. Texts(S)[d][Here.file] = Listing(S, Texts(S)[MaxDepth - n], Here.file)[Len(disk[Here.file])]
  BY <1>1, <1>5 DEF Deeper, Frames
<1> QED
  BY <1>3, <1>6 DEF d, n

\* At the end of the script the text is that of the script.
LEMMA EndInPlace ==
  ASSUME TypeOK, stack # <<>>, Len(stack) = 1, Here.at > Len(disk[Here.file]),
         stack[1].file = Main, NEW S \in SUBSET Spots, NEW out, InPlace(S, out, stack)
  PROVE  out = Listed(S)
<1>1. PICK p : Sums(S, stack, p) /\ out = p[1]
  BY DEF InPlace
<1>2. p[0] = <<>> /\ p[1] = p[1 - 1] \o Part(S, stack, 1)
  <2>1. 1 \in 1 .. Len(stack)
    OBVIOUS
  <2>2. /\ p[0] = <<>>
        /\ \A k \in 1 .. Len(stack) : p[k] = p[k - 1] \o Part(S, stack, k)
    BY <1>1 DEF Sums
  <2> QED
    BY <2>1, <2>2, Zenon
<1>3. Here = stack[1] /\ Here.file = Main /\ Main \in DOMAIN disk
  BY HereParts DEF Frames
<1>4. Part(S, stack, 1) = Texts(S)[MaxDepth - 1 + 1][Main]
  BY <1>3, WholeFile
<1>5. MaxDepth - 1 + 1 = MaxDepth /\ MaxDepth \in 0 .. MaxDepth
  BY DisksAssumption
<1>6. Texts(S)[MaxDepth][Main] \in Seq(Spots)
  BY <1>3, <1>5, TextsTypes
<1>7. <<>> \o Texts(S)[MaxDepth][Main] = Texts(S)[MaxDepth][Main]
  BY <1>6, ConcatEmptySeq
<1>8. p[1] = <<>> \o Texts(S)[MaxDepth][Main]
  <2>1. 1 - 1 = 0
    OBVIOUS
  <2> QED
    BY <1>2, <1>4, <1>5, <2>1
<1> QED
  BY <1>1, <1>7, <1>8 DEF Listed

\* Behind an include the text goes on with that of the file it brought in.
LEMMA ReturnInPlace ==
  ASSUME TypeOK, Len(stack) > 1, Here.at > Len(disk[Here.file]), Linked(stack),
         NEW S \in SUBSET Spots, \A x \in S : Included(x[1], x[2]) = {},
         NEW out, InPlace(S, out, stack)
  PROVE  InPlace(S, out, Front(stack))
<1> DEFINE n == Len(stack)
           m == Len(stack) - 1
           s == Front(stack)
<1>1. PICK p : Sums(S, stack, p) /\ out = p[n]
  BY DEF InPlace
<1>2. stack # <<>>
  BY EmptySeq
<1>3. /\ n \in Nat /\ m \in Nat \ {0} /\ n = m + 1 /\ Here = stack[n] /\ Here \in Frames
      /\ n <= MaxDepth
  BY <1>2, HereParts, TypeParts DEF StackOK
<1>4. Len(s) = m /\ \A k \in 1 .. m : s[k] = stack[k]
  BY <1>2, FrontParts
<1>5. /\ p[0] = <<>>
      /\ \A k \in 1 .. n : p[k] \in Seq(Spots) /\ p[k] = p[k - 1] \o Part(S, stack, k)
  BY <1>1 DEF Sums
<1>6. Part(S, stack, n) = Texts(S)[MaxDepth - n + 1][Here.file]
  BY <1>2, WholeFile
<1> DEFINE g == stack[m].file
           l == stack[m].at - 1
           t == Texts(S)[MaxDepth - m]
           f == Listing(S, t, g)
<1>7. /\ g \in DOMAIN disk /\ l \in 1 .. Len(disk[g]) /\ stack[m].at = l + 1
      /\ Included(g, l) = {Here.file}
  <2>1. m \in 1 .. n - 1 /\ m \in DOMAIN stack /\ m + 1 = n
    BY <1>3
  <2>2. stack[m].at > 1 /\ Included(g, l) = {Here.file}
    BY <1>3, <2>1 DEF Linked
  <2>3. stack[m] \in Frames /\ stack[m].at <= Len(disk[g]) + 1
    <3>1. stack \in Seq(Frames) /\ \A k \in DOMAIN stack : stack[k].at <= Len(disk[stack[k].file]) + 1
      BY TypeParts DEF StackOK
    <3> HIDE DEF m, n
    <3> QED
      BY <2>1, <3>1
  <2>4. g \in DOMAIN disk /\ stack[m].at \in Nat
    BY <2>3 DEF Frames
  <2>5. Len(disk[g]) \in Nat
    BY <2>4, DisksAssumption DEF TypeOK
  <2> HIDE DEF g
  <2> QED
    BY <2>2, <2>3, <2>4, <2>5
<1>8. AreTexts(t)
  <2>1. MaxDepth - m \in 0 .. MaxDepth
    BY <1>3, DisksAssumption
  <2> QED
    BY <2>1, TextsTypes DEF AreTexts
<1>9. <<g, l>> \notin S
  <2>1. Included(<<g, l>>[1], <<g, l>>[2]) # {}
    BY <1>7
  <2> QED
    BY <2>1
<1>10. /\ Part(S, stack, m) = f[l - 1] /\ Part(S, s, m) = f[l]
  <2>1. m < n /\ ~(m < m) /\ m \in 1 .. m /\ stack[m].at - 2 = l - 1
    BY <1>3, <1>7
  <2>2. Part(S, stack, m) = f[l - 1]
    BY <2>1 DEF Part
  <2>3. Part(S, s, m) = f[l]
    BY <1>4, <2>1 DEF Part
  <2> QED
    BY <2>2, <2>3
<1>11. MaxDepth - n + 1 = MaxDepth - m
  BY <1>3, DisksAssumption
<1>12. Part(S, stack, n) = t[Here.file]
  BY <1>6, <1>11
<1>13. \A k \in 1 .. m - 1 : Part(S, s, k) = Part(S, stack, k)
  <2>1. ASSUME NEW k \in 1 .. m - 1 PROVE Part(S, s, k) = Part(S, stack, k)
    <3>1. k \in 1 .. m /\ k < m /\ k < n
      BY <1>3
    <3>2. s[k] = stack[k]
      BY <1>4, <3>1
    <3> QED
      BY <1>4, <3>1, <3>2 DEF Part
  <2> QED
    BY <2>1
<1> HIDE DEF t, g, l
<1>14. Grows(S, t, f, g, l)
  BY <1>7, <1>8, PartGrows
<1> HIDE DEF f, s, n, m
<1>15. f[l - 1] \in Seq(Spots) /\ f[l] = f[l - 1] \o t[Here.file] /\ t[Here.file] \in Seq(Spots)
  <2>1. Here.file \in DOMAIN disk
    BY <1>3 DEF Frames
  <2> QED
    BY <1>7, <1>8, <1>9, <1>14, <2>1 DEF Grows, AreTexts
<1> DEFINE q == [k \in 0 .. m |-> IF k = m THEN p[n] ELSE p[k]]
<1>16. q[m] = p[n] /\ \A k \in 0 .. m - 1 : q[k] = p[k]
  BY <1>3
<1> HIDE DEF q
<1>17. q[0] = <<>>
  BY <1>3, <1>5, <1>16
<1>18. ASSUME NEW k \in 1 .. m - 1
       PROVE  q[k] \in Seq(Spots) /\ q[k] = q[k - 1] \o Part(S, s, k)
  <2>1. k \in 1 .. n /\ k \in 0 .. m - 1 /\ k - 1 \in 0 .. m - 1
    BY <1>3
  <2> QED
    BY <1>5, <1>13, <1>16, <2>1
<1>19. q[m] \in Seq(Spots) /\ q[m] = q[m - 1] \o Part(S, s, m)
  <2>1. n \in 1 .. n /\ m \in 1 .. n /\ n - 1 = m /\ m - 1 \in 0 .. m - 1
    BY <1>3
  <2>2. p[n] \in Seq(Spots) /\ p[n] = p[m] \o t[Here.file] /\ p[m] = p[m - 1] \o f[l - 1]
    BY <1>5, <1>10, <1>12, <2>1
  <2>3. p[m - 1] \in Seq(Spots)
    <3>1. m - 1 = 0 \/ m - 1 \in 1 .. n
      BY <1>3
    <3> QED
      BY <1>5, <3>1, EmptySeq
  <2> DEFINE a == p[m - 1]
             b == f[l - 1]
             c == t[Here.file]
  <2>4. a \in Seq(Spots) /\ b \in Seq(Spots) /\ c \in Seq(Spots)
    BY <1>15, <2>3
  <2>5. p[n] = (a \o b) \o c /\ f[l] = b \o c
    BY <1>15, <2>2
  <2> HIDE DEF a, b, c
  <2>6. (a \o b) \o c = a \o (b \o c)
    BY <2>4, ThreeInARow
  <2>7. p[n] = a \o f[l]
    BY <2>5, <2>6
  <2> QED
    BY <1>10, <1>16, <2>1, <2>2, <2>7 DEF a
<1>20. \A k \in 1 .. m : k \in 1 .. m - 1 \/ k = m
  BY <1>3
<1>21. Sums(S, s, q)
  BY <1>4, <1>17, <1>18, <1>19, <1>20 DEF Sums
<1>22. out = q[Len(s)]
  BY <1>1, <1>4, <1>16
<1>23. InPlace(S, out, s)
  BY <1>21, <1>22 DEF InPlace
<1> QED
  BY <1>23 DEF s

----------------------------------------------------------------------------
(* What a line counts as *)

\* A wrong line brings nothing in, and a line that brings something in does not count.
LEMMA WrongBringsNothing ==
  ASSUME NEW f, NEW l, disk[f][l] \in Lines, Wrong(f, l)
  PROVE  Included(f, l) = {}
<1> DEFINE line == disk[f][l]
           args == Plain(line)
<1>1. SUFFICES ASSUME Head(line) = "include", Len(args) = 1, args[1] \notin Opening
               PROVE  DetectPath(f, args[1]) = Missing
  BY DEF Included
<1>2. ~Known(Head(line))
  BY <1>1, IncludeIsNoCommand
<1>3. ~(\E k \in 1 .. Len(args) : args[k] \in Opening)
  BY <1>1
<1> QED
  BY <1>1, <1>2, <1>3 DEF Wrong

LEMMA CountedBringNothing ==
  ASSUME TypeOK
  PROVE  /\ Faults \in SUBSET Spots /\ Orders \in SUBSET Spots
         /\ \A x \in Faults \cup Orders : Included(x[1], x[2]) = {}
<1>1. ASSUME NEW x \in Faults PROVE Included(x[1], x[2]) = {}
  <2>1. x \in Spots /\ Wrong(x[1], x[2])
    BY DEF Faults
  <2>2. x[1] \in DOMAIN disk /\ x[2] \in 1 .. Len(disk[x[1]]) /\ disk[x[1]] \in Seq(Lines)
    BY <2>1, DisksAssumption DEF Spots, TypeOK
  <2>3. disk[x[1]][x[2]] \in Lines
    BY <2>2
  <2> QED
    BY <2>1, <2>3, WrongBringsNothing
<1>2. \A x \in Orders : Included(x[1], x[2]) = {}
  BY DEF Orders
<1> QED
  BY <1>1, <1>2 DEF Faults, Orders

\* The line the innermost call is at is a spot of the script.
LEMMA HereIsASpot ==
  ASSUME TypeOK, Reading
  PROVE  /\ <<Here.file, Here.at>> \in Spots /\ Line \in Lines
         /\ Line = disk[Here.file][Here.at] /\ stack # <<>> /\ phase = "parsing"
<1>1. stack # <<>> /\ Here.at <= Len(disk[Here.file])
  BY DEF Reading
<1>2. Here \in Frames /\ disk[Here.file] \in Seq(Lines)
  BY <1>1, HereParts
<1>3. Here.file \in DOMAIN disk /\ Here.at \in Nat \ {0}
  BY <1>2 DEF Frames
<1> QED
  BY <1>1, <1>2, <1>3 DEF Spots, Line, Reading

\* Whatever the parser complains of is wrong.
LEMMA ComplainedLine ==
  ASSUME TypeOK, BadQuotes \/ BadInclude \/ MissingInclude \/ UnknownCommand \/ BadArguments
  PROVE  Reading /\ Complain /\ Wrong(Here.file, Here.at)
<1>1. Reading /\ Complain /\ ~Skipped(Line)
  BY DEF BadQuotes, BadInclude, MissingInclude, UnknownCommand, BadArguments, Includes, Commands
<1>2. Line \in Lines /\ Line = disk[Here.file][Here.at]
  BY <1>1, HereIsASpot
<1>3. Args = NoArgs => Quoted(Plain(Line))
  BY <1>2, ArgsOfLine DEF Args
<1>4. Args # NoArgs => Args = Plain(Line)
  BY <1>2, ArgsOfLine DEF Args
<1>5. CASE BadQuotes
  BY <1>1, <1>2, <1>3, <1>5 DEF BadQuotes, Wrong, Quoted
<1>6. CASE BadInclude \/ MissingInclude
  BY <1>1, <1>2, <1>4, <1>6 DEF BadInclude, MissingInclude, Includes, Wrong
<1>7. CASE UnknownCommand
  BY <1>1, <1>2, <1>7 DEF UnknownCommand, Commands, Wrong
<1>8. CASE BadArguments
  <2>1. Known(Head(Line)) /\ Args # NoArgs /\ Fitting(Head(Line), Args) = {}
    BY <1>8 DEF BadArguments, Commands
  <2>2. \A c \in ToSet(Generators[Head(Line)]) : ~Accepts(c, Args)
    BY <2>1 DEF Fitting, ToSet
  <2> QED
    BY <1>1, <1>2, <1>4, <2>1, <2>2 DEF Wrong
<1> QED
  BY <1>1, <1>5, <1>6, <1>7, <1>8

----------------------------------------------------------------------------
(* The steps of the parser, counted *)

LEMMA LinkedNext ==
  ASSUME TypeOK, Reading, Linked(stack)
  PROVE  Linked(Calls)
<1> DEFINE n == Len(stack)
<1>1. /\ n \in Nat \ {0} /\ Len(Calls) = n /\ Here = stack[n]
      /\ \A k \in 1 .. n - 1 : Calls[k] = stack[k]
      /\ Calls[n].file = Here.file
  BY HereParts, CallsParts DEF Reading
<1>2. \A k \in 1 .. n - 1 : k + 1 \in 1 .. n - 1 \/ k + 1 = n
  BY <1>1
<1> HIDE DEF n
<1>3. \A k \in 1 .. n - 1 : Calls[k + 1].file = stack[k + 1].file
  BY <1>1, <1>2
<1> QED
  BY <1>1, <1>3 DEF Linked, n

LEMMA LinkedCall ==
  ASSUME TypeOK, Reading, Linked(stack), Len(stack) < MaxDepth, NEW f \in DOMAIN disk,
         Included(Here.file, Here.at) = {f}
  PROVE  Linked(Calls \o <<Call(f)>>)
<1> DEFINE n == Len(stack)
           s == Calls \o <<Call(f)>>
<1>1. n \in Nat \ {0} /\ Len(Calls) = n /\ Here \in Frames
      /\ Calls[n].file = Here.file /\ Calls[n].at = Here.at + 1
  BY HereParts, CallsParts DEF Reading
<1>2. /\ Len(s) = n + 1 /\ s[n + 1].file = f
      /\ \A k \in 1 .. n : s[k] = Calls[k]
  BY StackCall
<1>3. Linked(Calls)
  BY LinkedNext
<1> HIDE DEF s, n
<1>4. ASSUME NEW k \in 1 .. n
      PROVE  s[k].at > 1 /\ Included(s[k].file, s[k].at - 1) = {s[k + 1].file}
  <2>1. CASE k = n
    <3>1. s[n] = Calls[n] /\ Here.at \in Nat \ {0}
      BY <1>1, <1>2 DEF Frames
    <3>2. s[n].at > 1 /\ s[n].at - 1 = Here.at
      BY <1>1, <3>1
    <3> QED
      BY <1>1, <1>2, <2>1, <3>1, <3>2
  <2>2. CASE k # n
    <3>1. k \in 1 .. n - 1 /\ k + 1 \in 1 .. n
      BY <1>1, <2>2
    <3>2. s[k] = Calls[k] /\ s[k + 1] = Calls[k + 1]
      BY <1>2, <3>1
    <3> QED
      BY <1>1, <1>3, <3>1, <3>2 DEF Linked
  <2> QED
    BY <2>1, <2>2
<1>5. Linked(s)
  <2>1. Len(s) - 1 = n
    BY <1>1, <1>2
  <2> QED
    BY <1>4, <2>1 DEF Linked
<1> QED
  BY <1>5 DEF s

LEMMA LinkedReturn ==
  ASSUME TypeOK, stack # <<>>, Linked(stack)
  PROVE  Linked(Front(stack))
<1> DEFINE n == Len(stack)
<1>1. n \in Nat \ {0} /\ Len(Front(stack)) = n - 1 /\ \A k \in 1 .. n - 1 : Front(stack)[k] = stack[k]
  BY HereParts, FrontParts
<1> HIDE DEF n
<1>2. ASSUME NEW k \in 1 .. (n - 1) - 1
      PROVE  k \in 1 .. n - 1 /\ k + 1 \in 1 .. n - 1
  BY <1>1
<1>3. \A k \in 1 .. n - 1 : stack[k].at > 1 /\ Included(stack[k].file, stack[k].at - 1) = {stack[k + 1].file}
  BY DEF Linked, n
<1> QED
  BY <1>1, <1>2, <1>3 DEF Linked

\* What the counts are of the steps and of the errors.
LEMMA PlacesParts ==
  ASSUME TypeOK
  PROVE  /\ errors \in Seq(Places) /\ StepPlaces \in Seq(Places)
         /\ Len(StepPlaces) = Len(steps) /\ steps \in Seq(StepSet)
<1>1. errors \in Seq(Places) /\ steps \in Seq(StepSet)
  BY TypeParts
<1>2. StepPlaces \in [1 .. Len(steps) -> Places] /\ Len(steps) \in Nat
  <2>1. DOMAIN steps = 1 .. Len(steps) /\ Len(steps) \in Nat
    BY <1>1
  <2>2. ASSUME NEW k \in DOMAIN steps PROVE <<steps[k].file, steps[k].line>> \in Places
    <3>1. steps[k] \in StepSet
      BY <1>1
    <3> QED
      BY <3>1 DEF StepSet, Places
  <2> QED
    BY <2>1, <2>2 DEF StepPlaces
<1> QED
  BY <1>1, <1>2

LEMMA CountsNext ==
  ASSUME CountInv, TypeOK', Reading, disk' = disk, stack' = Calls, phase' = "parsing",
         Included(Here.file, Here.at) = {},
         errors' = errors \o Own(Faults, Here.file, Here.at),
         StepPlaces' = StepPlaces \o Own(Orders, Here.file, Here.at)
  PROVE  CountInv'
<1>1. /\ TypeOK /\ stack # <<>> /\ stack[1].file = Main /\ Linked(stack)
      /\ InPlace(Faults, errors, stack) /\ InPlace(Orders, StepPlaces, stack)
  BY DEF CountInv, Reading
<1>2. Faults \in SUBSET Spots /\ Orders \in SUBSET Spots
  BY <1>1, CountedBringNothing
<1>3. InPlace(Faults, errors', Calls)
  BY <1>1, <1>2, NextInPlace
<1>4. InPlace(Orders, StepPlaces', Calls)
  BY <1>1, <1>2, NextInPlace
<1>5. Linked(Calls)
  BY <1>1, LinkedNext
<1>6. Calls # <<>> /\ Calls[1].file = Main
  <2> DEFINE n == Len(stack)
  <2>1. /\ n \in Nat \ {0} /\ Here = stack[n] /\ Calls \in Seq(Frames) /\ Len(Calls) = n
        /\ \A k \in 1 .. n - 1 : Calls[k] = stack[k]
        /\ Calls[n].file = Here.file
    BY <1>1, HereParts, CallsParts
  <2> HIDE DEF n
  <2>2. 1 = n \/ 1 \in 1 .. n - 1
    BY <2>1
  <2>3. Calls[1].file = stack[1].file
    BY <2>1, <2>2
  <2> QED
    BY <1>1, <2>1, <2>3, EmptySeq
<1>7. Faults' = Faults /\ Orders' = Orders
  BY TextStays
<1>8. /\ InPlace(Faults, errors, stack)' <=> InPlace(Faults, errors', Calls)
      /\ InPlace(Orders, StepPlaces, stack)' <=> InPlace(Orders, StepPlaces', Calls)
      /\ Linked(stack)' <=> Linked(Calls)
  BY <1>7, CountStays
<1> QED
  BY <1>3, <1>4, <1>5, <1>6, <1>8 DEF CountInv

LEMMA SkipCounts ==
  ASSUME CountInv, TypeOK', Skip
  PROVE  CountInv'
<1>1. /\ TypeOK /\ Reading /\ disk' = disk /\ stack' = Calls /\ phase' = phase
      /\ errors' = errors /\ steps' = steps
  BY DEF CountInv, Skip
<1>2. phase = "parsing" /\ Line = disk[Here.file][Here.at] /\ Skipped(Line)
  BY <1>1, HereIsASpot DEF Skip
<1>3. Included(Here.file, Here.at) = {} /\ ~Wrong(Here.file, Here.at)
  BY SkippedLine
<1>4. <<Here.file, Here.at>> \notin Faults /\ <<Here.file, Here.at>> \notin Orders
  BY <1>2, <1>3 DEF Faults, Orders
<1>5. errors \o <<>> = errors /\ StepPlaces \o <<>> = StepPlaces
  BY <1>1, PlacesParts, ConcatEmptySeq
<1>6. StepPlaces' = StepPlaces
  BY <1>1 DEF StepPlaces
<1>7. /\ errors' = errors \o Own(Faults, Here.file, Here.at)
      /\ StepPlaces' = StepPlaces \o Own(Orders, Here.file, Here.at)
  BY <1>1, <1>4, <1>5, <1>6 DEF Own
<1> QED
  BY <1>1, <1>2, <1>3, <1>7, CountsNext

LEMMA ComplainCounts ==
  ASSUME CountInv, TypeOK', BadQuotes \/ BadInclude \/ MissingInclude \/ UnknownCommand \/ BadArguments
  PROVE  CountInv'
<1>1. TypeOK /\ Reading /\ Complain /\ Wrong(Here.file, Here.at)
  BY ComplainedLine DEF CountInv
<1>2. /\ disk' = disk /\ stack' = Calls /\ phase' = phase /\ steps' = steps
      /\ errors' = Append(errors, <<Here.file, Here.at>>)
  BY <1>1 DEF Complain
<1>3. /\ phase = "parsing" /\ <<Here.file, Here.at>> \in Spots
      /\ disk[Here.file][Here.at] \in Lines
  BY <1>1, HereIsASpot
<1>4. Included(Here.file, Here.at) = {}
  BY <1>1, <1>3, WrongBringsNothing
<1>5. <<Here.file, Here.at>> \in Faults /\ <<Here.file, Here.at>> \notin Orders
  BY <1>1, <1>3 DEF Faults, Orders
<1>6. StepPlaces' = StepPlaces /\ StepPlaces \o <<>> = StepPlaces
  <2>1. StepPlaces' = StepPlaces
    BY <1>2 DEF StepPlaces
  <2> QED
    BY <1>1, <2>1, PlacesParts, ConcatEmptySeq
<1>7. errors' = errors \o <<<<Here.file, Here.at>>>>
  <2> DEFINE x == <<Here.file, Here.at>>
  <2>1. x \in Places /\ errors \in Seq(Places)
    BY <1>1, <1>3, PlacesParts DEF Spots, Places
  <2> HIDE DEF x
  <2>2. Append(errors, x) = errors \o <<x>>
    BY <2>1
  <2> QED
    BY <1>2, <2>2 DEF x
<1>8. /\ errors' = errors \o Own(Faults, Here.file, Here.at)
      /\ StepPlaces' = StepPlaces \o Own(Orders, Here.file, Here.at)
  BY <1>5, <1>6, <1>7 DEF Own
<1> QED
  BY <1>1, <1>2, <1>3, <1>4, <1>8, CountsNext

LEMMA GetCounts ==
  ASSUME CountInv, TypeOK', Get
  PROVE  CountInv'
<1>1. TypeOK /\ Reading /\ disk' = disk /\ errors' = errors /\ ~Skipped(Line)
  BY DEF CountInv, Get, Commands
<1>2. CASE phase' = "dead"
  BY <1>2 DEF CountInv
<1>3. CASE phase' # "dead"
  <2>1. /\ stack' = Calls /\ phase' = phase /\ steps' = Append(steps, StepAt(Here, Line))
    BY <1>3 DEF Get
  <2>2. /\ phase = "parsing" /\ <<Here.file, Here.at>> \in Spots
        /\ Line = disk[Here.file][Here.at]
    BY <1>1, HereIsASpot
  <2>3. ~Wrong(Here.file, Here.at) /\ Included(Here.file, Here.at) = {}
    BY <1>1, CommandLine
  <2>4. <<Here.file, Here.at>> \notin Faults /\ <<Here.file, Here.at>> \in Orders
    BY <1>1, <2>2, <2>3 DEF Faults, Orders
  <2>5. errors \o <<>> = errors
    BY <1>1, PlacesParts, ConcatEmptySeq
  <2>6. StepPlaces' = StepPlaces \o <<<<Here.file, Here.at>>>>
    <3> DEFINE a == StepAt(Here, Line)
               x == <<Here.file, Here.at>>
               n == Len(steps)
    <3>1. a.file = Here.file /\ a.line = Here.at
      BY DEF StepAt
    <3>2. steps \in Seq(StepSet) /\ StepPlaces \in Seq(Places) /\ Len(StepPlaces) = n /\ n \in Nat
      BY <1>1, PlacesParts
    <3> HIDE DEF a, n
    <3>3. DOMAIN steps = 1 .. n /\ DOMAIN steps' = 1 .. n + 1
      BY <2>1, <3>2 DEF n, a
    <3>4. /\ \A k \in 1 .. n : steps'[k] = steps[k]
          /\ steps'[n + 1] = a
      BY <2>1, <3>2 DEF n, a
    <3>5. StepPlaces' = [k \in 1 .. n + 1 |-> <<steps'[k].file, steps'[k].line>>]
      BY <3>3 DEF StepPlaces
    <3>6. \A k \in 1 .. n : StepPlaces[k] = <<steps[k].file, steps[k].line>>
      BY <3>3 DEF StepPlaces
    <3> HIDE DEF x
    <3>7. StepPlaces \o <<x>> = [k \in 1 .. n + 1 |-> IF k <= n THEN StepPlaces[k] ELSE x]
      <4>1. x \in Places
        BY <2>2 DEF x, Spots, Places
      <4> DEFINE s == StepPlaces
      <4> HIDE DEF s
      <4>2. s \in Seq(Places) /\ Len(s) = n
        BY <3>2 DEF s
      <4>3. s \o <<x>> = [k \in 1 .. n + 1 |-> IF k <= n THEN s[k] ELSE x]
        BY <3>2, <4>1, <4>2
      <4> QED
        BY <4>3 DEF s
    <3>8. ASSUME NEW k \in 1 .. n + 1
          PROVE  <<steps'[k].file, steps'[k].line>> = IF k <= n THEN StepPlaces[k] ELSE x
      <4>1. CASE k <= n
        BY <3>2, <3>4, <3>6, <4>1
      <4>2. CASE ~(k <= n)
        <5>1. k = n + 1
          BY <3>2, <4>2
        <5> QED
          BY <3>1, <3>4, <4>2, <5>1 DEF x
      <4> QED
        BY <4>1, <4>2
    <3>9. StepPlaces' = StepPlaces \o <<x>>
      BY <3>5, <3>7, <3>8
    <3> QED
      BY <3>9 DEF x
  <2>7. /\ errors' = errors \o Own(Faults, Here.file, Here.at)
        /\ StepPlaces' = StepPlaces \o Own(Orders, Here.file, Here.at)
    BY <1>1, <2>4, <2>5, <2>6 DEF Own
  <2> QED
    BY <1>1, <2>1, <2>2, <2>3, <2>7, CountsNext
<1> QED
  BY <1>2, <1>3

LEMMA IncludeCounts ==
  ASSUME CountInv, TypeOK', Include
  PROVE  CountInv'
<1> DEFINE f == DetectPath(Here.file, Args[1])
           s == Calls \o <<Call(f)>>
<1>1. /\ TypeOK /\ Reading /\ disk' = disk /\ errors' = errors /\ steps' = steps
      /\ f \in DOMAIN disk
  BY DetectPathResult DEF CountInv, Include, Includes
<1>2. CASE ~(Len(stack) < MaxDepth)
  <2>1. phase' = "overflow"
    BY <1>2 DEF Include
  <2> QED
    BY <2>1 DEF CountInv
<1>3. CASE Len(stack) < MaxDepth
  <2>1. stack' = s /\ phase' = phase
    BY <1>3 DEF Include
  <2>2. Included(Here.file, Here.at) = {f}
    BY <1>1, IncludeLine
  <2> HIDE DEF f
  <2>3. /\ phase = "parsing" /\ stack # <<>> /\ stack[1].file = Main /\ Linked(stack)
        /\ InPlace(Faults, errors, stack) /\ InPlace(Orders, StepPlaces, stack)
    BY <1>1 DEF CountInv, Reading
  <2>4. Faults \in SUBSET Spots /\ Orders \in SUBSET Spots
    BY <1>1, CountedBringNothing
  <2>5. InPlace(Faults, errors, s) /\ InPlace(Orders, StepPlaces, s)
    BY <1>1, <1>3, <2>3, <2>4, CallInPlace
  <2>6. Linked(s)
    BY <1>1, <1>3, <2>2, <2>3, LinkedCall
  <2>7. s # <<>> /\ s[1].file = Main
    <3> DEFINE n == Len(stack)
    <3>1. /\ n \in Nat \ {0} /\ Here = stack[n]
          /\ \A k \in 1 .. n - 1 : Calls[k] = stack[k]
          /\ Calls[n].file = Here.file
      BY <2>3, <1>1, HereParts, CallsParts
    <3>2. /\ s \in Seq(Frames) /\ Len(s) = n + 1 /\ \A k \in 1 .. n : s[k] = Calls[k]
      BY <1>1, <1>3, StackCall DEF StackOK
    <3> HIDE DEF n, s
    <3>3. (1 = n \/ 1 \in 1 .. n - 1) /\ 1 \in 1 .. n
      BY <3>1
    <3>4. Calls[1].file = stack[1].file /\ s[1] = Calls[1]
      BY <3>1, <3>2, <3>3
    <3>5. Len(s) # 0
      BY <3>1, <3>2
    <3> QED
      BY <2>3, <3>2, <3>4, <3>5, EmptySeq
  <2>8. StepPlaces' = StepPlaces
    BY <1>1 DEF StepPlaces
  <2> HIDE DEF s
  <2>9. Faults' = Faults /\ Orders' = Orders
    BY <1>1, TextStays
  <2>10. /\ InPlace(Faults, errors, stack)' <=> InPlace(Faults, errors, s)
         /\ InPlace(Orders, StepPlaces, stack)' <=> InPlace(Orders, StepPlaces, s)
         /\ Linked(stack)' <=> Linked(s)
    BY <1>1, <2>1, <2>8, <2>9, CountStays
  <2> QED
    BY <2>1, <2>3, <2>5, <2>6, <2>7, <2>10 DEF CountInv
<1> QED
  BY <1>2, <1>3

LEMMA ReturnCounts ==
  ASSUME CountInv, TypeOK', Return
  PROVE  CountInv'
<1> DEFINE n == Len(stack)
           s == Front(stack)
<1>1. /\ TypeOK /\ phase = "parsing" /\ stack # <<>> /\ disk' = disk
      /\ Here.at > Len(disk[Here.file]) /\ stack' = s /\ errors' = errors /\ steps' = steps
      /\ phase' = IF n > 1 THEN "parsing" ELSE IF hasErrors THEN "done" ELSE "running"
  BY DEF CountInv, Return
<1>2. /\ stack[1].file = Main /\ Linked(stack)
      /\ InPlace(Faults, errors, stack) /\ InPlace(Orders, StepPlaces, stack)
  BY <1>1 DEF CountInv
<1>3. /\ Faults \in SUBSET Spots /\ Orders \in SUBSET Spots
      /\ \A x \in Faults : Included(x[1], x[2]) = {}
      /\ \A x \in Orders : Included(x[1], x[2]) = {}
  BY <1>1, CountedBringNothing
<1>4. StepPlaces' = StepPlaces
  BY <1>1 DEF StepPlaces
<1>5. n \in Nat \ {0}
  BY <1>1, HereParts
<1>6. CASE n = 1
  <2>1. errors = Listed(Faults) /\ StepPlaces = Listed(Orders)
    BY <1>1, <1>2, <1>3, <1>6, EndInPlace
  <2>2. Listed(Faults)' = Listed(Faults) /\ Listed(Orders)' = Listed(Orders)
    BY <1>1, TextStays
  <2>3. phase' # "parsing"
    BY <1>1, <1>6
  <2> QED
    BY <1>1, <1>4, <2>1, <2>2, <2>3 DEF CountInv
<1>7. CASE n > 1
  <2>1. InPlace(Faults, errors, s) /\ InPlace(Orders, StepPlaces, s)
    BY <1>1, <1>2, <1>3, <1>7, ReturnInPlace
  <2>2. Linked(s)
    BY <1>1, <1>2, LinkedReturn
  <2>3. s # <<>> /\ s[1].file = Main
    <3>1. Len(s) = n - 1 /\ \A k \in 1 .. n - 1 : s[k] = stack[k]
      BY <1>1, FrontParts
    <3> HIDE DEF n, s
    <3>2. 1 \in 1 .. n - 1 /\ n - 1 # 0
      BY <1>5, <1>7
    <3> QED
      BY <1>2, <3>1, <3>2, EmptySeq
  <2> HIDE DEF s
  <2>4. Faults' = Faults /\ Orders' = Orders
    BY <1>1, TextStays
  <2>5. /\ InPlace(Faults, errors, stack)' <=> InPlace(Faults, errors, s)
        /\ InPlace(Orders, StepPlaces, stack)' <=> InPlace(Orders, StepPlaces, s)
        /\ Linked(stack)' <=> Linked(s)
    BY <1>1, <1>4, <2>4, CountStays
  <2>6. phase' = "parsing"
    BY <1>1, <1>7
  <2> QED
    BY <1>1, <2>1, <2>2, <2>3, <2>5, <2>6 DEF CountInv
<1> QED
  BY <1>5, <1>6, <1>7

\* A script that has just been opened.
LEMMA CountsAtFirst == Init => CountInv
<1> SUFFICES ASSUME Init PROVE CountInv
  OBVIOUS
<1>1. TypeOK /\ phase \notin {"running", "done"}
  BY TypesAtFirst DEF Init
<1>2. CASE Main \in DOMAIN disk
  <2>1. stack = <<Call(Main)>> /\ errors = <<>> /\ steps = <<>>
    BY <1>2 DEF Init
  <2>2. Call(Main).file = Main /\ Call(Main).at = 1
    BY DEF Call
  <2>3. Len(stack) = 1 /\ stack[1] = Call(Main) /\ stack # <<>>
    BY <2>1
  <2>4. StepPlaces = <<>>
    BY <2>1 DEF StepPlaces
  <2>5. Linked(stack)
    <3>1. 1 .. Len(stack) - 1 = {}
      BY <2>3
    <3> QED
      BY <3>1 DEF Linked
  <2>6. ASSUME NEW S PROVE InPlace(S, <<>>, stack)
    <3>1. Part(S, stack, 1) = <<>>
      <4>1. ~(1 < 1) /\ 1 - 1 = 0
        OBVIOUS
      <4>2. Part(S, stack, 1) = Listing(S, Texts(S)[MaxDepth - 1], Main)[0]
        BY <2>2, <2>3, <4>1 DEF Part
      <4> QED
        BY <1>1, <1>2, <4>2, ListingParts
    <3> DEFINE p == [k \in 0 .. 1 |-> <<>>]
    <3>2. p[0] = <<>> /\ p[1] = <<>>
      OBVIOUS
    <3> HIDE DEF p
    <3>3. <<>> \in Seq(Spots) /\ <<>> = <<>> \o <<>>
      BY EmptySeq, ConcatEmptySeq
    <3>4. \A k \in 1 .. 1 : k = 1 /\ k - 1 = 0
      OBVIOUS
    <3>5. Sums(S, stack, p)
      BY <2>3, <3>1, <3>2, <3>3, <3>4 DEF Sums
    <3> QED
      BY <2>3, <3>2, <3>5 DEF InPlace
  <2> QED
    BY <1>1, <2>1, <2>2, <2>3, <2>4, <2>5, <2>6 DEF CountInv
<1>3. CASE Main \notin DOMAIN disk
  <2>1. phase # "parsing"
    BY <1>3 DEF Init
  <2> QED
    BY <1>1, <2>1 DEF CountInv
<1> QED
  BY <1>2, <1>3

LEMMA CountsStay ==
  ASSUME CountInv, [Next]_vars
  PROVE  CountInv'
<1>1. TypeOK /\ TypeOK'
  BY TypesStay DEF CountInv
<1>2. CASE Run \/ Crash \/ Finish
  <2>1. /\ disk' = disk /\ phase = "running" /\ phase' # "parsing"
        /\ errors' = errors /\ steps' = steps
    BY <1>2 DEF Run, Crash, Finish
  <2>2. Listed(Faults)' = Listed(Faults) /\ Listed(Orders)' = Listed(Orders)
    BY <2>1, TextStays
  <2>3. StepPlaces' = StepPlaces
    BY <2>1 DEF StepPlaces
  <2> QED
    BY <1>1, <2>1, <2>2, <2>3 DEF CountInv
<1>3. CASE UNCHANGED vars
  <2>1. /\ disk' = disk /\ stack' = stack /\ phase' = phase /\ errors' = errors
        /\ steps' = steps
    BY <1>3 DEF vars
  <2>2. /\ Listed(Faults)' = Listed(Faults) /\ Listed(Orders)' = Listed(Orders)
        /\ Faults' = Faults /\ Orders' = Orders
    BY <2>1, TextStays
  <2>3. StepPlaces' = StepPlaces
    BY <2>1 DEF StepPlaces
  <2>4. /\ InPlace(Faults, errors, stack)' <=> InPlace(Faults, errors, stack)
        /\ InPlace(Orders, StepPlaces, stack)' <=> InPlace(Orders, StepPlaces, stack)
        /\ Linked(stack)' <=> Linked(stack)
    BY <2>1, <2>2, <2>3, CountStays
  <2> QED
    BY <1>1, <2>1, <2>2, <2>3, <2>4 DEF CountInv
<1> QED
  BY <1>1, <1>2, <1>3, SkipCounts, ComplainCounts, GetCounts, IncludeCounts, ReturnCounts
     DEF Next, Parse

----------------------------------------------------------------------------

\* Every state of a run has its type: no call stands beyond its file's lines, no
\* more calls than the stack has room for, no more steps run than there are
\* (ScriptParser.Parse, ImageProcessor.Process).
THEOREM TypeCorrect == Spec => []TypeOK
<1>1. Init => TypeOK
  BY TypesAtFirst
<1>2. TypeOK /\ [Next]_vars => TypeOK'
  BY TypesStay
<1> QED
  BY <1>1, <1>2, PTL DEF Spec

\* Whatever the script files are: when the first step is executed, and ever after,
\* no line of the script or of a file it reaches by includes is wrong, and none
\* of these files reaches itself (Program.LoadScript runs what has no errors).
THEOREM OnlyRightScriptsRun == Spec => []RunsOnlyWhatIsRight
<1>1. Init => ParseInv
  BY ParseInvAtFirst
<1>2. ParseInv /\ [Next]_vars => ParseInv'
  BY ParseInvStays
<1>3. ParseInv => RunsOnlyWhatIsRight
  BY RightMeansGood DEF ParseInv, RunsOnlyWhatIsRight
<1> QED
  BY <1>1, <1>2, <1>3, PTL DEF Spec

\* Whatever the script files are: when the parsing has come to its end, the errors
\* name the wrong lines and the steps stand for the right commands, each line of
\* the script and of what it includes in its place: no error hides another, no line
\* is lost, none counts twice but in a file included twice (ScriptParser.Parse).
THEOREM EveryLineIsCounted == Spec => []EveryLineCounts
<1>1. Init => CountInv
  BY CountsAtFirst
<1>2. CountInv /\ [Next]_vars => CountInv'
  BY CountsStay
<1>3. CountInv => EveryLineCounts
  BY DEF CountInv, EveryLineCounts, StepPlaces
<1> QED
  BY <1>1, <1>2, <1>3, PTL DEF Spec

=============================================================================
