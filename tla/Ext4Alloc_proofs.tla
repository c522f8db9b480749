--------------------------- MODULE Ext4Alloc_proofs ---------------------------
(***************************************************************************)
(* Proofs about the allocation of blocks and i-nodes, for any geometry that *)
(* mke2fs makes: bitmaps, descriptors and counters agree with what callers  *)
(* hold after every call, nothing is given twice, and space is refused only *)
(* when there is none.                                                      *)
(***************************************************************************)
EXTENDS Ext4Alloc, TLAPS, FiniteSetTheorems, WellFoundedInduction

----------------------------------------------------------------------------
(* Numbers *)

LEMMA LeastOf ==
  ASSUME NEW T \in SUBSET Nat, T # {}
  PROVE  Min(T) \in T /\ \A j \in T : Min(T) <= j
<1>1. PICK k \in T : \A j \in T : ~ (<<j, k>> \in OpToRel(<, Nat))
  BY NatLessThanWellFounded, WFMin
<1>2. \A j \in T : ~ (j < k)
  BY <1>1 DEF OpToRel
<1>3. \A j \in T : k <= j
  BY <1>2
<1> QED
  BY <1>3 DEF Min

LEMMA AllTurns ==
  ASSUME NEW S, 0 \in S, \A n \in Nat : n \in S => n + 1 \in S
  PROVE  \A n \in Nat : n \in S
<1> DEFINE T == {n \in Nat : n \notin S}
<1>1. SUFFICES ASSUME T # {} PROVE FALSE
  OBVIOUS
<1>2. Min(T) \in T /\ \A j \in T : Min(T) <= j
  BY <1>1, LeastOf
<1> DEFINE m == Min(T)
<1> HIDE DEF m
<1>3. m \in Nat /\ m # 0 /\ m \notin S
  BY <1>2 DEF m
<1>4. m - 1 \in Nat /\ (m - 1) + 1 = m /\ ~(m <= m - 1)
  BY <1>3
<1>5. m - 1 \in S
  BY <1>2, <1>4 DEF m
<1> QED
  BY <1>3, <1>4, <1>5

LEMMA DivMod ==
  ASSUME NEW n \in Nat, NEW b \in Nat \ {0}
  PROVE  n \div b \in Nat /\ n % b \in 0 .. b - 1 /\ n = (n \div b) * b + (n % b)
OBVIOUS

LEMMA DivModIs ==
  ASSUME NEW q \in Nat, NEW b \in Nat \ {0}, NEW r \in 0 .. b - 1
  PROVE  (q * b + r) \div b = q /\ (q * b + r) % b = r
OBVIOUS

LEMMA MultOrder ==
  ASSUME NEW m \in Nat, NEW n \in Nat, NEW b \in Nat, m < n
  PROVE  m * b + b <= n * b
<1>1. n - m - 1 \in Nat /\ n = m + 1 + (n - m - 1)
  OBVIOUS
<1>2. (n - m - 1) * b \in Nat
  BY <1>1
<1>3. n * b = m * b + b + (n - m - 1) * b
  BY <1>1
<1>4. m * b \in Nat /\ n * b \in Nat
  OBVIOUS
<1> QED
  BY <1>2, <1>3, <1>4

LEMMA RoundUpParts ==
  ASSUME NEW n \in Nat, NEW m \in Nat \ {0}
  PROVE  /\ RoundUp(n, m) \in Nat /\ n <= RoundUp(n, m) /\ RoundUp(n, m) < n + m
         /\ \E k \in Nat : RoundUp(n, m) = k * m
<1> DEFINE k == (n + m - 1) \div m
           r == (n + m - 1) % m
<1>1. k \in Nat /\ r \in 0 .. m - 1 /\ n + m - 1 = k * m + r
  <2>1. n + m - 1 \in Nat
    OBVIOUS
  <2> QED
    BY <2>1, DivMod
<1>2. RoundUp(n, m) = k * m
  BY DEF RoundUp
<1> HIDE DEF k, r
<1>3. k * m \in Nat
  BY <1>1
<1> DEFINE p == k * m
<1>4. p \in Nat /\ n + m - 1 = p + r
  BY <1>1, <1>3
<1>5. RoundUp(n, m) = p
  BY <1>2
<1>6. \E q \in Nat : RoundUp(n, m) = q * m
  BY <1>1, <1>2
<1> HIDE DEF p
<1>7. n <= p /\ p < n + m
  BY <1>1, <1>4
<1> QED
  BY <1>4, <1>5, <1>6, <1>7

\* It is the least multiple that is not below n.
LEMMA RoundUpIsLeast ==
  ASSUME NEW n \in Nat, NEW m \in Nat \ {0}, NEW q \in Nat, n <= q * m
  PROVE  RoundUp(n, m) <= q * m
<1>1. PICK k \in Nat : RoundUp(n, m) = k * m
  BY RoundUpParts
<1>2. k * m < n + m
  BY <1>1, RoundUpParts
<1>3. CASE q < k
  <2>1. q * m + m <= k * m
    BY <1>3, MultOrder
  <2>2. q * m \in Nat /\ k * m \in Nat
    OBVIOUS
  <2> QED
    BY <2>1, <2>2, <1>2
<1>4. CASE q = k
  BY <1>1, <1>4
<1>5. CASE k < q
  <2>1. k * m + m <= q * m
    BY <1>5, MultOrder
  <2>2. q * m \in Nat /\ k * m \in Nat
    OBVIOUS
  <2> QED
    BY <2>1, <2>2, <1>1
<1> QED
  BY <1>3, <1>4, <1>5

----------------------------------------------------------------------------
(* Bits *)

LEMMA ConstantParts ==
  /\ Byte \in Nat \ {0} /\ Near \in Nat \ {0} /\ BitmapBits \in Nat \ {0}
  /\ \E k \in Nat \ {0} : Near = k * Byte
  /\ \E k \in Nat \ {0} : BitmapBits = k * Byte
<1>1. /\ Byte \in Nat \ {0} /\ Near \in Nat \ {0} /\ BitmapBits \in Nat \ {0}
      /\ Near % Byte = 0 /\ BitmapBits % Byte = 0
  BY AllocAssumption
<1>2. ASSUME NEW n \in Nat \ {0}, n % Byte = 0 PROVE \E k \in Nat \ {0} : n = k * Byte
  <2>1. n \div Byte \in Nat /\ n = (n \div Byte) * Byte + (n % Byte)
    BY <1>1, DivMod
  <2>2. n \div Byte # 0
    BY <1>1, <1>2, <2>1
  <2>3. (n \div Byte) * Byte \in Nat
    BY <1>1, <2>1
  <2>4. n = (n \div Byte) * Byte
    BY <1>2, <2>1, <2>3
  <2> QED
    BY <2>1, <2>2, <2>4
<1> QED
  BY <1>1, <1>2

\* Past its end a bitmap is filled to its last bit, not only in whole bytes.
LEMMA EndIsFilled ==
  ASSUME NEW from \in Nat, from <= BitmapBits
  PROVE  EndBits(from) = from .. BitmapBits - 1
<1>1. CASE from = BitmapBits
  BY <1>1, ConstantParts DEF EndBits
<1>2. CASE from < BitmapBits
  <2>1. PICK n \in Nat \ {0} : BitmapBits = n * Byte
    BY ConstantParts
  <2>2. Byte \in Nat \ {0} /\ BitmapBits \in Nat \ {0}
    BY ConstantParts
  <2> DEFINE whole == RoundUp(from, Byte)
  <2>3. PICK k \in Nat : whole = k * Byte
    BY <2>2, RoundUpParts
  <2>4. whole \in Nat /\ from <= whole /\ whole <= BitmapBits
    BY <1>2, <2>1, <2>2, RoundUpParts, RoundUpIsLeast
  <2> DEFINE rest == BitmapBits - whole
  <2>5. rest = ((rest \div Byte) * Byte)
    <3>1. CASE n < k
      <4>1. n * Byte + Byte <= k * Byte
        BY <2>2, <3>1, MultOrder
      <4> QED
        BY <2>1, <2>2, <2>3, <2>4, <4>1
    <3>2. CASE k <= n
      <4>1. n - k \in Nat
        BY <3>2
      <4>2. rest = (n - k) * Byte
        BY <2>1, <2>2, <2>3
      <4>3. ((n - k) * Byte + 0) \div Byte = n - k
        BY <2>2, <4>1, DivModIs
      <4>4. (n - k) * Byte + 0 = rest
        BY <2>2, <4>1, <4>2
      <4>5. rest \div Byte = n - k
        BY <4>3, <4>4
      <4> QED
        BY <4>2, <4>5
    <3> QED
      BY <3>1, <3>2
  <2>6. EndBits(from) = (from .. whole - 1) \cup (whole .. whole + ((rest \div Byte) * Byte) - 1)
    BY <1>2, <2>2 DEF EndBits
  <2> HIDE DEF whole
  <2>7. whole + ((rest \div Byte) * Byte) - 1 = BitmapBits - 1
    BY <2>2, <2>4, <2>5
  <2>8. (from .. whole - 1) \cup (whole .. BitmapBits - 1) = from .. BitmapBits - 1
    BY <2>2, <2>4
  <2> QED
    BY <2>6, <2>7, <2>8
<1> QED
  BY <1>1, <1>2, ConstantParts

\* From the first bit on, what is found is clear, and nothing is found only when
\* nothing is.
LEMMA FindsClear ==
  ASSUME NEW bits, NEW to \in Nat
  PROVE  LET at == FindClear(bits, 0, to)
         IN /\ at # -1 => at \in (0 .. to - 1) \ bits
            /\ at = -1 => 0 .. to - 1 \subseteq bits
<1> DEFINE clear == {i \in 0 .. to - 1 : i \notin bits}
           whole == RoundUp(0, Byte)
<1>1. whole = 0
  <2>1. whole \in Nat /\ whole <= 0 * Byte
    BY ConstantParts, RoundUpParts, RoundUpIsLeast
  <2>2. 0 * Byte = 0
    BY ConstantParts
  <2> QED
    BY <2>1, <2>2
<1>2. FindClear(bits, 0, to) = CASE clear = {} -> -1
                                 [] \E i \in clear : i < whole -> 0
                                 [] OTHER -> Min(clear)
  BY DEF FindClear
<1>3. clear \in SUBSET Nat /\ \A i \in clear : ~(i < whole)
  BY <1>1
<1> HIDE DEF whole
<1>4. CASE clear = {}
  BY <1>2, <1>4
<1>5. CASE clear # {}
  <2>1. FindClear(bits, 0, to) = Min(clear)
    BY <1>2, <1>3, <1>5
  <2>2. Min(clear) \in clear
    BY <1>3, <1>5, LeastOf
  <2> QED
    BY <2>1, <2>2
<1> QED
  BY <1>4, <1>5

\* Near the goal: what is found is clear.
LEMMA NearIsClear ==
  ASSUME NEW s, NEW g, NEW bits, NEW i \in Nat, BlocksIn(s, g) \in Nat,
         i < BitmapBits, BlocksIn(s, g) <= BitmapBits, NearGoal(s, bits, i, g) # -1
  PROVE  NearGoal(s, bits, i, g) \in (0 .. BitmapBits - 1) \ bits
<1> DEFINE count == BlocksIn(s, g)
           window == RoundUp(i, Near)
           end == Min({window, count})
           near == {j \in i + 1 .. end - 1 : j \notin bits}
           clear == {j \in i .. count - 1 : j \notin bits}
           whole == RoundUp(i, Byte)
<1> USE ConstantParts
<1>1. NearGoal(s, bits, i, g) = CASE i \notin bits -> i
                                  [] i \in bits /\ near # {} -> Min(near)
                                  [] OTHER -> FindClear(bits, i, count)
  BY DEF NearGoal
<1>2. count \in Nat /\ count <= BitmapBits /\ BitmapBits \in Nat
  OBVIOUS
<1>3. window \in Nat /\ whole \in Nat /\ whole <= window
  <2>1. PICK k \in Nat : window = k * Near
    BY RoundUpParts
  <2>2. PICK n \in Nat \ {0} : Near = n * Byte
    OBVIOUS
  <2>3. k * n \in Nat /\ window = (k * n) * Byte
    BY <2>1, <2>2
  <2>4. window \in Nat /\ i <= window
    BY RoundUpParts
  <2>5. i <= (k * n) * Byte
    BY <2>3, <2>4
  <2>6. whole <= (k * n) * Byte
    <3> HIDE DEF window
    <3> QED
      BY <2>3, <2>5, RoundUpIsLeast
  <2>7. whole \in Nat
    BY RoundUpParts
  <2> QED
    BY <2>3, <2>4, <2>6, <2>7
<1> HIDE DEF count, window, whole
<1>4. end \in Nat /\ end <= count /\ (end = window \/ end = count)
  <2>1. {window, count} \in SUBSET Nat /\ {window, count} # {}
    BY <1>2, <1>3
  <2>2. end \in {window, count} /\ \A j \in {window, count} : end <= j
    BY <2>1, LeastOf
  <2> QED
    BY <1>2, <1>3, <2>2
<1> HIDE DEF end
<1>5. near \in SUBSET Nat /\ clear \in SUBSET Nat
  BY <1>2, <1>4
<1>6. CASE i \notin bits
  BY <1>1, <1>2, <1>6
<1>7. CASE i \in bits /\ near # {}
  <2>1. Min(near) \in near
    BY <1>5, <1>7, LeastOf
  <2> QED
    BY <1>1, <1>2, <1>4, <1>7, <2>1
<1>8. CASE i \in bits /\ near = {}
  <2>1. FindClear(bits, i, count) = CASE clear = {} -> -1
                                      [] \E j \in clear : j < whole -> i
                                      [] OTHER -> Min(clear)
    BY DEF FindClear, whole
  <2>2. NearGoal(s, bits, i, g) = FindClear(bits, i, count)
    BY <1>1, <1>8
  <2>3. clear # {}
    BY <2>1, <2>2
  <2>4. \A j \in clear : ~(j < whole)
    <3>1. SUFFICES ASSUME NEW j \in clear, j < whole PROVE j \in near
      BY <1>8
    <3>2. j \in Nat /\ j # i /\ i <= j /\ j < count /\ j \notin bits
      BY <1>2, <1>8
    <3>3. j < end
      BY <1>2, <1>3, <1>4, <3>1, <3>2
    <3> QED
      BY <1>4, <3>2, <3>3
  <2>5. FindClear(bits, i, count) = Min(clear)
    BY <2>1, <2>3, <2>4
  <2>6. Min(clear) \in clear
    BY <1>5, <2>3, LeastOf
  <2> QED
    BY <1>2, <2>2, <2>5, <2>6
<1> QED
  BY <1>6, <1>7, <1>8

----------------------------------------------------------------------------
(* Geometry *)

LEMMA GroupParts ==
  ASSUME NEW s \in Setups
  PROVE  /\ s.first \in {0, 1} /\ s.total \in Nat \ {0} /\ s.goals \subseteq Nat
         /\ s.bpg \in Nat \ {0} /\ s.bpg <= BitmapBits
         /\ s.ipg \in Nat \ {0} /\ s.ipg <= BitmapBits
         /\ GroupCount(s) \in Nat \ {0}
         /\ (GroupCount(s) - 1) * s.bpg < s.total /\ s.total <= GroupCount(s) * s.bpg
         /\ s.inodes \in Nat
         /\ (GroupCount(s) - 1) * s.ipg <= s.inodes /\ s.inodes <= GroupCount(s) * s.ipg
<1>1. /\ s.first \in {0, 1} /\ s.total \in Nat \ {0} /\ s.goals \subseteq Nat
      /\ s.bpg \in 1 .. BitmapBits /\ s.ipg \in 1 .. BitmapBits
      /\ s.inodes \in (GroupCount(s) - 1) * s.ipg .. GroupCount(s) * s.ipg
  BY GeometryAssumption DEF Geometry
<1>2. s.bpg \in Nat \ {0} /\ s.ipg \in Nat \ {0} /\ BitmapBits \in Nat
  BY <1>1, ConstantParts
<1> DEFINE q == s.total \div s.bpg
           r == s.total % s.bpg
           n == GroupCount(s)
<1>3. q \in Nat /\ r \in 0 .. s.bpg - 1 /\ s.total = q * s.bpg + r
  BY <1>1, <1>2, DivMod
<1>4. n = q + IF r # 0 THEN 1 ELSE 0
  BY DEF GroupCount
<1> HIDE DEF q, r, n
<1>5. q * s.bpg \in Nat
  BY <1>2, <1>3
<1>6. q = 0 => q * s.bpg = 0
  BY <1>2
<1>7. n \in Nat \ {0} /\ (n - 1) * s.bpg < s.total /\ s.total <= n * s.bpg
  <2>1. CASE r = 0
    <3>1. n = q /\ q # 0
      BY <1>1, <1>3, <1>4, <1>6, <2>1
    <3>2. (q - 1) * s.bpg + s.bpg = q * s.bpg /\ (q - 1) * s.bpg \in Nat
      BY <1>2, <1>3, <3>1
    <3> QED
      BY <1>2, <1>3, <1>5, <2>1, <3>1, <3>2
  <2>2. CASE r # 0
    <3>1. n = q + 1 /\ n - 1 = q
      BY <1>3, <1>4, <2>2
    <3>2. n * s.bpg = q * s.bpg + s.bpg
      BY <1>2, <1>3, <3>1
    <3> QED
      BY <1>2, <1>3, <1>5, <2>2, <3>1, <3>2
  <2> QED
    BY <2>1, <2>2
<1>8. (n - 1) * s.ipg \in Nat /\ n * s.ipg \in Nat
  <2>1. n - 1 \in Nat
    BY <1>7
  <2> QED
    BY <1>2, <1>7, <2>1
<1>9. s.inodes \in (n - 1) * s.ipg .. n * s.ipg
  BY <1>1 DEF n
<1>10. s.inodes \in Nat /\ (n - 1) * s.ipg <= s.inodes /\ s.inodes <= n * s.ipg
  BY <1>8, <1>9
<1> QED
  BY <1>1, <1>2, <1>7, <1>10 DEF n

LEMMA GroupsAre ==
  ASSUME NEW s \in Setups, NEW g \in Groups(s)
  PROVE  g \in Nat /\ g < GroupCount(s) /\ g <= GroupCount(s) - 1
BY GroupParts DEF Groups

LEMMA ShareOfGroup ==
  ASSUME NEW s \in Setups, NEW g \in Groups(s)
  PROVE  /\ BlocksIn(s, g) \in Nat /\ BlocksIn(s, g) <= BitmapBits
         /\ InodesIn(s, g) \in Nat /\ InodesIn(s, g) <= s.ipg
<1> DEFINE n == GroupCount(s)
           b == (n - 1) * s.bpg
           c == (n - 1) * s.ipg
<1>1. g \in Nat /\ g < n /\ n \in Nat \ {0} /\ n - 1 \in Nat
  BY GroupParts, GroupsAre
<1>2. /\ s.bpg \in Nat \ {0} /\ s.bpg <= BitmapBits /\ s.total \in Nat
      /\ b < s.total /\ s.total <= n * s.bpg
      /\ s.ipg \in Nat \ {0} /\ s.inodes \in Nat /\ c <= s.inodes /\ s.inodes <= n * s.ipg
  BY GroupParts
<1>3. n * s.bpg = b + s.bpg /\ n * s.ipg = c + s.ipg /\ b \in Nat /\ c \in Nat
  BY <1>1, <1>2
<1>4. /\ BlocksIn(s, g) = IF g < n - 1 THEN s.bpg ELSE s.total - b
      /\ InodesIn(s, g) = IF g < n - 1 THEN s.ipg ELSE s.inodes - c
  BY DEF BlocksIn, InodesIn
<1> HIDE DEF n, b, c
<1> QED
  BY <1>2, <1>3, <1>4, ConstantParts

LEMMA PlacesOf ==
  ASSUME NEW s \in Setups, NEW p \in Nat
  PROVE  /\ GroupOf(s, p) \in Nat /\ IndexOf(s, p) \in 0 .. s.bpg - 1
         /\ p >= s.first => p = s.first + GroupOf(s, p) * s.bpg + IndexOf(s, p)
<1> DEFINE f == FromFirst(s, p)
<1>1. s.first \in {0, 1} /\ s.bpg \in Nat \ {0}
  BY GroupParts
<1>2. f \in Nat /\ (p >= s.first => f = p - s.first)
  BY <1>1 DEF FromFirst
<1> HIDE DEF f
<1>3. f \div s.bpg \in Nat /\ f % s.bpg \in 0 .. s.bpg - 1 /\ f = (f \div s.bpg) * s.bpg + (f % s.bpg)
  BY <1>1, <1>2, DivMod
<1>4. GroupOf(s, p) = f \div s.bpg /\ IndexOf(s, p) = f % s.bpg
  BY DEF GroupOf, IndexOf, f
<1>5. GroupOf(s, p) \in Nat /\ IndexOf(s, p) \in 0 .. s.bpg - 1
      /\ f = GroupOf(s, p) * s.bpg + IndexOf(s, p)
  BY <1>3, <1>4
<1>6. GroupOf(s, p) * s.bpg \in Nat
  BY <1>1, <1>5
<1> DEFINE m == GroupOf(s, p) * s.bpg
<1>7. m \in Nat /\ f = m + IndexOf(s, p)
  BY <1>5, <1>6
<1> HIDE DEF m
<1>8. p >= s.first => p = s.first + m + IndexOf(s, p)
  BY <1>1, <1>2, <1>5, <1>7
<1> QED
  BY <1>5, <1>8 DEF m

\* The bits of a group that stand for blocks are those below a bound.
Room(s, g) == IF g = GroupCount(s) - 1 THEN s.total - s.first - s.bpg * (GroupCount(s) - 1) ELSE s.bpg

LEMMA ExistingIs ==
  ASSUME NEW s \in Setups, NEW g \in Groups(s)
  PROVE  /\ Room(s, g) \in Nat /\ Room(s, g) <= s.bpg /\ Room(s, g) <= BlocksIn(s, g)
         /\ Existing(s, g) = 0 .. Room(s, g) - 1
<1> DEFINE n == GroupCount(s)
           b == (n - 1) * s.bpg
           d == g * s.bpg
           room == Room(s, g)
<1>1. g \in Nat /\ g < n /\ n \in Nat \ {0} /\ n - 1 \in Nat
  BY GroupParts, GroupsAre
<1>2. /\ s.bpg \in Nat \ {0} /\ s.first \in {0, 1} /\ s.total \in Nat
      /\ b < s.total /\ s.total <= n * s.bpg
  BY GroupParts
<1>3. n * s.bpg = b + s.bpg /\ b \in Nat /\ s.bpg * (n - 1) = b /\ d \in Nat
  BY <1>1, <1>2
<1>4. g < n - 1 => d + s.bpg <= b
  BY <1>1, <1>2, MultOrder
<1>5. g = n - 1 => d = b
  OBVIOUS
<1>6. room = IF g = n - 1 THEN s.total - s.first - b ELSE s.bpg
  BY <1>3 DEF Room
<1>7. BlocksIn(s, g) = IF g < n - 1 THEN s.bpg ELSE s.total - b
  BY DEF BlocksIn
<1>8. Existing(s, g) = {i \in 0 .. s.bpg - 1 : s.first + d + i < s.total}
  BY DEF Existing, BlockAt
<1> HIDE DEF n, b, d, room
<1>9. room \in Nat /\ room <= s.bpg /\ room <= BlocksIn(s, g)
  BY <1>1, <1>2, <1>3, <1>6, <1>7
<1>10. \A i \in 0 .. s.bpg - 1 : s.first + d + i < s.total <=> i < room
  BY <1>1, <1>2, <1>3, <1>4, <1>5, <1>6
<1>11. Existing(s, g) = 0 .. room - 1
  BY <1>2, <1>8, <1>9, <1>10
<1> QED
  BY <1>9, <1>11 DEF room

\* A bit of a group stands for one block of the device, and a block has one bit.
LEMMA BitOfBlock ==
  ASSUME NEW s \in Setups, NEW p \in s.first .. s.total - 1
  PROVE  /\ GroupOf(s, p) \in Groups(s) /\ IndexOf(s, p) \in Existing(s, GroupOf(s, p))
         /\ BlockAt(s, IndexOf(s, p), GroupOf(s, p)) = p
<1> DEFINE g == GroupOf(s, p)
           i == IndexOf(s, p)
           n == GroupCount(s)
<1>1. s.first \in {0, 1} /\ s.total \in Nat /\ s.bpg \in Nat \ {0} /\ n \in Nat \ {0}
      /\ s.total <= n * s.bpg
  BY GroupParts
<1>2. p \in Nat /\ p >= s.first /\ p < s.total
  BY <1>1
<1>3. g \in Nat /\ i \in 0 .. s.bpg - 1 /\ p = s.first + g * s.bpg + i
  BY <1>2, PlacesOf
<1>4. BlockAt(s, i, g) = p
  BY <1>3 DEF BlockAt
<1> HIDE DEF g, i, n
<1>5. g * s.bpg \in Nat /\ n * s.bpg \in Nat
  BY <1>1, <1>3
<1>6. g < n
  <2>1. g * s.bpg < n * s.bpg
    BY <1>1, <1>2, <1>3, <1>5
  <2>2. CASE n = g
    BY <2>1, <2>2, <1>5
  <2>3. CASE n < g
    <3>1. n * s.bpg + s.bpg <= g * s.bpg
      BY <1>1, <1>3, <2>3, MultOrder
    <3> QED
      BY <1>1, <1>5, <2>1, <3>1
  <2> QED
    BY <1>1, <1>3, <2>2, <2>3
<1>7. g \in Groups(s)
  BY <1>1, <1>3, <1>6 DEF Groups, n
<1>8. i \in Existing(s, g)
  BY <1>2, <1>3, <1>4 DEF Existing
<1> QED
  BY <1>4, <1>7, <1>8 DEF g, i

LEMMA BlockOfBit ==
  ASSUME NEW s \in Setups, NEW g \in Groups(s), NEW i \in Existing(s, g)
  PROVE  /\ BlockAt(s, i, g) \in s.first .. s.total - 1
         /\ GroupOf(s, BlockAt(s, i, g)) = g /\ IndexOf(s, BlockAt(s, i, g)) = i
<1> DEFINE p == BlockAt(s, i, g)
           d == g * s.bpg
<1>1. g \in Nat /\ s.first \in {0, 1} /\ s.total \in Nat /\ s.bpg \in Nat \ {0}
  BY GroupParts, GroupsAre
<1>2. i \in 0 .. s.bpg - 1 /\ p < s.total
  BY DEF Existing
<1>3. p = s.first + d + i
  BY DEF BlockAt
<1>4. d \in Nat
  BY <1>1
<1>5. p \in s.first .. s.total - 1 /\ p \in Nat /\ p >= s.first
  <2> HIDE DEF p, d
  <2> QED
    BY <1>1, <1>2, <1>3, <1>4
<1>6. GroupOf(s, p) \in Nat /\ IndexOf(s, p) \in 0 .. s.bpg - 1
      /\ p = s.first + GroupOf(s, p) * s.bpg + IndexOf(s, p)
  BY <1>5, PlacesOf
<1> HIDE DEF p
<1> DEFINE h == GroupOf(s, p)
           j == IndexOf(s, p)
<1>7. h \in Nat /\ j \in Nat /\ j < s.bpg /\ p = s.first + h * s.bpg + j
  BY <1>1, <1>6
<1> HIDE DEF h, j
<1>8. h * s.bpg + j = g * s.bpg + i
  <2>1. h * s.bpg \in Nat
    BY <1>1, <1>7
  <2> DEFINE e == h * s.bpg
  <2>2. e \in Nat /\ p = s.first + e + j
    BY <2>1, <1>7
  <2> HIDE DEF e, d
  <2>3. e + j = d + i
    BY <2>2, <1>1, <1>2, <1>3, <1>4, <1>7
  <2> QED
    BY <2>3 DEF e, d
<1>9. h = g /\ j = i
  <2>1. i \in 0 .. s.bpg - 1
    BY <1>2
  <2>2. h \in Nat /\ j \in 0 .. s.bpg - 1
    BY <1>1, <1>7
  <2>3. g \in Nat /\ s.bpg \in Nat \ {0}
    BY <1>1
  <2> DEFINE x == h * s.bpg + j
             y == g * s.bpg + i
  <2>4. x \div s.bpg = h /\ x % s.bpg = j
    BY <2>2, <2>3, DivModIs, ZenonT(30)
  <2>5. y \div s.bpg = g /\ y % s.bpg = i
    BY <2>1, <2>3, DivModIs, ZenonT(30)
  <2>6. x = y
    BY <1>8
  <2> HIDE DEF x, y
  <2> QED
    BY <2>4, <2>5, <2>6
<1> QED
  BY <1>5, <1>9 DEF h, j, p

\* Bits of a group lie as far apart as their blocks.
LEMMA BlocksInARow ==
  ASSUME NEW s \in Setups, NEW g \in Groups(s), NEW i \in Int
  PROVE  BlockAt(s, 0, g) \in Nat /\ BlockAt(s, i, g) = BlockAt(s, 0, g) + i
<1>1. g \in Nat /\ s.first \in {0, 1} /\ s.bpg \in Nat \ {0}
  BY GroupParts, GroupsAre
<1>2. g * s.bpg \in Nat
  BY <1>1
<1> QED
  BY <1>1, <1>2 DEF BlockAt

\* The bits whose blocks are neither fixed nor held.
FreeBits(s, H, g) == {i \in Existing(s, g) : BlockAt(s, i, g) \notin H \cup Fixed(s)}

LEMMA FreeBitsAre ==
  ASSUME NEW s \in Setups, NEW g \in Groups(s), NEW H
  PROVE  /\ FreeBits(s, H, g) \subseteq 0 .. BlocksIn(s, g) - 1
         /\ FreeBits(s, H, g) \subseteq 0 .. s.bpg - 1
         /\ IsFiniteSet(FreeBits(s, H, g)) /\ Cardinality(FreeBits(s, H, g)) \in Nat
<1>1. Room(s, g) \in Nat /\ Room(s, g) <= s.bpg /\ Room(s, g) <= BlocksIn(s, g)
      /\ Existing(s, g) = 0 .. Room(s, g) - 1
  BY ExistingIs
<1>2. BlocksIn(s, g) \in Nat /\ s.bpg \in Nat
  BY ShareOfGroup, GroupParts
<1>3. FreeBits(s, H, g) \subseteq 0 .. Room(s, g) - 1
  BY <1>1 DEF FreeBits
<1>4. IsFiniteSet(FreeBits(s, H, g))
  <2>1. IsFiniteSet(0 .. Room(s, g) - 1)
    BY <1>1, FS_Interval
  <2> QED
    BY <1>3, <2>1, FS_Subset
<1>5. Cardinality(FreeBits(s, H, g)) \in Nat
  BY <1>4, FS_CardinalityType
<1> QED
  BY <1>1, <1>2, <1>3, <1>4, <1>5

\* What a group that is set up late is left with: its bitmap is clear where no
\* block is fixed. The bitmaps and tables of other groups are not in it.
LEMMA LateBitmap ==
  ASSUME NEW s \in Setups, NEW g \in Groups(s), g \in s.lazy
  PROVE  (0 .. BitmapBits - 1) \ InitBlockBitmap(s, g) = FreeBits(s, {}, g)
<1> DEFINE room == Room(s, g)
           base == BlockAt(s, 0, g)
           super == 0 .. Supers(s, g) - 1
           meta == {p - base : p \in {q \in Meta(s, g) : ~s.flex \/ GroupOf(s, q) = g}}
<1>1. room \in Nat /\ room <= BitmapBits /\ Existing(s, g) = 0 .. room - 1 /\ BitmapBits \in Nat
  <2>1. s.bpg \in Nat /\ s.bpg <= BitmapBits /\ BitmapBits \in Nat
    BY GroupParts, ConstantParts
  <2> QED
    BY <2>1, ExistingIs
<1>2. InitBlockBitmap(s, g) = super \cup (room .. BitmapBits - 1) \cup meta
  <2>1. EndBits(room) = room .. BitmapBits - 1
    BY <1>1, EndIsFilled
  <2> QED
    BY <2>1 DEF InitBlockBitmap, Room
<1>3. \A h \in Groups(s) :
         /\ 0 .. Supers(s, h) - 1 \subseteq Existing(s, h)
         /\ \A p \in Meta(s, h) : /\ p \in s.first .. s.total - 1
                                  /\ GroupOf(s, p) = h \/ (s.flex /\ GroupOf(s, p) \notin s.lazy)
  BY GeometryAssumption DEF Geometry
<1>4. base \in Nat /\ \A i \in Int : BlockAt(s, i, g) = base + i
  BY BlocksInARow
<1>5. ASSUME NEW i \in 0 .. BitmapBits - 1, i \notin InitBlockBitmap(s, g)
      PROVE  i \in FreeBits(s, {}, g)
  <2>1. i \in Existing(s, g)
    BY <1>1, <1>2, <1>5
  <2>2. GroupOf(s, BlockAt(s, i, g)) = g /\ IndexOf(s, BlockAt(s, i, g)) = i
        /\ BlockAt(s, i, g) \in s.first .. s.total - 1
    BY <2>1, BlockOfBit
  <2>3. SUFFICES ASSUME BlockAt(s, i, g) \in Fixed(s) PROVE FALSE
    BY <2>1 DEF FreeBits
  <2>4. BlockAt(s, i, g) \notin 0 .. s.first - 1
    BY <2>2, GroupParts
  <2>5. PICK h \in Groups(s) : BlockAt(s, i, g) \in Meta(s, h) \cup {BlockAt(s, j, h) : j \in 0 .. Supers(s, h) - 1}
    BY <2>3, <2>4 DEF Fixed
  <2>6. CASE BlockAt(s, i, g) \in Meta(s, h)
    <3>1. h = g
      BY <1>3, <2>2, <2>5, <2>6
    <3>2. BlockAt(s, i, g) - base \in meta
      BY <2>2, <2>6, <3>1
    <3>3. BlockAt(s, i, g) - base = i
      BY <1>4
    <3> QED
      BY <1>2, <1>5, <3>2, <3>3
  <2>7. CASE \E j \in 0 .. Supers(s, h) - 1 : BlockAt(s, i, g) = BlockAt(s, j, h)
    <3>1. PICK j \in 0 .. Supers(s, h) - 1 : BlockAt(s, i, g) = BlockAt(s, j, h)
      BY <2>7
    <3>2. j \in Existing(s, h)
      BY <1>3, <2>5, <3>1
    <3>3. GroupOf(s, BlockAt(s, j, h)) = h /\ IndexOf(s, BlockAt(s, j, h)) = j
      BY <2>5, <3>2, BlockOfBit
    <3>4. h = g /\ j = i
      BY <2>2, <3>1, <3>3
    <3> QED
      BY <1>2, <1>5, <3>1, <3>4
  <2> QED
    BY <2>5, <2>6, <2>7
<1>6. ASSUME NEW i \in FreeBits(s, {}, g)
      PROVE  i \in (0 .. BitmapBits - 1) \ InitBlockBitmap(s, g)
  <2>1. i \in Existing(s, g) /\ BlockAt(s, i, g) \notin Fixed(s)
    BY <1>6 DEF FreeBits
  <2>2. i \in 0 .. room - 1
    BY <1>1, <2>1
  <2>3. i \notin super
    BY <2>1 DEF Fixed
  <2>4. i \notin meta
    <3>1. SUFFICES ASSUME NEW p \in Meta(s, g), i = p - base PROVE FALSE
      OBVIOUS
    <3>2. p \in Int
      BY <1>3, GroupParts
    <3>3. BlockAt(s, i, g) = p
      BY <1>1, <1>4, <2>2, <3>1, <3>2
    <3> QED
      BY <2>1, <3>1, <3>3 DEF Fixed
  <2> QED
    BY <1>1, <1>2, <2>2, <2>3, <2>4
<1> QED
  BY <1>5, <1>6

LEMMA LateInodeBitmap ==
  ASSUME NEW s \in Setups
  PROVE  InitInodeBitmap(s) = s.ipg .. BitmapBits - 1
BY EndIsFilled, GroupParts DEF InitInodeBitmap

----------------------------------------------------------------------------
(* What is kept of every group, and of the whole *)

GroupType == [blocks : SUBSET Int, free : Int, inodes : SUBSET Int, freeInodes : Int,
              dirs : Int, unused : Int, lazy : BOOLEAN]

StoreType(s) == [group : [Groups(s) -> GroupType], lastGroup : Groups(s), inodeBlocks : Int,
                 freeBlocks : Int, freeInodes : Int]

\* The i-nodes of a group that are in use, those that are directories, and the
\* places that are not in use.
Mine(s, ids, g) == {i \in DOMAIN ids : InodeGroup(s, i) = g}
Dirs(s, ids, g) == {i \in Mine(s, ids, g) : ids[i]}
FreeSlots(s, ids, g) == {i \in 0 .. InodesIn(s, g) - 1 : InodeAt(s, i, g) \notin DOMAIN ids}

\* A group not set up yet is untouched, so that its counters are those it was made with.
BlocksSound(s, x, H, g) ==
  /\ x.free = Cardinality(FreeBits(s, H, g))
  /\ x.lazy => g \in s.lazy /\ \A p \in H : GroupOf(s, p) # g
  /\ ~x.lazy => (0 .. BitmapBits - 1) \ x.blocks = FreeBits(s, H, g)

InodesSound(s, x, ids, g) ==
  /\ x.freeInodes = InodesIn(s, g) - Cardinality(Mine(s, ids, g))
  /\ x.freeInodes = Cardinality(FreeSlots(s, ids, g))
  /\ x.dirs = Cardinality(Dirs(s, ids, g))
  /\ \A i \in Mine(s, ids, g) : InodeIndex(s, i) < InodesIn(s, g) - x.unused
  /\ x.lazy => Mine(s, ids, g) = {}
  /\ ~x.lazy => (0 .. InodesIn(s, g) - 1) \ x.inodes = FreeSlots(s, ids, g)

CallersSound(s, H, ids) ==
  /\ IsFiniteSet(H) /\ H \subseteq s.first .. s.total - 1 /\ H \cap Fixed(s) = {}
  /\ DOMAIN ids \subseteq 1 .. s.inodes /\ ids \in [DOMAIN ids -> BOOLEAN]

Sound(s, x, H, ids) ==
  /\ x \in StoreType(s) /\ CallersSound(s, H, ids)
  /\ \A g \in Groups(s) : BlocksSound(s, x.group[g], H, g) /\ InodesSound(s, x.group[g], ids, g)
  /\ x.freeBlocks = Total(s, x.group)
  /\ x.inodeBlocks = Cardinality(H)
  /\ x.freeInodes = s.inodes - Cardinality(DOMAIN ids)

SoundInv == setup \in Setups /\ Sound(setup, a, held, inodes)

----------------------------------------------------------------------------
(* The sum of the free blocks *)

SumUpTo(G, f, n) == f = [k \in 0 .. n |-> IF k = 0 THEN 0 ELSE f[k - 1] + G[k - 1].free]

LEMMA SumExists ==
  ASSUME NEW G
  PROVE  \A n \in Nat : \E f : SumUpTo(G, f, n)
<1> DEFINE S == {n \in Nat : \E f : SumUpTo(G, f, n)}
<1>1. 0 \in S
  <2> DEFINE f == [k \in 0 .. 0 |-> 0]
  <2>1. SumUpTo(G, f, 0)
    BY DEF SumUpTo
  <2> QED
    BY <2>1
<1>2. ASSUME NEW n \in Nat, n \in S PROVE n + 1 \in S
  <2>1. PICK f : SumUpTo(G, f, n)
    BY <1>2
  <2> DEFINE h == [k \in 0 .. n + 1 |-> IF k = n + 1 THEN f[n] + G[n].free ELSE f[k]]
  <2>2. \A k \in 0 .. n : f[k] = IF k = 0 THEN 0 ELSE f[k - 1] + G[k - 1].free
    BY <2>1 DEF SumUpTo
  <2>3. \A k \in 0 .. n + 1 : h[k] = IF k = 0 THEN 0 ELSE h[k - 1] + G[k - 1].free
    BY <2>2
  <2>4. h = [k \in 0 .. n + 1 |-> h[k]]
    OBVIOUS
  <2>5. SumUpTo(G, h, n + 1)
    BY <2>3, <2>4 DEF SumUpTo
  <2> QED
    BY <2>5
<1> HIDE DEF S
<1>3. \A n \in Nat : n \in S
  BY <1>1, <1>2, AllTurns
<1> QED
  BY <1>3 DEF S

LEMMA TotalIs ==
  ASSUME NEW s \in Setups, NEW G
  PROVE  \E f : /\ Total(s, G) = f[GroupCount(s)] /\ f[0] = 0
                /\ \A k \in Nat : k + 1 <= GroupCount(s) => f[k + 1] = f[k] + G[k].free
<1> DEFINE n == GroupCount(s)
           f == CHOOSE f : SumUpTo(G, f, n)
<1>1. n \in Nat
  BY GroupParts
<1>2. SumUpTo(G, f, n)
  BY <1>1, SumExists
<1>3. Total(s, G) = f[n]
  BY DEF Total, SumUpTo
<1> HIDE DEF f, n
<1>4. \A k \in 0 .. n : f[k] = IF k = 0 THEN 0 ELSE f[k - 1] + G[k - 1].free
  BY <1>2 DEF SumUpTo
<1>5. \A k \in Nat : k + 1 <= n => f[k + 1] = f[k] + G[k].free
  <2>1. SUFFICES ASSUME NEW k \in Nat, k + 1 <= n PROVE f[k + 1] = f[k] + G[k].free
    OBVIOUS
  <2>2. k + 1 \in 0 .. n /\ k + 1 # 0 /\ (k + 1) - 1 = k
    BY <1>1, <2>1
  <2> QED
    BY <1>4, <2>2
<1>6. f[0] = 0
  BY <1>1, <1>4
<1> QED
  BY <1>3, <1>5, <1>6 DEF n

LEMMA SumOfChange ==
  ASSUME NEW s \in Setups, NEW G, \A k \in Groups(s) : G[k].free \in Int,
         NEW F, NEW g \in Groups(s), F[g].free \in Int,
         \A k \in Groups(s) : k # g => F[k].free = G[k].free
  PROVE  Total(s, G) \in Int /\ Total(s, F) = Total(s, G) + F[g].free - G[g].free
<1> DEFINE n == GroupCount(s)
           d == F[g].free - G[g].free
<1>1. PICK t : /\ Total(s, G) = t[n] /\ t[0] = 0
               /\ \A k \in Nat : k + 1 <= n => t[k + 1] = t[k] + G[k].free
  BY TotalIs
<1>2. PICK u : /\ Total(s, F) = u[n] /\ u[0] = 0
               /\ \A k \in Nat : k + 1 <= n => u[k + 1] = u[k] + F[k].free
  BY TotalIs
<1>3. n \in Nat /\ g \in Nat /\ g < n /\ d \in Int
  BY GroupParts, GroupsAre
<1>4. \A k \in Nat : k + 1 <= n =>
         /\ G[k].free \in Int
         /\ F[k].free = IF k = g THEN G[k].free + d ELSE G[k].free
  <2>1. SUFFICES ASSUME NEW k \in Nat, k + 1 <= n
                 PROVE  G[k].free \in Int /\ F[k].free = IF k = g THEN G[k].free + d ELSE G[k].free
    OBVIOUS
  <2>2. k \in Groups(s) /\ g \in Groups(s)
    BY <1>3, <2>1 DEF Groups
  <2>3. G[k].free \in Int /\ G[g].free \in Int
    BY <2>2
  <2> QED
    BY <2>2, <2>3
<1> HIDE DEF n, d
<1> DEFINE S == {k \in Nat : k <= n => t[k] \in Int /\ u[k] = IF g < k THEN t[k] + d ELSE t[k]}
<1>5. 0 \in S
  BY <1>1, <1>2, <1>3
<1>6. ASSUME NEW k \in Nat, k \in S PROVE k + 1 \in S
  <2>1. SUFFICES ASSUME k + 1 <= n
                 PROVE  t[k + 1] \in Int /\ u[k + 1] = IF g < k + 1 THEN t[k + 1] + d ELSE t[k + 1]
    OBVIOUS
  <2>2. t[k] \in Int /\ u[k] = IF g < k THEN t[k] + d ELSE t[k]
    BY <1>3, <1>6, <2>1
  <2>3. t[k + 1] = t[k] + G[k].free /\ u[k + 1] = u[k] + F[k].free
    BY <1>1, <1>2, <2>1
  <2>4. G[k].free \in Int /\ F[k].free = IF k = g THEN G[k].free + d ELSE G[k].free
    BY <1>4, <2>1
  <2> QED
    BY <1>3, <2>2, <2>3, <2>4
<1> HIDE DEF S
<1>7. n \in S
  BY <1>3, <1>5, <1>6, AllTurns
<1>8. t[n] \in Int /\ u[n] = t[n] + d
  BY <1>3, <1>7 DEF S
<1>9. Total(s, G) \in Int /\ Total(s, F) = Total(s, G) + d
  BY <1>1, <1>2, <1>8
<1>10. F[g].free \in Int /\ G[g].free \in Int
  OBVIOUS
<1> QED
  BY <1>9, <1>10 DEF d

----------------------------------------------------------------------------
(* A group is set up *)

LEMMA StoreFields ==
  ASSUME NEW s \in Setups, NEW x \in StoreType(s)
  PROVE  /\ x.group \in [Groups(s) -> GroupType] /\ x.lastGroup \in Groups(s)
         /\ x.inodeBlocks \in Int /\ x.freeBlocks \in Int /\ x.freeInodes \in Int
BY DEF StoreType

LEMMA GroupFields ==
  ASSUME NEW r \in GroupType
  PROVE  /\ r.blocks \in SUBSET Int /\ r.free \in Int /\ r.inodes \in SUBSET Int
         /\ r.freeInodes \in Int /\ r.dirs \in Int /\ r.unused \in Int /\ r.lazy \in BOOLEAN
BY DEF GroupType

LEMMA SetUpParts ==
  ASSUME NEW s \in Setups, NEW g \in Groups(s), NEW x \in GroupType
  PROVE  LET r == SetUp(s, g, x)
         IN /\ r \in GroupType /\ r.blocks = InitBlockBitmap(s, g) /\ r.inodes = InitInodeBitmap(s)
            /\ r.free = x.free /\ r.freeInodes = x.freeInodes /\ r.dirs = x.dirs
            /\ r.unused = x.unused /\ r.lazy = FALSE
<1> DEFINE blocks == InitBlockBitmap(s, g)
           slots == InitInodeBitmap(s)
<1>1. blocks \in SUBSET Int
  <2>1. BlockAt(s, 0, g) \in Nat
    BY BlocksInARow
  <2>2. \A p \in Meta(s, g) : p \in Int
    BY GeometryAssumption, GroupParts DEF Geometry
  <2>3. EndBits(Room(s, g)) \in SUBSET Int
    <3>1. Room(s, g) \in Nat /\ Room(s, g) <= BitmapBits
      <4>1. s.bpg \in Nat /\ s.bpg <= BitmapBits /\ BitmapBits \in Nat
        BY GroupParts, ConstantParts
      <4> QED
        BY <4>1, ExistingIs
    <3> QED
      BY <3>1, EndIsFilled, ConstantParts
  <2> QED
    BY <2>1, <2>2, <2>3 DEF InitBlockBitmap, Room
<1>2. slots \in SUBSET Int
  <2>1. slots = s.ipg .. BitmapBits - 1
    BY LateInodeBitmap
  <2> QED
    BY <2>1
<1> HIDE DEF blocks, slots
<1>3. SetUp(s, g, x) = [x EXCEPT !.blocks = blocks, !.inodes = slots, !.lazy = FALSE]
  BY DEF SetUp, blocks, slots
<1> QED
  BY <1>1, <1>2, <1>3 DEF GroupType, blocks, slots

LEMMA GetGroupParts ==
  ASSUME NEW s \in Setups, NEW g \in Groups(s), NEW x \in StoreType(s), x.group[g].lazy
  PROVE  LET y == GetGroup(s, x, g)
         IN /\ y \in StoreType(s)
            /\ y.group[g] = SetUp(s, g, x.group[g])
            /\ \A h \in Groups(s) : h # g => y.group[h] = x.group[h]
            /\ y.lastGroup = x.lastGroup /\ y.inodeBlocks = x.inodeBlocks
            /\ y.freeBlocks = x.freeBlocks /\ y.freeInodes = x.freeInodes
<1> DEFINE r == SetUp(s, g, x.group[g])
           y == GetGroup(s, x, g)
<1>1. x.group \in [Groups(s) -> GroupType]
  BY StoreFields
<1>2. r \in GroupType
  <2>1. x.group[g] \in GroupType
    BY <1>1
  <2> QED
    BY <2>1, SetUpParts
<1>3. y = [x EXCEPT !.group = [@ EXCEPT ![g] = r]]
  BY DEF GetGroup
<1> HIDE DEF r, y
<1> DEFINE G == [x.group EXCEPT ![g] = r]
<1>4. G \in [Groups(s) -> GroupType] /\ G[g] = r /\ \A h \in Groups(s) : h # g => G[h] = x.group[h]
  BY <1>1, <1>2
<1>5. y = [x EXCEPT !.group = G]
  BY <1>3
<1> HIDE DEF G
<1>6. /\ y \in StoreType(s) /\ y.group = G
      /\ y.lastGroup = x.lastGroup /\ y.inodeBlocks = x.inodeBlocks
      /\ y.freeBlocks = x.freeBlocks /\ y.freeInodes = x.freeInodes
  BY <1>4, <1>5 DEF StoreType
<1> QED
  BY <1>4, <1>6 DEF r, y

LEMMA NoneMine ==
  ASSUME NEW s \in Setups, NEW g \in Groups(s), NEW ids, Mine(s, ids, g) = {},
         DOMAIN ids \subseteq 1 .. s.inodes
  PROVE  FreeSlots(s, ids, g) = 0 .. InodesIn(s, g) - 1
<1>1. SUFFICES ASSUME NEW i \in 0 .. InodesIn(s, g) - 1, InodeAt(s, i, g) \in DOMAIN ids PROVE FALSE
  BY DEF FreeSlots
<1>2. g \in Nat /\ s.ipg \in Nat \ {0} /\ i \in 0 .. s.ipg - 1
  BY <1>1, GroupParts, GroupsAre, ShareOfGroup
<1>3. (g * s.ipg + i) \div s.ipg = g
  BY <1>2, DivModIs, ZenonT(30)
<1>4. InodeGroup(s, InodeAt(s, i, g)) = g
  <2>1. g * s.ipg \in Nat
    BY <1>2
  <2>2. InodeAt(s, i, g) - 1 = g * s.ipg + i
    BY <1>2, <2>1 DEF InodeAt
  <2> QED
    BY <1>3, <2>2 DEF InodeGroup
<1> QED
  BY <1>1, <1>4 DEF Mine

\* Setting up a group changes nothing that is promised: the bitmaps it gets agree
\* with the counters it already had.
LEMMA GetGroupKeeps ==
  ASSUME NEW s \in Setups, NEW g \in Groups(s), NEW x, NEW H, NEW ids, Sound(s, x, H, ids)
  PROVE  /\ Sound(s, GetGroup(s, x, g), H, ids) /\ GetGroup(s, x, g) \in StoreType(s)
         /\ ~GetGroup(s, x, g).group[g].lazy
         /\ GetGroup(s, x, g).lastGroup = x.lastGroup
<1> DEFINE y == GetGroup(s, x, g)
<1>1. x \in StoreType(s) /\ x.group[g] \in GroupType
  BY StoreFields DEF Sound
<1>2. CASE ~x.group[g].lazy
  <2>1. y = x
    BY <1>2 DEF GetGroup
  <2> QED
    BY <1>1, <1>2, <2>1
<1>3. CASE x.group[g].lazy
  <2> DEFINE r == SetUp(s, g, x.group[g])
  <2>1. /\ y \in StoreType(s)
        /\ y.group[g] = r
        /\ \A h \in Groups(s) : h # g => y.group[h] = x.group[h]
        /\ y.lastGroup = x.lastGroup /\ y.inodeBlocks = x.inodeBlocks
        /\ y.freeBlocks = x.freeBlocks /\ y.freeInodes = x.freeInodes
    BY <1>1, <1>3, GetGroupParts
  <2>2. /\ r.blocks = InitBlockBitmap(s, g) /\ r.inodes = InitInodeBitmap(s)
        /\ r.free = x.group[g].free /\ r.freeInodes = x.group[g].freeInodes
        /\ r.dirs = x.group[g].dirs /\ r.unused = x.group[g].unused /\ r.lazy = FALSE
        /\ r \in GroupType
    BY <1>1, SetUpParts
  <2> HIDE DEF r, y
  <2>3. /\ BlocksSound(s, x.group[g], H, g) /\ InodesSound(s, x.group[g], ids, g)
        /\ CallersSound(s, H, ids)
    BY DEF Sound
  <2>4. BlocksSound(s, r, H, g)
    <3>1. g \in s.lazy /\ \A p \in H : GroupOf(s, p) # g
      BY <1>3, <2>3 DEF BlocksSound
    <3>2. FreeBits(s, H, g) = FreeBits(s, {}, g)
      <4>1. \A i \in Existing(s, g) : BlockAt(s, i, g) \notin H
        BY <3>1, BlockOfBit
      <4> QED
        BY <4>1 DEF FreeBits
    <3>3. (0 .. BitmapBits - 1) \ r.blocks = FreeBits(s, H, g)
      BY <2>2, <3>1, <3>2, LateBitmap
    <3> QED
      BY <2>2, <2>3, <3>3 DEF BlocksSound
  <2>5. InodesSound(s, r, ids, g)
    <3>1. Mine(s, ids, g) = {}
      BY <1>3, <2>3 DEF InodesSound
    <3>2. FreeSlots(s, ids, g) = 0 .. InodesIn(s, g) - 1
      BY <2>3, <3>1, NoneMine DEF CallersSound
    <3>3. (0 .. InodesIn(s, g) - 1) \ r.inodes = FreeSlots(s, ids, g)
      <4>1. r.inodes = s.ipg .. BitmapBits - 1
        BY <2>2, LateInodeBitmap
      <4>2. InodesIn(s, g) \in Nat /\ InodesIn(s, g) <= s.ipg /\ s.ipg \in Nat
        BY ShareOfGroup, GroupParts
      <4> QED
        BY <3>2, <4>1, <4>2
    <3> QED
      BY <2>2, <2>3, <3>3 DEF InodesSound
  <2>6. \A h \in Groups(s) : BlocksSound(s, y.group[h], H, h) /\ InodesSound(s, y.group[h], ids, h)
    <3>1. SUFFICES ASSUME NEW h \in Groups(s)
                   PROVE  BlocksSound(s, y.group[h], H, h) /\ InodesSound(s, y.group[h], ids, h)
      OBVIOUS
    <3>2. CASE h = g
      BY <2>1, <2>4, <2>5, <3>2
    <3>3. CASE h # g
      BY <2>1, <3>3 DEF Sound
    <3> QED
      BY <3>2, <3>3
  <2>7. Total(s, y.group) = Total(s, x.group)
    <3>1. \A k \in Groups(s) : x.group[k].free \in Int
      BY <1>1, StoreFields, GroupFields
    <3>2. y.group[g].free = x.group[g].free /\ y.group[g].free \in Int
      BY <2>1, <2>2, <3>1
    <3>3. \A k \in Groups(s) : k # g => y.group[k].free = x.group[k].free
      BY <2>1
    <3>4. /\ Total(s, x.group) \in Int
          /\ Total(s, y.group) = Total(s, x.group) + y.group[g].free - x.group[g].free
      BY <3>1, <3>2, <3>3, SumOfChange
    <3> QED
      BY <3>2, <3>4
  <2>8. Sound(s, y, H, ids)
    BY <2>1, <2>3, <2>6, <2>7 DEF Sound
  <2> QED
    BY <2>1, <2>2, <2>8 DEF y
<1> QED
  BY <1>2, <1>3

----------------------------------------------------------------------------
(* Blocks are taken and given back *)

LEMMA TakeBlockParts ==
  ASSUME NEW s \in Setups, NEW g \in Groups(s), NEW x \in StoreType(s), NEW i \in Int
  PROVE  LET y == TakeBlock(s, x, g, i)
             q == x.group[g]
             r == y.group[g]
         IN /\ y \in StoreType(s)
            /\ r.blocks = q.blocks \cup {i} /\ r.free = q.free - 1 /\ r.inodes = q.inodes
            /\ r.freeInodes = q.freeInodes /\ r.dirs = q.dirs /\ r.unused = q.unused
            /\ r.lazy = q.lazy
            /\ \A h \in Groups(s) : h # g => y.group[h] = x.group[h]
            /\ y.freeBlocks = x.freeBlocks - 1 /\ y.inodeBlocks = x.inodeBlocks + 1
            /\ y.freeInodes = x.freeInodes
<1> DEFINE q == x.group[g]
           bits == q.blocks \cup {i}
           less == q.free - 1
           r == [q EXCEPT !.blocks = bits, !.free = less]
           G == [x.group EXCEPT ![g] = r]
           y == TakeBlock(s, x, g, i)
<1>1. x.group \in [Groups(s) -> GroupType] /\ q \in GroupType
  BY StoreFields
<1>2. bits \in SUBSET Int /\ less \in Int
  BY <1>1, GroupFields
<1>3. y = [x EXCEPT !.group = [@ EXCEPT ![g] = r], !.freeBlocks = @ - 1, !.inodeBlocks = @ + 1]
  <2>1. y = [x EXCEPT !.group[g] = r, !.freeBlocks = @ - 1, !.inodeBlocks = @ + 1]
    BY DEF TakeBlock
  <2> HIDE DEF y, r
  <2> QED
    BY <2>1
<1> HIDE DEF q, bits, less, y
<1>4. /\ r \in GroupType /\ r.blocks = bits /\ r.free = less /\ r.inodes = q.inodes
      /\ r.freeInodes = q.freeInodes /\ r.dirs = q.dirs /\ r.unused = q.unused /\ r.lazy = q.lazy
  BY <1>1, <1>2 DEF GroupType
<1> HIDE DEF r
<1>5. G \in [Groups(s) -> GroupType] /\ G[g] = r /\ \A h \in Groups(s) : h # g => G[h] = x.group[h]
  BY <1>1, <1>4
<1> DEFINE fewer == x.freeBlocks - 1
           more == x.inodeBlocks + 1
<1>6. fewer \in Int /\ more \in Int
  BY StoreFields
<1>7. y = [x EXCEPT !.group = G, !.freeBlocks = fewer, !.inodeBlocks = more]
  BY <1>3
<1> HIDE DEF G, fewer, more
<1>8. /\ y \in StoreType(s) /\ y.group = G /\ y.freeBlocks = fewer /\ y.inodeBlocks = more
      /\ y.freeInodes = x.freeInodes
  BY <1>5, <1>6, <1>7 DEF StoreType
<1> QED
  BY <1>4, <1>5, <1>8 DEF q, bits, less, y, fewer, more

LEMMA TakeBlockKeeps ==
  ASSUME NEW s \in Setups, NEW g \in Groups(s), NEW x, NEW H, NEW ids, Sound(s, x, H, ids),
         ~x.group[g].lazy, NEW i \in FreeBits(s, H, g)
  PROVE  Sound(s, TakeBlock(s, x, g, i), H \cup {BlockAt(s, i, g)}, ids)
<1> DEFINE y == TakeBlock(s, x, g, i)
           p == BlockAt(s, i, g)
           K == H \cup {p}
           q == x.group[g]
           r == y.group[g]
<1>1. /\ x \in StoreType(s) /\ CallersSound(s, H, ids)
      /\ \A h \in Groups(s) : BlocksSound(s, x.group[h], H, h) /\ InodesSound(s, x.group[h], ids, h)
      /\ x.freeBlocks = Total(s, x.group)
      /\ x.inodeBlocks = Cardinality(H)
      /\ x.freeInodes = s.inodes - Cardinality(DOMAIN ids)
  BY DEF Sound
<1>2. i \in Existing(s, g) /\ p \notin H /\ p \notin Fixed(s)
  BY DEF FreeBits
<1>3. p \in s.first .. s.total - 1 /\ GroupOf(s, p) = g /\ IndexOf(s, p) = i
  BY <1>2, BlockOfBit
<1>4. i \in Int /\ i \in 0 .. BlocksIn(s, g) - 1
  BY FreeBitsAre, ShareOfGroup
<1>5. /\ y \in StoreType(s)
      /\ r.blocks = q.blocks \cup {i} /\ r.free = q.free - 1 /\ r.inodes = q.inodes
      /\ r.freeInodes = q.freeInodes /\ r.dirs = q.dirs /\ r.unused = q.unused /\ r.lazy = q.lazy
      /\ \A h \in Groups(s) : h # g => y.group[h] = x.group[h]
      /\ y.freeBlocks = x.freeBlocks - 1 /\ y.inodeBlocks = x.inodeBlocks + 1
      /\ y.freeInodes = x.freeInodes
  BY <1>1, <1>4, TakeBlockParts
<1>6. q \in GroupType /\ q.free \in Int /\ \A k \in Groups(s) : x.group[k].free \in Int
  BY <1>1, StoreFields, GroupFields
<1> HIDE DEF y, p, r
<1>8. FreeBits(s, K, g) = FreeBits(s, H, g) \ {i}
  <2>1. \A j \in Existing(s, g) : BlockAt(s, j, g) = p <=> j = i
    BY <1>2, <1>3, BlockOfBit DEF p
  <2> QED
    BY <2>1 DEF FreeBits
<1>9. Cardinality(FreeBits(s, K, g)) = Cardinality(FreeBits(s, H, g)) - 1
  BY <1>8, FreeBitsAre, FS_RemoveElement
<1>10. BlocksSound(s, r, K, g)
  <2>1. BlocksSound(s, q, H, g) /\ ~q.lazy
    BY <1>1
  <2>2. (0 .. BitmapBits - 1) \ r.blocks = FreeBits(s, K, g)
    BY <1>5, <1>8, <2>1 DEF BlocksSound
  <2> QED
    BY <1>5, <1>9, <2>1, <2>2 DEF BlocksSound
<1>11. InodesSound(s, r, ids, g)
  BY <1>1, <1>5 DEF InodesSound
<1>12. \A h \in Groups(s) : h # g => BlocksSound(s, x.group[h], K, h)
  <2>1. SUFFICES ASSUME NEW h \in Groups(s), h # g PROVE BlocksSound(s, x.group[h], K, h)
    OBVIOUS
  <2>2. \A j \in Existing(s, h) : BlockAt(s, j, h) # p
    BY <1>3, <2>1, BlockOfBit
  <2>3. FreeBits(s, K, h) = FreeBits(s, H, h)
    BY <2>2 DEF FreeBits
  <2>4. \A b \in K : GroupOf(s, b) = h => b \in H
    BY <1>3, <2>1
  <2> QED
    BY <1>1, <2>3, <2>4 DEF BlocksSound
<1>13. \A h \in Groups(s) : BlocksSound(s, y.group[h], K, h) /\ InodesSound(s, y.group[h], ids, h)
  BY <1>1, <1>5, <1>10, <1>11, <1>12 DEF r
<1>14. y.freeBlocks = Total(s, y.group)
  <2>1. y.group[g].free = q.free - 1 /\ y.group[g].free \in Int
    BY <1>5, <1>6 DEF r
  <2>2. \A k \in Groups(s) : k # g => y.group[k].free = x.group[k].free
    BY <1>5
  <2>3. /\ Total(s, x.group) \in Int
        /\ Total(s, y.group) = Total(s, x.group) + y.group[g].free - x.group[g].free
    BY <1>6, <2>1, <2>2, SumOfChange
  <2> QED
    BY <1>1, <1>5, <1>6, <2>1, <2>3
<1>15. CallersSound(s, K, ids) /\ Cardinality(K) = Cardinality(H) + 1
  <2>1. IsFiniteSet(H) /\ H \subseteq s.first .. s.total - 1 /\ H \cap Fixed(s) = {}
    BY <1>1 DEF CallersSound
  <2>2. IsFiniteSet(K) /\ Cardinality(K) = Cardinality(H) + 1
    BY <1>2, <2>1, FS_AddElement DEF p
  <2>3. K \subseteq s.first .. s.total - 1 /\ K \cap Fixed(s) = {}
    BY <1>2, <1>3, <2>1 DEF p
  <2> QED
    BY <1>1, <2>2, <2>3 DEF CallersSound
<1>16. Sound(s, y, K, ids)
  BY <1>1, <1>5, <1>13, <1>14, <1>15 DEF Sound
<1> QED
  BY <1>16 DEF y, p

LEMMA GiveBitsParts ==
  ASSUME NEW s \in Setups, NEW g \in Groups(s), NEW x, NEW y \in StoreType(s),
         y = GetGroup(s, x, g), NEW i \in Int, NEW n \in Int
  PROVE  LET z == GiveBits(s, x, g, i, n)
             q == y.group[g]
             r == z.group[g]
         IN /\ z \in StoreType(s)
            /\ r.blocks = q.blocks \ (i .. i + n - 1) /\ r.free = q.free + n /\ r.inodes = q.inodes
            /\ r.freeInodes = q.freeInodes /\ r.dirs = q.dirs /\ r.unused = q.unused
            /\ r.lazy = q.lazy
            /\ \A h \in Groups(s) : h # g => z.group[h] = y.group[h]
            /\ z.freeBlocks = y.freeBlocks + n /\ z.inodeBlocks = y.inodeBlocks - n
            /\ z.freeInodes = y.freeInodes
<1> DEFINE q == y.group[g]
           bits == q.blocks \ (i .. i + n - 1)
           more == q.free + n
           r == [q EXCEPT !.blocks = bits, !.free = more]
           G == [y.group EXCEPT ![g] = r]
           z == GiveBits(s, x, g, i, n)
<1>1. y.group \in [Groups(s) -> GroupType] /\ q \in GroupType
  BY StoreFields
<1>2. bits \in SUBSET Int /\ more \in Int
  BY <1>1, GroupFields
<1>3. z = [y EXCEPT !.group = [@ EXCEPT ![g] = r], !.freeBlocks = @ + n, !.inodeBlocks = @ - n]
  BY DEF GiveBits
<1> HIDE DEF q, bits, more, z
<1>4. /\ r \in GroupType /\ r.blocks = bits /\ r.free = more /\ r.inodes = q.inodes
      /\ r.freeInodes = q.freeInodes /\ r.dirs = q.dirs /\ r.unused = q.unused /\ r.lazy = q.lazy
  BY <1>1, <1>2 DEF GroupType
<1> HIDE DEF r
<1>5. G \in [Groups(s) -> GroupType] /\ G[g] = r /\ \A h \in Groups(s) : h # g => G[h] = y.group[h]
  BY <1>1, <1>4
<1> DEFINE all == y.freeBlocks + n
           mine == y.inodeBlocks - n
<1>6. all \in Int /\ mine \in Int
  BY StoreFields
<1>7. z = [y EXCEPT !.group = G, !.freeBlocks = all, !.inodeBlocks = mine]
  BY <1>3
<1> HIDE DEF G, all, mine
<1>8. /\ z \in StoreType(s) /\ z.group = G /\ z.freeBlocks = all /\ z.inodeBlocks = mine
      /\ z.freeInodes = y.freeInodes
  BY <1>5, <1>6, <1>7 DEF StoreType
<1> QED
  BY <1>4, <1>5, <1>8 DEF q, bits, more, z, all, mine

LEMMA GiveBitsKeeps ==
  ASSUME NEW s \in Setups, NEW g \in Groups(s), NEW x, NEW H, NEW ids, Sound(s, x, H, ids),
         NEW i \in Nat, NEW n \in Nat, i + n <= s.bpg,
         BlockAt(s, i, g) .. BlockAt(s, i, g) + n - 1 \subseteq H
  PROVE  Sound(s, GiveBits(s, x, g, i, n), H \ (BlockAt(s, i, g) .. BlockAt(s, i, g) + n - 1), ids)
<1> DEFINE y == GetGroup(s, x, g)
           z == GiveBits(s, x, g, i, n)
           R == BlockAt(s, i, g) .. BlockAt(s, i, g) + n - 1
           I == i .. i + n - 1
           K == H \ R
           q == y.group[g]
           r == z.group[g]
<1>1. /\ y \in StoreType(s) /\ CallersSound(s, H, ids) /\ ~q.lazy
      /\ \A h \in Groups(s) : BlocksSound(s, y.group[h], H, h) /\ InodesSound(s, y.group[h], ids, h)
      /\ y.freeBlocks = Total(s, y.group)
      /\ y.inodeBlocks = Cardinality(H)
      /\ y.freeInodes = s.inodes - Cardinality(DOMAIN ids)
  BY GetGroupKeeps DEF Sound
<1>2. /\ z \in StoreType(s)
      /\ r.blocks = q.blocks \ I /\ r.free = q.free + n /\ r.inodes = q.inodes
      /\ r.freeInodes = q.freeInodes /\ r.dirs = q.dirs /\ r.unused = q.unused /\ r.lazy = q.lazy
      /\ \A h \in Groups(s) : h # g => z.group[h] = y.group[h]
      /\ z.freeBlocks = y.freeBlocks + n /\ z.inodeBlocks = y.inodeBlocks - n
      /\ z.freeInodes = y.freeInodes
  BY <1>1, GiveBitsParts
<1>3. q \in GroupType /\ q.free \in Int /\ \A k \in Groups(s) : y.group[k].free \in Int
  BY <1>1, StoreFields, GroupFields
<1>4. IsFiniteSet(H) /\ H \subseteq s.first .. s.total - 1 /\ H \cap Fixed(s) = {}
  BY <1>1 DEF CallersSound
<1> DEFINE base == BlockAt(s, 0, g)
<1>5. base \in Nat /\ \A j \in Int : BlockAt(s, j, g) = base + j
  BY BlocksInARow
<1>6. R = base + i .. base + i + n - 1 /\ R \subseteq H
  BY <1>5
<1> HIDE DEF y, z, r, q, R, base
<1>7. \A j \in Int : BlockAt(s, j, g) \in R <=> j \in I
  <2>1. SUFFICES ASSUME NEW j \in Int PROVE base + j \in R <=> j \in I
    BY <1>5
  <2> QED
    BY <1>5, <1>6
<1>8. I \subseteq Existing(s, g) /\ I \subseteq 0 .. BitmapBits - 1
  <2>1. SUFFICES ASSUME NEW j \in I PROVE j \in Existing(s, g) /\ j \in 0 .. BitmapBits - 1
    OBVIOUS
  <2>2. s.bpg \in Nat /\ s.bpg <= BitmapBits /\ BitmapBits \in Nat /\ s.first \in {0, 1}
        /\ s.total \in Nat
    BY GroupParts, ConstantParts
  <2>3. j \in 0 .. s.bpg - 1 /\ j \in 0 .. BitmapBits - 1
    BY <2>2
  <2>4. BlockAt(s, j, g) < s.total
    BY <1>4, <1>6, <1>7, <2>2
  <2> QED
    BY <2>3, <2>4 DEF Existing
<1>9. FreeBits(s, K, g) = FreeBits(s, H, g) \cup I /\ FreeBits(s, H, g) \cap I = {}
  <2>1. \A j \in Existing(s, g) : j \in Int
    BY GroupParts DEF Existing
  <2> QED
    BY <1>4, <1>6, <1>7, <1>8, <2>1 DEF FreeBits
<1>10. Cardinality(I) = n /\ IsFiniteSet(I)
  BY FS_Interval
<1>11. Cardinality(FreeBits(s, K, g)) = Cardinality(FreeBits(s, H, g)) + n
  <2>1. IsFiniteSet(FreeBits(s, H, g)) /\ Cardinality(FreeBits(s, H, g)) \in Nat
    BY FreeBitsAre
  <2>2. Cardinality(FreeBits(s, H, g) \cup I)
          = Cardinality(FreeBits(s, H, g)) + Cardinality(I) - Cardinality(FreeBits(s, H, g) \cap I)
    BY <1>10, <2>1, FS_Union
  <2>3. Cardinality(FreeBits(s, H, g) \cap I) = 0
    BY <1>9, FS_EmptySet
  <2> QED
    <3>1. Cardinality(FreeBits(s, K, g)) = Cardinality(FreeBits(s, H, g) \cup I)
      BY <1>9
    <3> HIDE DEF I
    <3> QED
      BY <1>10, <2>1, <2>2, <2>3, <3>1
<1>12. BlocksSound(s, r, K, g)
  <2>1. BlocksSound(s, q, H, g) /\ ~q.lazy
    BY <1>1 DEF q
  <2>2. (0 .. BitmapBits - 1) \ r.blocks = FreeBits(s, K, g)
    BY <1>2, <1>8, <1>9, <2>1 DEF BlocksSound
  <2> QED
    BY <1>2, <1>11, <2>1, <2>2 DEF BlocksSound
<1>13. InodesSound(s, r, ids, g)
  <2>1. InodesSound(s, q, ids, g)
    BY <1>1 DEF q
  <2> QED
    BY <1>2, <2>1 DEF InodesSound
<1>14. \A h \in Groups(s) : h # g => BlocksSound(s, y.group[h], K, h)
  <2>1. SUFFICES ASSUME NEW h \in Groups(s), h # g PROVE BlocksSound(s, y.group[h], K, h)
    OBVIOUS
  <2>2. \A j \in Existing(s, h) : BlockAt(s, j, h) \notin R
    <3>1. SUFFICES ASSUME NEW p \in R PROVE GroupOf(s, p) = g
      BY <2>1, BlockOfBit
    <3>2. p - base \in I /\ BlockAt(s, p - base, g) = p
      BY <1>5, <1>6
    <3> QED
      BY <1>8, <3>2, BlockOfBit
  <2>3. FreeBits(s, K, h) = FreeBits(s, H, h)
    BY <2>2 DEF FreeBits
  <2> QED
    BY <1>1, <2>3 DEF BlocksSound
<1>15. \A h \in Groups(s) : BlocksSound(s, z.group[h], K, h) /\ InodesSound(s, z.group[h], ids, h)
  BY <1>1, <1>2, <1>12, <1>13, <1>14 DEF r
<1>16. z.freeBlocks = Total(s, z.group)
  <2>1. z.group[g].free = q.free + n /\ z.group[g].free \in Int /\ y.group[g].free = q.free
    BY <1>2, <1>3 DEF r, q
  <2>2. \A k \in Groups(s) : k # g => z.group[k].free = y.group[k].free
    BY <1>2
  <2>3. /\ Total(s, y.group) \in Int
        /\ Total(s, z.group) = Total(s, y.group) + z.group[g].free - y.group[g].free
    BY <1>3, <2>1, <2>2, SumOfChange
  <2> QED
    BY <1>1, <1>2, <1>3, <2>1, <2>3
<1>17. CallersSound(s, K, ids) /\ Cardinality(K) = Cardinality(H) - n
  <2>1. IsFiniteSet(K) /\ Cardinality(K) = Cardinality(H) - Cardinality(H \cap R)
    BY <1>4, FS_Difference
  <2>2. H \cap R = R
    BY <1>6
  <2>3. Cardinality(R) = n
    <3>1. base + i \in Int /\ base + i + n - 1 \in Int
      BY <1>5
    <3>2. Cardinality(base + i .. base + i + n - 1)
            = IF base + i > base + i + n - 1 THEN 0 ELSE (base + i + n - 1) - (base + i) + 1
      BY <3>1, FS_Interval
    <3> QED
      BY <1>5, <1>6, <3>2
  <2>4. K \subseteq s.first .. s.total - 1 /\ K \cap Fixed(s) = {}
    BY <1>4
  <2> QED
    BY <1>1, <2>1, <2>2, <2>3, <2>4 DEF CallersSound
<1>18. Sound(s, z, K, ids)
  BY <1>1, <1>2, <1>15, <1>16, <1>17 DEF Sound
<1> QED
  BY <1>18 DEF z, R

----------------------------------------------------------------------------
(* A block is looked for *)

\* Round the groups, each comes by.
LEMMA RoundTheGroups ==
  ASSUME NEW n \in Nat \ {0}, NEW g \in Nat, NEW h \in 0 .. n - 1
  PROVE  \E k \in 0 .. n - 1 : (g + k) % n = h
<1> DEFINE q == g \div n
           r == g % n
<1>1. q \in Nat /\ r \in 0 .. n - 1 /\ g = q * n + r
  BY DivMod
<1> HIDE DEF q, r
<1>2. q * n \in Nat /\ (q + 1) * n = q * n + n
  BY <1>1
<1>3. (q * n + h) % n = h /\ ((q + 1) * n + h) % n = h
  BY <1>1, DivModIs
<1>4. CASE r <= h
  <2>1. h - r \in 0 .. n - 1 /\ g + (h - r) = q * n + h
    BY <1>1, <1>2, <1>4
  <2> QED
    BY <1>3, <2>1
<1>5. CASE h < r
  <2>1. (h + n) - r \in 0 .. n - 1 /\ g + ((h + n) - r) = (q + 1) * n + h
    BY <1>1, <1>2, <1>5
  <2> QED
    BY <1>3, <2>1
<1> QED
  BY <1>1, <1>4, <1>5

LEMMA OthersAreAll ==
  ASSUME NEW s \in Setups, NEW g \in Nat
  PROVE  /\ \A k \in 1 .. GroupCount(s) : Others(s, g)[k] \in Groups(s)
         /\ \A h \in Groups(s) : \E k \in 1 .. GroupCount(s) : Others(s, g)[k] = h
<1> DEFINE n == GroupCount(s)
<1>1. n \in Nat \ {0} /\ Groups(s) = 0 .. n - 1
  BY GroupParts DEF Groups
<1>2. \A k \in 1 .. n : Others(s, g)[k] = (g + k) % n
  BY DEF Others
<1> HIDE DEF n
<1>3. \A k \in 1 .. n : (g + k) % n \in 0 .. n - 1
  BY <1>1
<1>4. ASSUME NEW h \in 0 .. n - 1 PROVE \E k \in 1 .. n : (g + k) % n = h
  <2> DEFINE next == g + 1
  <2>1. next \in Nat
    OBVIOUS
  <2> HIDE DEF next
  <2>2. PICK k \in 0 .. n - 1 : (next + k) % n = h
    BY <1>1, <2>1, RoundTheGroups
  <2>3. k + 1 \in 1 .. n /\ g + (k + 1) = next + k
    BY <1>1 DEF next
  <2> QED
    BY <2>2, <2>3
<1> QED
  BY <1>1, <1>2, <1>3, <1>4 DEF n

SearchUpTo(s, w, order, f, n) ==
  f = [k \in 0 .. n |-> IF k = 0 THEN w ELSE TryGroup(s, f[k - 1], order[k])]

LEMMA SearchExists ==
  ASSUME NEW s, NEW w, NEW order
  PROVE  \A n \in Nat : \E f : SearchUpTo(s, w, order, f, n)
<1> DEFINE S == {n \in Nat : \E f : SearchUpTo(s, w, order, f, n)}
<1>1. 0 \in S
  <2> DEFINE f == [k \in 0 .. 0 |-> w]
  <2>1. SearchUpTo(s, w, order, f, 0)
    BY DEF SearchUpTo
  <2> QED
    BY <2>1
<1>2. ASSUME NEW n \in Nat, n \in S PROVE n + 1 \in S
  <2>1. PICK f : SearchUpTo(s, w, order, f, n)
    BY <1>2
  <2> DEFINE h == [k \in 0 .. n + 1 |-> IF k = n + 1 THEN TryGroup(s, f[n], order[n + 1]) ELSE f[k]]
  <2>2. \A k \in 0 .. n : f[k] = IF k = 0 THEN w ELSE TryGroup(s, f[k - 1], order[k])
    BY <2>1 DEF SearchUpTo
  <2>3. \A k \in 0 .. n + 1 : h[k] = IF k = 0 THEN w ELSE TryGroup(s, h[k - 1], order[k])
    BY <2>2
  <2>4. h = [k \in 0 .. n + 1 |-> h[k]]
    OBVIOUS
  <2>5. SearchUpTo(s, w, order, h, n + 1)
    BY <2>3, <2>4 DEF SearchUpTo
  <2> QED
    BY <2>5
<1> HIDE DEF S
<1>3. \A n \in Nat : n \in S
  BY <1>1, <1>2, AllTurns
<1> QED
  BY <1>3 DEF S

\* What is found is a free block; before that the groups that came by had none.
Found(s, w, H, ids) ==
  /\ Sound(s, w.x, H, ids)
  /\ w.at # -1 => w.g \in Groups(s) /\ ~w.x.group[w.g].lazy /\ w.at \in FreeBits(s, H, w.g)

LEMMA TryGroupFinds ==
  ASSUME NEW s \in Setups, NEW h \in Groups(s), NEW w, NEW H, NEW ids, Found(s, w, H, ids)
  PROVE  /\ Found(s, TryGroup(s, w, h), H, ids)
         /\ TryGroup(s, w, h).at = -1 => w.at = -1 /\ FreeBits(s, H, h) = {}
<1> DEFINE v == TryGroup(s, w, h)
           y == GetGroup(s, w.x, h)
<1>1. CASE w.at # -1
  <2>1. v = w
    BY <1>1 DEF TryGroup
  <2> QED
    BY <1>1, <2>1
<1>2. CASE w.at = -1
  <2>1. /\ Sound(s, y, H, ids) /\ ~y.group[h].lazy
    BY GetGroupKeeps DEF Found
  <2> DEFINE at == IF y.group[h].free = 0 THEN -1
                   ELSE FindClear(y.group[h].blocks, 0, BlocksIn(s, h))
  <2>2. v = [x |-> y, g |-> h, at |-> at]
    BY <1>2 DEF TryGroup
  <2> HIDE DEF v, y
  <2>3. /\ y.group[h].free = Cardinality(FreeBits(s, H, h))
        /\ (0 .. BitmapBits - 1) \ y.group[h].blocks = FreeBits(s, H, h)
    BY <2>1 DEF Sound, BlocksSound
  <2>4. /\ BlocksIn(s, h) \in Nat /\ BlocksIn(s, h) <= BitmapBits /\ BitmapBits \in Nat
        /\ FreeBits(s, H, h) \subseteq 0 .. BlocksIn(s, h) - 1
        /\ IsFiniteSet(FreeBits(s, H, h))
    BY ShareOfGroup, ConstantParts, FreeBitsAre
  <2>5. at # -1 => at \in FreeBits(s, H, h)
    BY <2>3, <2>4, FindsClear
  <2>6. at = -1 => FreeBits(s, H, h) = {}
    <3>1. CASE y.group[h].free = 0
      BY <2>3, <2>4, <3>1, FS_EmptySet
    <3>2. CASE y.group[h].free # 0
      BY <2>3, <2>4, <3>2, FindsClear
    <3> QED
      BY <3>1, <3>2
  <2> HIDE DEF at
  <2>7. v.x = y /\ v.g = h /\ v.at = at
    BY <2>2
  <2>8. Found(s, v, H, ids)
    BY <2>1, <2>5, <2>7 DEF Found
  <2> QED
    BY <1>2, <2>6, <2>7, <2>8 DEF v
<1> QED
  BY <1>1, <1>2

LEMMA SearchFinds ==
  ASSUME NEW s \in Setups, NEW g \in Nat, NEW w, NEW H, NEW ids, Found(s, w, H, ids),
         NEW f, SearchUpTo(s, w, Others(s, g), f, GroupCount(s))
  PROVE  /\ Found(s, f[GroupCount(s)], H, ids)
         /\ f[GroupCount(s)].at = -1 => \A h \in Groups(s) : FreeBits(s, H, h) = {}
<1> DEFINE n == GroupCount(s)
           order == Others(s, g)
           S == {k \in Nat : k <= n =>
                   /\ Found(s, f[k], H, ids)
                   /\ f[k].at = -1 => \A j \in 1 .. k : FreeBits(s, H, order[j]) = {}}
<1>1. n \in Nat /\ \A k \in 1 .. n : order[k] \in Groups(s)
  BY GroupParts, OthersAreAll
<1>2. \A k \in 0 .. n : f[k] = IF k = 0 THEN w ELSE TryGroup(s, f[k - 1], order[k])
  BY DEF SearchUpTo
<1>3. \A h \in Groups(s) : \E k \in 1 .. n : order[k] = h
  BY OthersAreAll
<1> HIDE DEF n, order
<1>4. 0 \in S
  BY <1>1, <1>2
<1>5. ASSUME NEW k \in Nat, k \in S PROVE k + 1 \in S
  <2>1. SUFFICES ASSUME k + 1 <= n
                 PROVE  /\ Found(s, f[k + 1], H, ids)
                        /\ f[k + 1].at = -1 => \A j \in 1 .. k + 1 : FreeBits(s, H, order[j]) = {}
    OBVIOUS
  <2>2. /\ Found(s, f[k], H, ids)
        /\ f[k].at = -1 => \A j \in 1 .. k : FreeBits(s, H, order[j]) = {}
    BY <1>1, <1>5, <2>1
  <2>3. f[k + 1] = TryGroup(s, f[k], order[k + 1]) /\ order[k + 1] \in Groups(s)
    BY <1>1, <1>2, <2>1
  <2>4. /\ Found(s, f[k + 1], H, ids)
        /\ f[k + 1].at = -1 => f[k].at = -1 /\ FreeBits(s, H, order[k + 1]) = {}
    BY <2>2, <2>3, TryGroupFinds
  <2> QED
    BY <2>2, <2>4
<1> HIDE DEF S
<1>6. n \in S
  BY <1>1, <1>4, <1>5, AllTurns
<1>7. /\ Found(s, f[n], H, ids)
      /\ f[n].at = -1 => \A j \in 1 .. n : FreeBits(s, H, order[j]) = {}
  BY <1>1, <1>6 DEF S
<1> QED
  BY <1>3, <1>7 DEF n

\* When no group has a free bit, every block is held or fixed.
LEMMA NoneIsFree ==
  ASSUME NEW s \in Setups, NEW H, \A h \in Groups(s) : FreeBits(s, H, h) = {}
  PROVE  0 .. s.total - 1 \subseteq H \cup Fixed(s)
<1>1. SUFFICES ASSUME NEW p \in 0 .. s.total - 1 PROVE p \in H \cup Fixed(s)
  OBVIOUS
<1>2. CASE p \in 0 .. s.first - 1
  BY <1>2 DEF Fixed
<1>3. CASE p \in s.first .. s.total - 1
  <2>1. /\ GroupOf(s, p) \in Groups(s) /\ IndexOf(s, p) \in Existing(s, GroupOf(s, p))
        /\ BlockAt(s, IndexOf(s, p), GroupOf(s, p)) = p
    BY <1>3, BitOfBlock
  <2>2. IndexOf(s, p) \notin FreeBits(s, H, GroupOf(s, p))
    BY <2>1
  <2> QED
    BY <2>1, <2>2 DEF FreeBits
<1> QED
  BY <1>1, <1>2, <1>3, GroupParts

\* Whatever the goal: a block that nobody holds, or none when every block is taken.
LEMMA AllocBlockFinds ==
  ASSUME NEW s \in Setups, NEW goal \in Nat, NEW x, NEW H, NEW ids, Sound(s, x, H, ids)
  PROVE  LET r == AllocBlock(s, x, goal)
         IN /\ r.err = "EOK" => r.p \notin H /\ Sound(s, r.x, H \cup {r.p}, ids)
            /\ r.err # "EOK" => Sound(s, r.x, H, ids)
            /\ r.err = "ENOSPC" => 0 .. s.total - 1 \subseteq H \cup Fixed(s)
<1> DEFINE g == GroupOf(s, goal)
           known == g \in Groups(s)
           own == IF known THEN GetGroup(s, x, g) ELSE x
           at == IF known /\ own.group[g].free # 0
                 THEN NearGoal(s, own.group[g].blocks, IndexOf(s, goal), g) ELSE -1
           w == [x |-> own, at |-> -1, g |-> g]
           n == GroupCount(s)
           walk == CHOOSE f : SearchUpTo(s, w, Others(s, g), f, n)
           end == walk[n]
           r == AllocBlock(s, x, goal)
<1>1. r = CASE ~GroupOnDevice(s, g) -> [x |-> x, p |-> 0, err |-> "ENXIO"]
            [] GroupOnDevice(s, g) /\ at # -1 ->
                 [x |-> TakeBlock(s, own, g, at), p |-> BlockAt(s, at, g), err |-> "EOK"]
            [] GroupOnDevice(s, g) /\ at = -1 /\ end.at # -1 ->
                 [x |-> TakeBlock(s, end.x, end.g, end.at), p |-> BlockAt(s, end.at, end.g), err |-> "EOK"]
            [] OTHER -> [x |-> end.x, p |-> 0, err |-> "ENOSPC"]
  BY DEF AllocBlock, SearchUpTo
<1>2. g \in Nat /\ IndexOf(s, goal) \in 0 .. s.bpg - 1
  BY PlacesOf
<1>3. Sound(s, own, H, ids) /\ (known => ~own.group[g].lazy)
  BY GetGroupKeeps
<1>4. known /\ at # -1 => at \in FreeBits(s, H, g)
  <2>1. SUFFICES ASSUME known, at # -1 PROVE at \in FreeBits(s, H, g)
    OBVIOUS
  <2>2. (0 .. BitmapBits - 1) \ own.group[g].blocks = FreeBits(s, H, g)
    BY <1>3, <2>1 DEF Sound, BlocksSound
  <2>3. /\ BlocksIn(s, g) \in Nat /\ BlocksIn(s, g) <= BitmapBits
        /\ IndexOf(s, goal) \in Nat /\ IndexOf(s, goal) < BitmapBits
    BY <1>2, <2>1, ShareOfGroup, GroupParts, ConstantParts
  <2>4. at = NearGoal(s, own.group[g].blocks, IndexOf(s, goal), g)
    BY <2>1
  <2> HIDE DEF at, own, g
  <2>5. at \in (0 .. BitmapBits - 1) \ own.group[g].blocks
    BY <2>1, <2>3, <2>4, NearIsClear
  <2> QED
    BY <2>2, <2>5
<1>5. SearchUpTo(s, w, Others(s, g), walk, n)
  <2>1. n \in Nat
    BY GroupParts
  <2> HIDE DEF w, n, g
  <2> QED
    BY <2>1, SearchExists
<1>6. Found(s, w, H, ids)
  <2> HIDE DEF own, g
  <2> QED
    BY <1>3 DEF Found
<1>7. Found(s, end, H, ids) /\ (end.at = -1 => \A h \in Groups(s) : FreeBits(s, H, h) = {})
  <2> HIDE DEF w, walk, g
  <2> QED
    BY <1>2, <1>5, <1>6, SearchFinds
<1>8. at # -1 => known
  OBVIOUS
<1> HIDE DEF end, own, at, g, r
<1>9. ASSUME NEW y, NEW h \in Groups(s), NEW i \in FreeBits(s, H, h), Sound(s, y, H, ids), ~y.group[h].lazy
      PROVE  BlockAt(s, i, h) \notin H /\ Sound(s, TakeBlock(s, y, h, i), H \cup {BlockAt(s, i, h)}, ids)
  BY <1>9, TakeBlockKeeps DEF FreeBits
<1>10. CASE ~GroupOnDevice(s, g)
  <2>1. r.err = "ENXIO" /\ r.x = x
    BY <1>1, <1>10
  <2> QED
    BY <2>1 DEF r
<1>11. CASE GroupOnDevice(s, g) /\ at # -1
  <2>1. r.err = "EOK" /\ r.x = TakeBlock(s, own, g, at) /\ r.p = BlockAt(s, at, g)
    BY <1>1, <1>11
  <2> QED
    BY <1>3, <1>4, <1>8, <1>9, <1>11, <2>1 DEF r
<1>12. CASE GroupOnDevice(s, g) /\ at = -1 /\ end.at # -1
  <2>1. r.err = "EOK" /\ r.x = TakeBlock(s, end.x, end.g, end.at) /\ r.p = BlockAt(s, end.at, end.g)
    BY <1>1, <1>12
  <2>2. Sound(s, end.x, H, ids) /\ end.g \in Groups(s) /\ ~end.x.group[end.g].lazy
        /\ end.at \in FreeBits(s, H, end.g)
    BY <1>7, <1>12 DEF Found
  <2> QED
    BY <1>9, <2>1, <2>2 DEF r
<1>13. CASE GroupOnDevice(s, g) /\ at = -1 /\ end.at = -1
  <2>1. r.err = "ENOSPC" /\ r.x = end.x
    BY <1>1, <1>13
  <2>2. Sound(s, end.x, H, ids) /\ 0 .. s.total - 1 \subseteq H \cup Fixed(s)
    BY <1>7, <1>13, NoneIsFree DEF Found
  <2> QED
    BY <2>1, <2>2 DEF r
<1> QED
  BY <1>10, <1>11, <1>12, <1>13

LEMMA TryAllocFinds ==
  ASSUME NEW s \in Setups, NEW p \in s.first .. s.total - 1, NEW x, NEW H, NEW ids,
         Sound(s, x, H, ids)
  PROVE  LET r == TryAllocBlock(s, x, p)
         IN Sound(s, r.x, IF r.free THEN H \cup {p} ELSE H, ids)
<1> DEFINE g == GroupOf(s, p)
           i == IndexOf(s, p)
           y == GetGroup(s, x, g)
           free == i \notin y.group[g].blocks
           r == TryAllocBlock(s, x, p)
<1>1. g \in Groups(s) /\ i \in Existing(s, g) /\ BlockAt(s, i, g) = p
  BY BitOfBlock
<1>2. Sound(s, y, H, ids) /\ ~y.group[g].lazy
  BY <1>1, GetGroupKeeps
<1>3. r = [free |-> free, x |-> IF free THEN TakeBlock(s, y, g, i) ELSE y]
  BY DEF TryAllocBlock
<1>4. free => i \in FreeBits(s, H, g)
  <2>1. (0 .. BitmapBits - 1) \ y.group[g].blocks = FreeBits(s, H, g)
    BY <1>1, <1>2 DEF Sound, BlocksSound
  <2>2. i \in 0 .. BitmapBits - 1
    <3>1. i \in 0 .. s.bpg - 1 /\ s.bpg \in Nat /\ s.bpg <= BitmapBits
      BY <1>1, GroupParts DEF Existing
    <3> QED
      BY <3>1, ConstantParts
  <2> QED
    BY <2>1, <2>2
<1> HIDE DEF y, g, i, r, free
<1>5. CASE free
  <2>1. r.free = TRUE /\ r.x = TakeBlock(s, y, g, i)
    BY <1>3, <1>5
  <2> QED
    BY <1>1, <1>2, <1>4, <1>5, <2>1, TakeBlockKeeps DEF r
<1>6. CASE ~free
  <2>1. r.free = FALSE /\ r.x = y
    BY <1>3, <1>6
  <2> QED
    BY <1>2, <2>1 DEF r
<1> QED
  BY <1>5, <1>6

----------------------------------------------------------------------------
(* A range is given back, group by group *)

LEMMA GroupOfIs ==
  ASSUME NEW s \in Setups, NEW e \in Nat, NEW i \in 0 .. s.bpg - 1
  PROVE  GroupOf(s, s.first + e * s.bpg + i) = e
<1>1. s.first \in {0, 1} /\ s.bpg \in Nat \ {0}
  BY GroupParts
<1>2. (e * s.bpg + i) \div s.bpg = e
  BY <1>1, DivModIs, ZenonT(30)
<1>3. e * s.bpg \in Nat
  BY <1>1
<1> DEFINE m == e * s.bpg
<1>4. FromFirst(s, s.first + m + i) = m + i
  <2> HIDE DEF m
  <2>1. m \in Nat /\ i \in Nat
    BY <1>1, <1>3 DEF m
  <2> QED
    BY <1>1, <2>1 DEF FromFirst
<1> QED
  BY <1>2, <1>4 DEF GroupOf

RangeUpTo(s, w, from, f, n) ==
  f = [k \in 0 .. n |-> IF k = 0 THEN w ELSE FreeInGroup(s, f[k - 1], from + k - 1)]

LEMMA RangeExists ==
  ASSUME NEW s, NEW w, NEW from
  PROVE  \A n \in Nat : \E f : RangeUpTo(s, w, from, f, n)
<1> DEFINE S == {n \in Nat : \E f : RangeUpTo(s, w, from, f, n)}
<1>1. 0 \in S
  <2> DEFINE f == [k \in 0 .. 0 |-> w]
  <2>1. RangeUpTo(s, w, from, f, 0)
    BY DEF RangeUpTo
  <2> QED
    BY <2>1
<1>2. ASSUME NEW n \in Nat, n \in S PROVE n + 1 \in S
  <2>1. PICK f : RangeUpTo(s, w, from, f, n)
    BY <1>2
  <2> DEFINE h == [k \in 0 .. n + 1 |->
                     IF k = n + 1 THEN FreeInGroup(s, f[n], from + (n + 1) - 1) ELSE f[k]]
  <2>2. \A k \in 0 .. n : f[k] = IF k = 0 THEN w ELSE FreeInGroup(s, f[k - 1], from + k - 1)
    BY <2>1 DEF RangeUpTo
  <2>3. \A k \in 0 .. n + 1 : h[k] = IF k = 0 THEN w ELSE FreeInGroup(s, h[k - 1], from + k - 1)
    BY <2>2
  <2>4. h = [k \in 0 .. n + 1 |-> h[k]]
    OBVIOUS
  <2>5. RangeUpTo(s, w, from, h, n + 1)
    BY <2>3, <2>4 DEF RangeUpTo
  <2> QED
    BY <2>5
<1> HIDE DEF S
<1>3. \A n \in Nat : n \in S
  BY <1>1, <1>2, AllTurns
<1> QED
  BY <1>3 DEF S

\* The range from p to q has been freed as far as w says, in the groups before g.
Freed(s, w, p, q, g, H, ids) ==
  /\ w.p \in Nat /\ w.count \in Nat /\ w.p + w.count = q + 1 /\ p <= w.p
  /\ Sound(s, w.x, H \ (p .. w.p - 1), ids)
  /\ g <= GroupOf(s, q) => w.count # 0 /\ GroupOf(s, w.p) = g
  /\ g > GroupOf(s, q) => w.count = 0

\* One turn frees what the group has of the range. Where the range goes on in the
\* next group, the bits of a bitmap must be as many as the blocks of a group.
LEMMA FreeInGroupKeeps ==
  ASSUME NEW s \in Setups, NEW w, NEW p \in Nat, NEW q \in Nat, NEW H, NEW ids, NEW g \in Nat,
         p .. q \subseteq H, H \subseteq s.first .. s.total - 1, p <= q,
         s.across \/ GroupOf(s, p) = GroupOf(s, q), GroupOf(s, p) <= g, g <= GroupOf(s, q),
         Freed(s, w, p, q, g, H, ids)
  PROVE  Freed(s, FreeInGroup(s, w, g), p, q, g + 1, H, ids)
<1> DEFINE i == IndexOf(s, w.p)
           n == Min({BitmapBits - i, w.count})
           v == FreeInGroup(s, w, g)
           K == H \ (p .. w.p - 1)
           y == GiveBits(s, w.x, g, i, n)
           to == GroupOf(s, q)
           j == IndexOf(s, q)
<1>1. /\ w.p \in Nat /\ w.count \in Nat /\ w.p + w.count = q + 1 /\ p <= w.p
      /\ Sound(s, w.x, K, ids) /\ w.count # 0 /\ GroupOf(s, w.p) = g
  BY DEF Freed
<1>2. /\ s.first \in {0, 1} /\ s.total \in Nat /\ s.bpg \in Nat \ {0} /\ s.bpg <= BitmapBits
      /\ BitmapBits \in Nat
  BY GroupParts, ConstantParts
<1>3. w.p \in H /\ q \in H /\ w.p \in s.first .. s.total - 1 /\ q \in s.first .. s.total - 1
  BY <1>1
<1>4. g \in Groups(s) /\ BlockAt(s, i, g) = w.p
  BY <1>1, <1>3, BitOfBlock
<1>5. i \in 0 .. s.bpg - 1 /\ w.p = s.first + g * s.bpg + i
  BY <1>1, <1>2, <1>3, PlacesOf
<1>6. to \in Nat /\ j \in 0 .. s.bpg - 1 /\ q = s.first + to * s.bpg + j
  BY <1>2, <1>3, PlacesOf
<1>7. v = [x |-> y, p |-> w.p + n, count |-> w.count - n]
  BY DEF FreeInGroup
<1>8. n \in Nat /\ n <= w.count /\ n <= BitmapBits - i /\ (n = w.count \/ n = BitmapBits - i)
  <2>1. {BitmapBits - i, w.count} \in SUBSET Nat /\ {BitmapBits - i, w.count} # {}
    BY <1>1, <1>2, <1>5
  <2>2. n \in {BitmapBits - i, w.count} /\ \A m \in {BitmapBits - i, w.count} : n <= m
    BY <2>1, LeastOf
  <2>3. n \in Nat
    BY <2>1, <2>2
  <2> QED
    BY <2>2, <2>3
<1>9. g * s.bpg \in Nat /\ to * s.bpg \in Nat /\ (g + 1) * s.bpg = g * s.bpg + s.bpg
  BY <1>2, <1>6
<1> HIDE DEF n, v, i, j, to, y
<1> DEFINE b == g * s.bpg
           c == to * s.bpg
<1>10. CASE g = to
  <2>1. w.count = (j - i) + 1
    <3>1. b \in Nat /\ w.p = s.first + b + i /\ q = s.first + b + j
      BY <1>5, <1>6, <1>9, <1>10
    <3> HIDE DEF b
    <3> QED
      BY <1>1, <1>2, <1>5, <1>6, <3>1
  <2>2. n = w.count /\ i + n <= s.bpg
    BY <1>1, <1>2, <1>5, <1>6, <1>8, <2>1
  <2>3. v.count = 0 /\ v.p = q + 1 /\ i + n <= s.bpg /\ v.p = w.p + n /\ v.x = y
    BY <1>1, <1>7, <2>2
  <2> QED
    <3>1. w.p .. w.p + n - 1 \subseteq K
      BY <1>1, <1>8
    <3>2. Sound(s, y, K \ (w.p .. w.p + n - 1), ids)
      BY <1>1, <1>4, <1>5, <1>8, <2>2, <3>1, GiveBitsKeeps DEF y
    <3>3. K \ (w.p .. w.p + n - 1) = H \ (p .. v.p - 1)
      BY <1>1, <1>8, <2>3
    <3>4. ~(g + 1 <= to)
      BY <1>10, <1>6
    <3>5. v.p \in Nat /\ p <= v.p /\ v.p + v.count = q + 1
      BY <1>1, <2>3
    <3> QED
      BY <2>3, <3>2, <3>3, <3>4, <3>5 DEF Freed, to, v
<1>11. CASE g < to
  <2>1. s.bpg = BitmapBits
    <3>1. GroupOf(s, p) # GroupOf(s, q)
      <4>1. GroupOf(s, p) \in Nat
        BY PlacesOf
      <4> QED
        BY <1>11, <1>6, <4>1 DEF to
    <3> QED
      BY <3>1, GeometryAssumption DEF Geometry
  <2>2. b + s.bpg <= c /\ b \in Nat /\ c \in Nat
    BY <1>2, <1>6, <1>9, <1>11, MultOrder
  <2>3. w.p = s.first + b + i /\ q = s.first + c + j
    BY <1>5, <1>6
  <2> HIDE DEF b, c
  <2>4. w.count > s.bpg - i /\ n = s.bpg - i /\ n # 0
    BY <1>1, <1>2, <1>5, <1>6, <1>8, <2>1, <2>2, <2>3
  <2>5. v.count # 0 /\ v.count \in Nat /\ v.p = w.p + n /\ v.p = s.first + b + s.bpg /\ v.x = y
        /\ v.count = w.count - n
    BY <1>1, <1>2, <1>5, <1>7, <1>8, <2>2, <2>3, <2>4
  <2>6. GroupOf(s, v.p) = g + 1
    <3>1. v.p = s.first + (g + 1) * s.bpg + 0
      BY <1>2, <1>9, <2>2, <2>5 DEF b
    <3>2. 0 \in 0 .. s.bpg - 1 /\ g + 1 \in Nat
      BY <1>2
    <3>3. GroupOf(s, s.first + (g + 1) * s.bpg + 0) = g + 1
      BY <3>2, GroupOfIs
    <3> QED
      BY <3>1, <3>3
  <2>7. w.p .. w.p + n - 1 \subseteq K
    BY <1>1, <1>8
  <2>8. i + n <= s.bpg
    BY <1>2, <1>5, <2>4
  <2>9. Sound(s, y, K \ (w.p .. w.p + n - 1), ids)
    BY <1>1, <1>4, <1>5, <1>8, <2>7, <2>8, GiveBitsKeeps DEF y
  <2>10. K \ (w.p .. w.p + n - 1) = H \ (p .. v.p - 1)
    BY <1>1, <1>8, <2>5
  <2>11. g + 1 <= to
    BY <1>11, <1>6
  <2>12. v.p \in Nat /\ p <= v.p /\ v.p + v.count = q + 1
    BY <1>1, <1>8, <2>5
  <2>13. g + 1 <= GroupOf(s, q) /\ ~(g + 1 > GroupOf(s, q))
    BY <1>6, <2>11 DEF to
  <2>14. Sound(s, v.x, H \ (p .. v.p - 1), ids)
    BY <2>5, <2>9, <2>10
  <2>15. Freed(s, v, p, q, g + 1, H, ids)
    BY <2>5, <2>6, <2>12, <2>13, <2>14 DEF Freed
  <2> QED
    BY <2>15 DEF v
<1> QED
  BY <1>6, <1>10, <1>11 DEF v, to

LEMMA FreeBlocksKeeps ==
  ASSUME NEW s \in Setups, NEW x, NEW p \in Nat, NEW count \in Nat \ {0}, NEW H, NEW ids,
         Sound(s, x, H, ids), p .. p + count - 1 \subseteq H,
         s.across \/ GroupOf(s, p) = GroupOf(s, p + count - 1)
  PROVE  Sound(s, FreeBlocks(s, x, p, count), H \ (p .. p + count - 1), ids)
<1> DEFINE q == p + count - 1
           from == GroupOf(s, p)
           to == GroupOf(s, q)
           w == [x |-> x, p |-> p, count |-> count]
           turns == to - from + 1
           turn == CHOOSE f : RangeUpTo(s, w, from, f, turns)
<1>1. FreeBlocks(s, x, p, count) = turn[turns].x
  BY DEF FreeBlocks, RangeUpTo
<1>2. q \in Nat /\ p <= q /\ p .. q \subseteq H /\ q + 1 = p + count
  OBVIOUS
<1>3. H \subseteq s.first .. s.total - 1
  BY DEF Sound, CallersSound
<1>4. /\ s.first \in {0, 1} /\ s.total \in Nat /\ s.bpg \in Nat \ {0}
      /\ p \in s.first .. s.total - 1 /\ q \in s.first .. s.total - 1
  BY <1>2, <1>3, GroupParts
<1>5. from \in Nat /\ to \in Nat /\ from <= to
  <2>1. /\ from \in Nat /\ IndexOf(s, p) \in 0 .. s.bpg - 1
        /\ p = s.first + from * s.bpg + IndexOf(s, p)
    BY <1>4, PlacesOf
  <2>2. /\ to \in Nat /\ IndexOf(s, q) \in 0 .. s.bpg - 1
        /\ q = s.first + to * s.bpg + IndexOf(s, q)
    BY <1>2, <1>4, PlacesOf
  <2> HIDE DEF q
  <2>3. ASSUME to < from PROVE FALSE
    <3> DEFINE b == to * s.bpg
               c == from * s.bpg
    <3>1. b + s.bpg <= c /\ b \in Nat /\ c \in Nat
      BY <1>4, <2>1, <2>2, <2>3, MultOrder
    <3>2. p = s.first + c + IndexOf(s, p) /\ q = s.first + b + IndexOf(s, q)
      BY <2>1, <2>2
    <3> HIDE DEF b, c, from, to
    <3> QED
      BY <1>2, <1>4, <2>1, <2>2, <3>1, <3>2
  <2> QED
    BY <2>1, <2>2, <2>3
<1>6. turns \in Nat
  BY <1>5
<1>7. RangeUpTo(s, w, from, turn, turns)
  <2> HIDE DEF turns, w, from
  <2> QED
    BY <1>6, RangeExists
<1> HIDE DEF turn
<1>8. \A k \in 0 .. turns : turn[k] = IF k = 0 THEN w ELSE FreeInGroup(s, turn[k - 1], from + k - 1)
  BY <1>7 DEF RangeUpTo
<1>9. Freed(s, w, p, q, from, H, ids)
  <2>1. w.p = p /\ w.count = count /\ w.x = x
    OBVIOUS
  <2>2. H \ (p .. p - 1) = H
    OBVIOUS
  <2> HIDE DEF w
  <2>3. ~(from > to)
    BY <1>5
  <2>4. w.p + w.count = q + 1
    BY <1>2, <2>1
  <2> HIDE DEF q
  <2> QED
    BY <1>5, <2>1, <2>2, <2>3, <2>4 DEF Freed
<1> DEFINE S == {k \in Nat : k <= turns => Freed(s, turn[k], p, q, from + k, H, ids)}
<1>10. s.across \/ from = to
  OBVIOUS
<1>11. turns = to - from + 1
  OBVIOUS
<1> HIDE DEF w, turns, q
<1>12. 0 \in S
  BY <1>5, <1>6, <1>8, <1>9
<1>13. ASSUME NEW k \in Nat, k \in S PROVE k + 1 \in S
  <2>1. SUFFICES ASSUME k + 1 <= turns PROVE Freed(s, turn[k + 1], p, q, from + (k + 1), H, ids)
    OBVIOUS
  <2>2. Freed(s, turn[k], p, q, from + k, H, ids)
    BY <1>6, <1>13, <2>1
  <2>3. turn[k + 1] = FreeInGroup(s, turn[k], from + k)
    <3>1. k + 1 \in 0 .. turns /\ k + 1 # 0 /\ (k + 1) - 1 = k /\ from + (k + 1) - 1 = from + k
      BY <1>5, <1>6, <2>1
    <3>2. turn[k + 1] = FreeInGroup(s, turn[(k + 1) - 1], from + (k + 1) - 1)
      BY <1>8, <3>1
    <3> QED
      BY <3>1, <3>2
  <2> DEFINE g == from + k
  <2>4. g \in Nat /\ from <= g /\ g <= to /\ from + (k + 1) = g + 1
    BY <1>5, <1>11, <2>1
  <2> HIDE DEF g
  <2>5. Freed(s, turn[k], p, q, g, H, ids) /\ turn[k + 1] = FreeInGroup(s, turn[k], g)
    BY <2>2, <2>3 DEF g
  <2>6. Freed(s, FreeInGroup(s, turn[k], g), p, q, g + 1, H, ids)
    BY <1>2, <1>3, <1>10, <2>4, <2>5, FreeInGroupKeeps
  <2> QED
    BY <2>4, <2>5, <2>6
<1> HIDE DEF S
<1>14. turns \in S
  BY <1>6, <1>12, <1>13, AllTurns
<1>15. Freed(s, turn[turns], p, q, from + turns, H, ids)
  BY <1>6, <1>14 DEF S
<1>16. from + turns > to
  BY <1>5, <1>11
<1>17. turn[turns].p = q + 1 /\ Sound(s, turn[turns].x, H \ (p .. turn[turns].p - 1), ids)
  BY <1>2, <1>15, <1>16 DEF Freed
<1>18. H \ (p .. (q + 1) - 1) = H \ (p .. q)
  BY <1>2
<1>19. Sound(s, turn[turns].x, H \ (p .. q), ids)
  BY <1>17, <1>18
<1> QED
  BY <1>1, <1>19 DEF q

----------------------------------------------------------------------------
(* I-nodes have places in groups *)

LEMMA PlaceOfInode ==
  ASSUME NEW s \in Setups, NEW i \in 1 .. s.inodes
  PROVE  /\ InodeGroup(s, i) \in Groups(s)
         /\ InodeIndex(s, i) \in 0 .. InodesIn(s, InodeGroup(s, i)) - 1
         /\ InodeAt(s, InodeIndex(s, i), InodeGroup(s, i)) = i
<1> DEFINE n == GroupCount(s)
           g == InodeGroup(s, i)
           j == InodeIndex(s, i)
           b == g * s.ipg
           c == (n - 1) * s.ipg
<1>1. /\ s.ipg \in Nat \ {0} /\ n \in Nat \ {0} /\ s.inodes \in Nat
      /\ c <= s.inodes /\ s.inodes <= n * s.ipg
  BY GroupParts
<1>2. i - 1 \in Nat /\ i - 1 < s.inodes
  BY <1>1
<1>3. g \in Nat /\ j \in 0 .. s.ipg - 1 /\ i - 1 = b + j
  <2>1. /\ (i - 1) \div s.ipg \in Nat /\ (i - 1) % s.ipg \in 0 .. s.ipg - 1
        /\ i - 1 = ((i - 1) \div s.ipg) * s.ipg + ((i - 1) % s.ipg)
    BY <1>1, <1>2, DivMod
  <2> QED
    BY <2>1 DEF InodeGroup, InodeIndex
<1>4. n - 1 \in Nat /\ n * s.ipg = c + s.ipg /\ c \in Nat
  BY <1>1
<1> HIDE DEF g, j, n
<1>5. b \in Nat
  BY <1>1, <1>3
<1>6. ~(n - 1 < g)
  <2>1. SUFFICES ASSUME n - 1 < g PROVE FALSE
    OBVIOUS
  <2>2. c + s.ipg <= b
    BY <1>1, <1>3, <1>4, <2>1, MultOrder
  <2> HIDE DEF b, c
  <2> QED
    BY <1>1, <1>2, <1>3, <1>4, <1>5, <2>2
<1>7. g \in Groups(s)
  BY <1>1, <1>3, <1>6 DEF Groups, n
<1>8. j \in 0 .. InodesIn(s, g) - 1
  <2>1. InodesIn(s, g) = IF g < n - 1 THEN s.ipg ELSE s.inodes - c
    BY DEF InodesIn, n
  <2>2. g = n - 1 => b = c
    OBVIOUS
  <2> HIDE DEF b, c
  <2> QED
    BY <1>1, <1>2, <1>3, <1>4, <1>5, <1>6, <2>1, <2>2
<1>9. InodeAt(s, j, g) = i
  <2>1. InodeAt(s, j, g) = b + j + 1
    BY DEF InodeAt
  <2> HIDE DEF b
  <2> QED
    BY <1>1, <1>3, <1>5, <2>1
<1> QED
  BY <1>7, <1>8, <1>9 DEF g, j

LEMMA InodeOfPlace ==
  ASSUME NEW s \in Setups, NEW g \in Groups(s), NEW j \in 0 .. InodesIn(s, g) - 1
  PROVE  /\ InodeAt(s, j, g) \in 1 .. s.inodes
         /\ InodeGroup(s, InodeAt(s, j, g)) = g /\ InodeIndex(s, InodeAt(s, j, g)) = j
<1> DEFINE n == GroupCount(s)
           i == InodeAt(s, j, g)
           b == g * s.ipg
           c == (n - 1) * s.ipg
<1>1. /\ s.ipg \in Nat \ {0} /\ n \in Nat \ {0} /\ s.inodes \in Nat
      /\ c <= s.inodes /\ s.inodes <= n * s.ipg
  BY GroupParts
<1>2. g \in Nat /\ g <= n - 1 /\ n - 1 \in Nat
  BY <1>1, GroupsAre
<1>3. j \in 0 .. s.ipg - 1
  BY <1>1, ShareOfGroup
<1>4. (b + j) \div s.ipg = g /\ (b + j) % s.ipg = j
  BY <1>1, <1>2, <1>3, DivModIs, ZenonT(30)
<1>5. b \in Nat /\ c \in Nat
  BY <1>1, <1>2
<1>6. i = b + j + 1
  BY DEF InodeAt
<1>7. InodesIn(s, g) = IF g < n - 1 THEN s.ipg ELSE s.inodes - c
  BY DEF InodesIn
<1>8. g < n - 1 => b + s.ipg <= c
  BY <1>1, <1>2, MultOrder
<1>9. g = n - 1 => b = c
  OBVIOUS
<1> HIDE DEF i, b, c, n
<1>10. i \in 1 .. s.inodes
  BY <1>1, <1>2, <1>3, <1>5, <1>6, <1>7, <1>8, <1>9
<1>11. i - 1 = b + j
  BY <1>3, <1>5, <1>6
<1>12. InodeGroup(s, i) = g /\ InodeIndex(s, i) = j
  BY <1>4, <1>11 DEF InodeGroup, InodeIndex
<1> QED
  BY <1>10, <1>12 DEF i

LEMMA SlotsAre ==
  ASSUME NEW s \in Setups, NEW g \in Groups(s), NEW ids, DOMAIN ids \subseteq 1 .. s.inodes
  PROVE  /\ IsFiniteSet(FreeSlots(s, ids, g)) /\ Cardinality(FreeSlots(s, ids, g)) \in Nat
         /\ IsFiniteSet(DOMAIN ids) /\ Cardinality(DOMAIN ids) \in Nat
         /\ IsFiniteSet(Mine(s, ids, g)) /\ Cardinality(Mine(s, ids, g)) \in Nat
         /\ IsFiniteSet(Dirs(s, ids, g))
         /\ Cardinality(Dirs(s, ids, g)) \in Nat
<1>1. InodesIn(s, g) \in Nat /\ s.inodes \in Nat
  BY ShareOfGroup, GroupParts
<1>2. IsFiniteSet(0 .. InodesIn(s, g) - 1) /\ IsFiniteSet(1 .. s.inodes)
  <2>1. InodesIn(s, g) - 1 \in Int /\ s.inodes \in Int /\ 0 \in Int /\ 1 \in Int
    BY <1>1
  <2>2. IsFiniteSet(0 .. InodesIn(s, g) - 1)
    BY <2>1, FS_Interval
  <2>3. IsFiniteSet(1 .. s.inodes)
    BY <2>1, FS_Interval
  <2> QED
    BY <2>2, <2>3
<1>3. IsFiniteSet(FreeSlots(s, ids, g))
  BY <1>2, FS_Subset DEF FreeSlots
<1>4. IsFiniteSet(DOMAIN ids)
  BY <1>2, FS_Subset
<1>5. IsFiniteSet(Mine(s, ids, g))
  BY <1>4, FS_Subset DEF Mine
<1>6. IsFiniteSet(Dirs(s, ids, g))
  BY <1>5, FS_Subset DEF Dirs
<1> QED
  BY <1>3, <1>4, <1>5, <1>6, FS_CardinalityType

----------------------------------------------------------------------------
(* An i-node is looked for *)

LEMMA InodeGroupsAreAll ==
  ASSUME NEW s \in Setups, NEW x, x.lastGroup \in Groups(s)
  PROVE  /\ \A k \in 1 .. GroupCount(s) : InodeGroups(s, x)[k] \in Groups(s)
         /\ \A h \in Groups(s) : \E k \in 1 .. GroupCount(s) : InodeGroups(s, x)[k] = h
<1> DEFINE n == GroupCount(s)
           g == x.lastGroup
<1>1. n \in Nat \ {0} /\ Groups(s) = 0 .. n - 1 /\ g \in Nat
  BY GroupParts DEF Groups
<1>2. \A k \in 1 .. n : InodeGroups(s, x)[k] = (g + k - 1) % n
  BY DEF InodeGroups
<1> HIDE DEF n, g
<1>3. \A k \in 1 .. n : (g + k - 1) % n \in 0 .. n - 1
  BY <1>1
<1>4. ASSUME NEW h \in 0 .. n - 1 PROVE \E k \in 1 .. n : (g + k - 1) % n = h
  <2>1. PICK k \in 0 .. n - 1 : (g + k) % n = h
    BY <1>1, RoundTheGroups
  <2>2. k + 1 \in 1 .. n /\ g + (k + 1) - 1 = g + k
    BY <1>1
  <2> QED
    BY <2>1, <2>2
<1> QED
  BY <1>1, <1>2, <1>3, <1>4 DEF n

InodeSearchUpTo(s, w, order, f, n) ==
  f = [k \in 0 .. n |-> IF k = 0 THEN w ELSE TryInodes(s, f[k - 1], order[k])]

LEMMA InodeSearchExists ==
  ASSUME NEW s, NEW w, NEW order
  PROVE  \A n \in Nat : \E f : InodeSearchUpTo(s, w, order, f, n)
<1> DEFINE S == {n \in Nat : \E f : InodeSearchUpTo(s, w, order, f, n)}
<1>1. 0 \in S
  <2> DEFINE f == [k \in 0 .. 0 |-> w]
  <2>1. InodeSearchUpTo(s, w, order, f, 0)
    BY DEF InodeSearchUpTo
  <2> QED
    BY <2>1
<1>2. ASSUME NEW n \in Nat, n \in S PROVE n + 1 \in S
  <2>1. PICK f : InodeSearchUpTo(s, w, order, f, n)
    BY <1>2
  <2> DEFINE h == [k \in 0 .. n + 1 |-> IF k = n + 1 THEN TryInodes(s, f[n], order[n + 1]) ELSE f[k]]
  <2>2. \A k \in 0 .. n : f[k] = IF k = 0 THEN w ELSE TryInodes(s, f[k - 1], order[k])
    BY <2>1 DEF InodeSearchUpTo
  <2>3. \A k \in 0 .. n + 1 : h[k] = IF k = 0 THEN w ELSE TryInodes(s, h[k - 1], order[k])
    BY <2>2
  <2>4. h = [k \in 0 .. n + 1 |-> h[k]]
    OBVIOUS
  <2>5. InodeSearchUpTo(s, w, order, h, n + 1)
    BY <2>3, <2>4 DEF InodeSearchUpTo
  <2> QED
    BY <2>5
<1> HIDE DEF S
<1>3. \A n \in Nat : n \in S
  BY <1>1, <1>2, AllTurns
<1> QED
  BY <1>3 DEF S

InodeFound(s, w, H, ids) ==
  /\ Sound(s, w.x, H, ids)
  /\ w.at # -1 => w.g \in Groups(s) /\ ~w.x.group[w.g].lazy /\ w.at \in FreeSlots(s, ids, w.g)

LEMMA TryInodesFinds ==
  ASSUME NEW s \in Setups, NEW h \in Groups(s), NEW w, NEW H, NEW ids, InodeFound(s, w, H, ids)
  PROVE  /\ InodeFound(s, TryInodes(s, w, h), H, ids)
         /\ TryInodes(s, w, h).at = -1 => w.at = -1 /\ FreeSlots(s, ids, h) = {}
<1> DEFINE v == TryInodes(s, w, h)
           y == GetGroup(s, w.x, h)
<1>1. CASE w.at # -1
  <2>1. v = w
    BY <1>1 DEF TryInodes
  <2> QED
    BY <1>1, <2>1
<1>2. CASE w.at = -1
  <2>1. /\ Sound(s, y, H, ids) /\ ~y.group[h].lazy
    BY GetGroupKeeps DEF InodeFound
  <2> DEFINE clear == FindClear(y.group[h].inodes, 0, InodesIn(s, h))
             at == IF y.group[h].freeInodes = 0 THEN -1 ELSE IF clear = -1 THEN Endless ELSE clear
  <2>2. v = [x |-> y, g |-> h, at |-> at]
    BY <1>2 DEF TryInodes, ClearInode
  <2> HIDE DEF v, y
  <2>3. /\ y.group[h].freeInodes = Cardinality(FreeSlots(s, ids, h))
        /\ (0 .. InodesIn(s, h) - 1) \ y.group[h].inodes = FreeSlots(s, ids, h)
    BY <2>1 DEF Sound, InodesSound
  <2>4. InodesIn(s, h) \in Nat /\ IsFiniteSet(FreeSlots(s, ids, h))
    BY <2>1, ShareOfGroup, SlotsAre DEF Sound, CallersSound
  <2>5. y.group[h].freeInodes = 0 => FreeSlots(s, ids, h) = {}
    BY <2>3, <2>4, FS_EmptySet
  <2>6. y.group[h].freeInodes # 0 => clear # -1 /\ clear \in FreeSlots(s, ids, h)
    <3>1. y.group[h].freeInodes # 0 => FreeSlots(s, ids, h) # {}
      BY <2>3, <2>4, FS_EmptySet
    <3> QED
      BY <2>3, <2>4, <3>1, FindsClear
  <2> HIDE DEF clear
  <2> HIDE DEF at
  <2>7. v.x = y /\ v.g = h /\ v.at = at
    BY <2>2
  <2>8. InodeFound(s, v, H, ids)
    BY <2>1, <2>6, <2>7 DEF InodeFound, at
  <2> QED
    BY <1>2, <2>5, <2>6, <2>7, <2>8 DEF v, at
<1> QED
  BY <1>1, <1>2

LEMMA InodeSearchFinds ==
  ASSUME NEW s \in Setups, NEW x, x.lastGroup \in Groups(s), NEW w, NEW H, NEW ids,
         InodeFound(s, w, H, ids),
         NEW f, InodeSearchUpTo(s, w, InodeGroups(s, x), f, GroupCount(s))
  PROVE  /\ InodeFound(s, f[GroupCount(s)], H, ids)
         /\ f[GroupCount(s)].at = -1 => \A h \in Groups(s) : FreeSlots(s, ids, h) = {}
<1> DEFINE n == GroupCount(s)
           order == InodeGroups(s, x)
           S == {k \in Nat : k <= n =>
                   /\ InodeFound(s, f[k], H, ids)
                   /\ f[k].at = -1 => \A j \in 1 .. k : FreeSlots(s, ids, order[j]) = {}}
<1>1. n \in Nat /\ \A k \in 1 .. n : order[k] \in Groups(s)
  BY GroupParts, InodeGroupsAreAll
<1>2. \A k \in 0 .. n : f[k] = IF k = 0 THEN w ELSE TryInodes(s, f[k - 1], order[k])
  BY DEF InodeSearchUpTo
<1>3. \A h \in Groups(s) : \E k \in 1 .. n : order[k] = h
  BY InodeGroupsAreAll
<1> HIDE DEF n, order
<1>4. 0 \in S
  BY <1>1, <1>2
<1>5. ASSUME NEW k \in Nat, k \in S PROVE k + 1 \in S
  <2>1. SUFFICES ASSUME k + 1 <= n
                 PROVE  /\ InodeFound(s, f[k + 1], H, ids)
                        /\ f[k + 1].at = -1 => \A j \in 1 .. k + 1 : FreeSlots(s, ids, order[j]) = {}
    OBVIOUS
  <2>2. /\ InodeFound(s, f[k], H, ids)
        /\ f[k].at = -1 => \A j \in 1 .. k : FreeSlots(s, ids, order[j]) = {}
    BY <1>1, <1>5, <2>1
  <2>3. f[k + 1] = TryInodes(s, f[k], order[k + 1]) /\ order[k + 1] \in Groups(s)
    BY <1>1, <1>2, <2>1
  <2>4. /\ InodeFound(s, f[k + 1], H, ids)
        /\ f[k + 1].at = -1 => f[k].at = -1 /\ FreeSlots(s, ids, order[k + 1]) = {}
    BY <2>2, <2>3, TryInodesFinds
  <2> QED
    BY <2>2, <2>4
<1> HIDE DEF S
<1>6. n \in S
  BY <1>1, <1>4, <1>5, AllTurns
<1>7. /\ InodeFound(s, f[n], H, ids)
      /\ f[n].at = -1 => \A j \in 1 .. n : FreeSlots(s, ids, order[j]) = {}
  BY <1>1, <1>6 DEF S
<1> QED
  BY <1>3, <1>7 DEF n

----------------------------------------------------------------------------
(* I-nodes are taken and given back *)

LEMMA TakeInodeParts ==
  ASSUME NEW s \in Setups, NEW g \in Groups(s), NEW x \in StoreType(s), NEW i \in Int,
         NEW isDir \in BOOLEAN
  PROVE  LET y == TakeInode(s, x, g, i, isDir)
             q == x.group[g]
             r == y.group[g]
             count == InodesIn(s, g)
         IN /\ y \in StoreType(s)
            /\ r.blocks = q.blocks /\ r.free = q.free /\ r.inodes = q.inodes \cup {i}
            /\ r.freeInodes = q.freeInodes - 1 /\ r.lazy = q.lazy
            /\ r.dirs = IF isDir THEN q.dirs + 1 ELSE q.dirs
            /\ r.unused = IF i >= count - q.unused THEN count - (i + 1) ELSE q.unused
            /\ \A h \in Groups(s) : h # g => y.group[h] = x.group[h]
            /\ y.freeBlocks = x.freeBlocks /\ y.inodeBlocks = x.inodeBlocks
            /\ y.freeInodes = x.freeInodes - 1
<1> DEFINE q == x.group[g]
           count == InodesIn(s, g)
           bits == q.inodes \cup {i}
           less == q.freeInodes - 1
           dirs == IF isDir THEN q.dirs + 1 ELSE q.dirs
           unused == IF i >= count - q.unused THEN count - (i + 1) ELSE q.unused
           r == [q EXCEPT !.inodes = bits, !.freeInodes = less, !.dirs = dirs, !.unused = unused]
           G == [x.group EXCEPT ![g] = r]
           y == TakeInode(s, x, g, i, isDir)
<1>1. x.group \in [Groups(s) -> GroupType] /\ q \in GroupType
  BY StoreFields
<1>2. bits \in SUBSET Int /\ less \in Int /\ dirs \in Int /\ unused \in Int
  BY <1>1, GroupFields, ShareOfGroup
<1>3. y = [x EXCEPT !.group = [@ EXCEPT ![g] = r], !.freeInodes = @ - 1, !.lastGroup = g]
  BY DEF TakeInode
<1> HIDE DEF q, bits, less, dirs, unused, y
<1>4. /\ r \in GroupType /\ r.blocks = q.blocks /\ r.free = q.free /\ r.inodes = bits
      /\ r.freeInodes = less /\ r.dirs = dirs /\ r.unused = unused /\ r.lazy = q.lazy
  BY <1>1, <1>2 DEF GroupType
<1> HIDE DEF r
<1>5. G \in [Groups(s) -> GroupType] /\ G[g] = r /\ \A h \in Groups(s) : h # g => G[h] = x.group[h]
  BY <1>1, <1>4
<1> DEFINE all == x.freeInodes - 1
<1>6. all \in Int
  BY StoreFields
<1>7. y = [x EXCEPT !.group = G, !.freeInodes = all, !.lastGroup = g]
  BY <1>3
<1> HIDE DEF G, all
<1>8. /\ y \in StoreType(s) /\ y.group = G /\ y.freeInodes = all
      /\ y.freeBlocks = x.freeBlocks /\ y.inodeBlocks = x.inodeBlocks
  BY <1>5, <1>6, <1>7 DEF StoreType
<1> QED
  BY <1>4, <1>5, <1>8 DEF q, bits, less, dirs, unused, y, all

LEMMA FreeInodeParts ==
  ASSUME NEW s \in Setups, NEW m, NEW g \in Groups(s), g = InodeGroup(s, m), NEW x,
         NEW y \in StoreType(s), y = GetGroup(s, x, g), NEW isDir \in BOOLEAN
  PROVE  LET z == FreeInode(s, x, m, isDir)
             q == y.group[g]
             r == z.group[g]
         IN /\ z \in StoreType(s)
            /\ r.blocks = q.blocks /\ r.free = q.free /\ r.inodes = q.inodes \ {InodeIndex(s, m)}
            /\ r.freeInodes = q.freeInodes + 1 /\ r.lazy = q.lazy /\ r.unused = q.unused
            /\ r.dirs = IF isDir THEN q.dirs - 1 ELSE q.dirs
            /\ \A h \in Groups(s) : h # g => z.group[h] = y.group[h]
            /\ z.freeBlocks = y.freeBlocks /\ z.inodeBlocks = y.inodeBlocks
            /\ z.freeInodes = y.freeInodes + 1
<1> DEFINE q == y.group[g]
           bits == q.inodes \ {InodeIndex(s, m)}
           more == q.freeInodes + 1
           dirs == IF isDir THEN q.dirs - 1 ELSE q.dirs
           r == [q EXCEPT !.inodes = bits, !.freeInodes = more, !.dirs = dirs]
           G == [y.group EXCEPT ![g] = r]
           z == FreeInode(s, x, m, isDir)
<1>1. y.group \in [Groups(s) -> GroupType] /\ q \in GroupType
  BY StoreFields
<1>2. bits \in SUBSET Int /\ more \in Int /\ dirs \in Int
  BY <1>1, GroupFields
<1>3. z = [y EXCEPT !.group = [@ EXCEPT ![g] = r], !.freeInodes = @ + 1]
  BY DEF FreeInode
<1> HIDE DEF q, bits, more, dirs, z
<1>4. /\ r \in GroupType /\ r.blocks = q.blocks /\ r.free = q.free /\ r.inodes = bits
      /\ r.freeInodes = more /\ r.dirs = dirs /\ r.unused = q.unused /\ r.lazy = q.lazy
  BY <1>1, <1>2 DEF GroupType
<1> HIDE DEF r
<1>5. G \in [Groups(s) -> GroupType] /\ G[g] = r /\ \A h \in Groups(s) : h # g => G[h] = y.group[h]
  BY <1>1, <1>4
<1> DEFINE all == y.freeInodes + 1
<1>6. all \in Int
  BY StoreFields
<1>7. z = [y EXCEPT !.group = G, !.freeInodes = all]
  BY <1>3
<1> HIDE DEF G, all
<1>8. /\ z \in StoreType(s) /\ z.group = G /\ z.freeInodes = all
      /\ z.freeBlocks = y.freeBlocks /\ z.inodeBlocks = y.inodeBlocks
  BY <1>5, <1>6, <1>7 DEF StoreType
<1> QED
  BY <1>4, <1>5, <1>8 DEF q, bits, more, dirs, z, all

\* What one i-node more, or less, is to the groups.
LEMMA OneInode ==
  ASSUME NEW s \in Setups, NEW g \in Groups(s), NEW i \in 0 .. InodesIn(s, g) - 1, NEW less, NEW more,
         NEW m, m = InodeAt(s, i, g), DOMAIN less \subseteq 1 .. s.inodes, m \notin DOMAIN less,
         DOMAIN more = DOMAIN less \cup {m},
         \A k \in DOMAIN less : more[k] = less[k]
  PROVE  /\ Mine(s, more, g) = Mine(s, less, g) \cup {m} /\ m \notin Mine(s, less, g)
         /\ Cardinality(Mine(s, more, g)) = Cardinality(Mine(s, less, g)) + 1
         /\ FreeSlots(s, more, g) = FreeSlots(s, less, g) \ {i} /\ i \in FreeSlots(s, less, g)
         /\ Cardinality(FreeSlots(s, more, g)) = Cardinality(FreeSlots(s, less, g)) - 1
         /\ Cardinality(Dirs(s, more, g))
              = Cardinality(Dirs(s, less, g)) + IF more[m] THEN 1 ELSE 0
         /\ Cardinality(DOMAIN more) = Cardinality(DOMAIN less) + 1
         /\ \A h \in Groups(s) : h # g =>
              /\ Mine(s, more, h) = Mine(s, less, h)
              /\ FreeSlots(s, more, h) = FreeSlots(s, less, h)
              /\ Dirs(s, more, h) = Dirs(s, less, h)
<1>1. m \in 1 .. s.inodes /\ InodeGroup(s, m) = g /\ InodeIndex(s, m) = i
  BY InodeOfPlace
<1>2. \A h \in Groups(s) : \A j \in 0 .. InodesIn(s, h) - 1 :
         InodeAt(s, j, h) = m => h = g /\ j = i
  <2>1. SUFFICES ASSUME NEW h \in Groups(s), NEW j \in 0 .. InodesIn(s, h) - 1, InodeAt(s, j, h) = m
                 PROVE  h = g /\ j = i
    OBVIOUS
  <2>2. InodeGroup(s, InodeAt(s, j, h)) = h /\ InodeIndex(s, InodeAt(s, j, h)) = j
    BY InodeOfPlace
  <2> QED
    BY <1>1, <2>1, <2>2
<1>3. /\ DOMAIN more = DOMAIN less \cup {m} /\ m \notin DOMAIN less
      /\ \A k \in DOMAIN less : more[k] = less[k]
  OBVIOUS
<1>4. Mine(s, more, g) = Mine(s, less, g) \cup {m} /\ m \notin Mine(s, less, g)
  BY <1>1, <1>3 DEF Mine
<1>5. i \in FreeSlots(s, less, g)
  BY <1>3 DEF FreeSlots
<1>6. FreeSlots(s, more, g) = FreeSlots(s, less, g) \ {i}
  <2>1. \A j \in 0 .. InodesIn(s, g) - 1 : InodeAt(s, j, g) = m <=> j = i
    BY <1>2
  <2> QED
    BY <1>3, <2>1 DEF FreeSlots
<1>7. Dirs(s, more, g) = IF more[m] THEN Dirs(s, less, g) \cup {m} ELSE Dirs(s, less, g)
  BY <1>3, <1>4 DEF Mine, Dirs
<1>8. /\ IsFiniteSet(FreeSlots(s, less, g)) /\ IsFiniteSet(DOMAIN less)
      /\ IsFiniteSet(Mine(s, less, g)) /\ IsFiniteSet(Dirs(s, less, g))
      /\ Cardinality(Dirs(s, less, g)) \in Nat
  BY SlotsAre
<1>9. m \notin Dirs(s, less, g)
  BY <1>4 DEF Dirs
<1>10. Cardinality(Mine(s, more, g)) = Cardinality(Mine(s, less, g)) + 1
  BY <1>4, <1>8, FS_AddElement
<1>11. Cardinality(FreeSlots(s, more, g)) = Cardinality(FreeSlots(s, less, g)) - 1
  BY <1>5, <1>6, <1>8, FS_RemoveElement
<1>12. Cardinality(Dirs(s, more, g)) = Cardinality(Dirs(s, less, g)) + IF more[m] THEN 1 ELSE 0
  <2>1. CASE more[m]
    <3>1. Dirs(s, more, g) = Dirs(s, less, g) \cup {m}
      BY <1>7, <2>1
    <3>2. Cardinality(Dirs(s, less, g) \cup {m}) = Cardinality(Dirs(s, less, g)) + 1
      BY <1>8, <1>9, FS_AddElement
    <3> QED
      BY <2>1, <3>1, <3>2
  <2>2. CASE ~more[m]
    <3>1. Dirs(s, more, g) = Dirs(s, less, g)
      BY <1>7, <2>2
    <3> QED
      BY <1>8, <2>2, <3>1
  <2> QED
    BY <2>1, <2>2
<1>13. Cardinality(DOMAIN more) = Cardinality(DOMAIN less) + 1
  BY <1>3, <1>8, FS_AddElement
<1>14. ASSUME NEW h \in Groups(s), h # g
       PROVE  /\ Mine(s, more, h) = Mine(s, less, h)
              /\ FreeSlots(s, more, h) = FreeSlots(s, less, h)
              /\ Dirs(s, more, h) = Dirs(s, less, h)
  <2>1. Mine(s, more, h) = Mine(s, less, h)
    BY <1>1, <1>3, <1>14 DEF Mine
  <2>2. FreeSlots(s, more, h) = FreeSlots(s, less, h)
    BY <1>2, <1>3, <1>14 DEF FreeSlots
  <2>3. \A k \in Mine(s, less, h) : more[k] = less[k]
    BY <1>3 DEF Mine
  <2>4. Dirs(s, more, h) = Dirs(s, less, h)
    BY <2>1, <2>3 DEF Dirs
  <2> QED
    BY <2>1, <2>2, <2>4
<1> QED
  BY <1>4, <1>5, <1>6, <1>10, <1>11, <1>12, <1>13, <1>14

LEMMA OtherInodes ==
  ASSUME NEW s \in Setups, NEW h \in Groups(s), NEW q, NEW ids, NEW others, InodesSound(s, q, ids, h),
         Mine(s, others, h) = Mine(s, ids, h), FreeSlots(s, others, h) = FreeSlots(s, ids, h),
         Dirs(s, others, h) = Dirs(s, ids, h)
  PROVE  InodesSound(s, q, others, h)
BY DEF InodesSound

\* The i-nodes in use with one more of them.
With(ids, m, isDir) == [k \in DOMAIN ids \cup {m} |-> IF k = m THEN isDir ELSE ids[k]]

LEMMA TakeInodeKeeps ==
  ASSUME NEW s \in Setups, NEW g \in Groups(s), NEW x, NEW H, NEW ids, Sound(s, x, H, ids),
         ~x.group[g].lazy, NEW i \in FreeSlots(s, ids, g), NEW isDir \in BOOLEAN
  PROVE  /\ InodeAt(s, i, g) \in (1 .. s.inodes) \ DOMAIN ids
         /\ Sound(s, TakeInode(s, x, g, i, isDir), H, With(ids, InodeAt(s, i, g), isDir))
<1> DEFINE y == TakeInode(s, x, g, i, isDir)
           m == InodeAt(s, i, g)
           more == With(ids, m, isDir)
           count == InodesIn(s, g)
           q == x.group[g]
           r == y.group[g]
<1>1. /\ x \in StoreType(s) /\ CallersSound(s, H, ids)
      /\ \A h \in Groups(s) : BlocksSound(s, x.group[h], H, h) /\ InodesSound(s, x.group[h], ids, h)
      /\ x.freeBlocks = Total(s, x.group)
      /\ x.inodeBlocks = Cardinality(H)
      /\ x.freeInodes = s.inodes - Cardinality(DOMAIN ids)
  BY DEF Sound
<1>2. i \in 0 .. count - 1 /\ m \notin DOMAIN ids /\ count \in Nat
  BY ShareOfGroup DEF FreeSlots
<1>3. m \in 1 .. s.inodes /\ InodeIndex(s, m) = i
  BY <1>2, InodeOfPlace
<1>4. /\ y \in StoreType(s)
      /\ r.blocks = q.blocks /\ r.free = q.free /\ r.inodes = q.inodes \cup {i}
      /\ r.freeInodes = q.freeInodes - 1 /\ r.lazy = q.lazy
      /\ r.dirs = IF isDir THEN q.dirs + 1 ELSE q.dirs
      /\ r.unused = IF i >= count - q.unused THEN count - (i + 1) ELSE q.unused
      /\ \A h \in Groups(s) : h # g => y.group[h] = x.group[h]
      /\ y.freeBlocks = x.freeBlocks /\ y.inodeBlocks = x.inodeBlocks
      /\ y.freeInodes = x.freeInodes - 1
  <2>1. i \in Int
    BY <1>2
  <2> QED
    BY <1>1, <2>1, TakeInodeParts
<1>5. DOMAIN ids \subseteq 1 .. s.inodes /\ ids \in [DOMAIN ids -> BOOLEAN]
  BY <1>1 DEF CallersSound
<1>6. /\ DOMAIN more = DOMAIN ids \cup {m} /\ more[m] = isDir
      /\ \A k \in DOMAIN ids : more[k] = ids[k]
      /\ more \in [DOMAIN more -> BOOLEAN]
  BY <1>2, <1>5 DEF With
<1>7. q \in GroupType /\ \A k \in Groups(s) : x.group[k].free \in Int
  BY <1>1, StoreFields, GroupFields
<1>8. q.unused \in Int /\ q.dirs \in Int /\ q.freeInodes \in Int
  BY <1>7, GroupFields
<1> HIDE DEF y, more, r, q
<1>9. /\ Mine(s, more, g) = Mine(s, ids, g) \cup {m}
      /\ Cardinality(Mine(s, more, g)) = Cardinality(Mine(s, ids, g)) + 1
      /\ FreeSlots(s, more, g) = FreeSlots(s, ids, g) \ {i}
      /\ Cardinality(FreeSlots(s, more, g)) = Cardinality(FreeSlots(s, ids, g)) - 1
      /\ Cardinality(Dirs(s, more, g))
           = Cardinality(Dirs(s, ids, g)) + IF more[m] THEN 1 ELSE 0
      /\ Cardinality(DOMAIN more) = Cardinality(DOMAIN ids) + 1
      /\ \A h \in Groups(s) : h # g =>
           /\ Mine(s, more, h) = Mine(s, ids, h)
           /\ FreeSlots(s, more, h) = FreeSlots(s, ids, h)
           /\ Dirs(s, more, h) = Dirs(s, ids, h)
  BY <1>2, <1>5, <1>6, OneInode
<1> HIDE DEF m
<1>10. /\ Cardinality(Mine(s, ids, g)) \in Nat /\ Cardinality(DOMAIN ids) \in Nat
       /\ Cardinality(Dirs(s, ids, g)) \in Nat
  BY <1>5, SlotsAre
<1>11. InodesSound(s, q, ids, g) /\ ~q.lazy
  BY <1>1 DEF q
<1>12. InodesSound(s, r, more, g)
  <2>1. r.freeInodes = count - Cardinality(Mine(s, more, g))
    BY <1>2, <1>4, <1>8, <1>9, <1>10, <1>11 DEF InodesSound
  <2>2. r.freeInodes = Cardinality(FreeSlots(s, more, g))
    BY <1>4, <1>9, <1>11 DEF InodesSound
  <2>3. r.dirs = Cardinality(Dirs(s, more, g))
    <3>1. q.dirs = Cardinality(Dirs(s, ids, g))
      BY <1>11 DEF InodesSound
    <3> QED
      BY <1>4, <1>6, <1>9, <1>10, <3>1
  <2>4. \A k \in Mine(s, more, g) : InodeIndex(s, k) < count - r.unused
    <3>1. SUFFICES ASSUME NEW k \in Mine(s, more, g) PROVE InodeIndex(s, k) < count - r.unused
      OBVIOUS
    <3>2. CASE k = m
      BY <1>2, <1>3, <1>4, <1>8, <3>2
    <3>3. CASE k \in Mine(s, ids, g)
      <4>1. InodeIndex(s, k) < count - q.unused
        BY <1>11, <3>3 DEF InodesSound
      <4>2. InodeIndex(s, k) \in Nat
        <5>1. k \in 1 .. s.inodes /\ InodeGroup(s, k) = g
          BY <1>5, <3>3 DEF Mine
        <5> QED
          BY <1>2, <5>1, PlaceOfInode
      <4> QED
        BY <1>2, <1>4, <1>8, <4>1, <4>2
    <3> QED
      BY <1>9, <3>2, <3>3
  <2>5. (0 .. count - 1) \ r.inodes = FreeSlots(s, more, g)
    <3>1. (0 .. count - 1) \ q.inodes = FreeSlots(s, ids, g)
      BY <1>11 DEF InodesSound
    <3> QED
      BY <1>4, <1>9, <3>1
  <2> QED
    BY <1>4, <1>11, <2>1, <2>2, <2>3, <2>4, <2>5 DEF InodesSound
<1>13. BlocksSound(s, r, H, g)
  <2>1. BlocksSound(s, q, H, g)
    BY <1>1 DEF q
  <2> QED
    BY <1>4, <2>1 DEF BlocksSound
<1>14. \A h \in Groups(s) : BlocksSound(s, y.group[h], H, h) /\ InodesSound(s, y.group[h], more, h)
  <2>1. SUFFICES ASSUME NEW h \in Groups(s)
                 PROVE  BlocksSound(s, y.group[h], H, h) /\ InodesSound(s, y.group[h], more, h)
    OBVIOUS
  <2>2. CASE h = g
    BY <1>12, <1>13, <2>2 DEF r
  <2>3. CASE h # g
    <3>1. y.group[h] = x.group[h] /\ BlocksSound(s, x.group[h], H, h) /\ InodesSound(s, x.group[h], ids, h)
      BY <1>1, <1>4, <2>3
    <3> QED
      BY <1>9, <2>3, <3>1, OtherInodes
  <2> QED
    BY <2>2, <2>3
<1>15. Total(s, y.group) = Total(s, x.group)
  <2>1. y.group[g].free = x.group[g].free /\ y.group[g].free \in Int
    BY <1>4, <1>7 DEF r, q
  <2>2. \A k \in Groups(s) : k # g => y.group[k].free = x.group[k].free
    BY <1>4
  <2>3. /\ Total(s, x.group) \in Int
        /\ Total(s, y.group) = Total(s, x.group) + y.group[g].free - x.group[g].free
    BY <1>7, <2>1, <2>2, SumOfChange
  <2> QED
    BY <1>7, <2>1, <2>3
<1>16. CallersSound(s, H, more)
  BY <1>1, <1>3, <1>6 DEF CallersSound
<1>17. y.freeInodes = s.inodes - Cardinality(DOMAIN more)
  BY <1>1, <1>4, <1>9, <1>10, GroupParts
<1>18. Sound(s, y, H, more)
  BY <1>1, <1>4, <1>14, <1>15, <1>16, <1>17 DEF Sound
<1> QED
  BY <1>2, <1>3, <1>18 DEF m, more, y

\* Whatever came before: an i-node that is not in use, or none when all are.
LEMMA AllocInodeFinds ==
  ASSUME NEW s \in Setups, NEW x, NEW H, NEW ids, Sound(s, x, H, ids), NEW isDir \in BOOLEAN
  PROVE  LET r == AllocInode(s, x, isDir)
         IN /\ r.err = "EOK" => /\ r.i \in (1 .. s.inodes) \ DOMAIN ids
                                /\ Sound(s, r.x, H, With(ids, r.i, isDir))
            /\ r.err # "EOK" => /\ r.err = "ENOSPC" /\ Sound(s, r.x, H, ids)
                                /\ DOMAIN ids = 1 .. s.inodes
<1> DEFINE w == [x |-> x, at |-> -1, g |-> 0]
           n == GroupCount(s)
           walk == CHOOSE f : InodeSearchUpTo(s, w, InodeGroups(s, x), f, n)
           end == walk[n]
           r == AllocInode(s, x, isDir)
<1>1. r = IF end.at \in {-1, Endless}
          THEN [x |-> end.x, i |-> 0, err |-> IF end.at = -1 THEN "ENOSPC" ELSE "never returns"]
          ELSE [x |-> TakeInode(s, end.x, end.g, end.at, isDir), i |-> InodeAt(s, end.at, end.g),
                err |-> "EOK"]
  BY DEF AllocInode, InodeSearchUpTo
<1>2. InodeSearchUpTo(s, w, InodeGroups(s, x), walk, n)
  <2>1. n \in Nat
    BY GroupParts
  <2> HIDE DEF w, n
  <2> QED
    BY <2>1, InodeSearchExists
<1>3. InodeFound(s, w, H, ids) /\ x.lastGroup \in Groups(s)
  BY StoreFields DEF InodeFound, Sound
<1>4. InodeFound(s, end, H, ids) /\ (end.at = -1 => \A h \in Groups(s) : FreeSlots(s, ids, h) = {})
  <2> HIDE DEF w, walk
  <2> QED
    BY <1>2, <1>3, InodeSearchFinds
<1> HIDE DEF end, r
<1>5. CASE end.at # -1
  <2>1. Sound(s, end.x, H, ids) /\ end.g \in Groups(s) /\ ~end.x.group[end.g].lazy
        /\ end.at \in FreeSlots(s, ids, end.g)
    BY <1>4, <1>5 DEF InodeFound
  <2>2. /\ r.err = "EOK" /\ r.i = InodeAt(s, end.at, end.g)
        /\ r.x = TakeInode(s, end.x, end.g, end.at, isDir)
    <3>1. end.at # Endless
      BY <2>1, ShareOfGroup DEF FreeSlots, Endless
    <3> QED
      BY <1>1, <1>5, <3>1
  <2>3. /\ r.i \in (1 .. s.inodes) \ DOMAIN ids
        /\ Sound(s, r.x, H, With(ids, r.i, isDir))
    BY <2>1, <2>2, TakeInodeKeeps
  <2> QED
    BY <2>2, <2>3 DEF r
<1>6. CASE end.at = -1
  <2>1. r.err = "ENOSPC" /\ r.x = end.x
    BY <1>1, <1>6
  <2>2. Sound(s, end.x, H, ids) /\ \A h \in Groups(s) : FreeSlots(s, ids, h) = {}
    BY <1>4, <1>6 DEF InodeFound
  <2>3. DOMAIN ids = 1 .. s.inodes
    <3>1. DOMAIN ids \subseteq 1 .. s.inodes
      BY DEF Sound, CallersSound
    <3>2. ASSUME NEW i \in 1 .. s.inodes PROVE i \in DOMAIN ids
      <4>1. /\ InodeGroup(s, i) \in Groups(s)
            /\ InodeIndex(s, i) \in 0 .. InodesIn(s, InodeGroup(s, i)) - 1
            /\ InodeAt(s, InodeIndex(s, i), InodeGroup(s, i)) = i
        BY PlaceOfInode
      <4>2. InodeIndex(s, i) \notin FreeSlots(s, ids, InodeGroup(s, i))
        BY <2>2, <4>1
      <4> QED
        BY <4>1, <4>2 DEF FreeSlots
    <3> QED
      BY <3>1, <3>2
  <2> QED
    BY <2>1, <2>2, <2>3 DEF r
<1> QED
  BY <1>5, <1>6

LEMMA FreeInodeKeeps ==
  ASSUME NEW s \in Setups, NEW x, NEW H, NEW ids, Sound(s, x, H, ids), NEW m \in DOMAIN ids
  PROVE  Sound(s, FreeInode(s, x, m, ids[m]), H, Restrict(ids, DOMAIN ids \ {m}))
<1> DEFINE g == InodeGroup(s, m)
           i == InodeIndex(s, m)
           y == GetGroup(s, x, g)
           z == FreeInode(s, x, m, ids[m])
           less == Restrict(ids, DOMAIN ids \ {m})
           count == InodesIn(s, g)
           q == y.group[g]
           r == z.group[g]
<1>1. DOMAIN ids \subseteq 1 .. s.inodes /\ ids \in [DOMAIN ids -> BOOLEAN] /\ ids[m] \in BOOLEAN
  BY DEF Sound, CallersSound
<1>2. g \in Groups(s) /\ i \in 0 .. count - 1 /\ InodeAt(s, i, g) = m
  BY <1>1, PlaceOfInode
<1>3. /\ y \in StoreType(s) /\ CallersSound(s, H, ids) /\ ~q.lazy
      /\ \A h \in Groups(s) : BlocksSound(s, y.group[h], H, h) /\ InodesSound(s, y.group[h], ids, h)
      /\ y.freeBlocks = Total(s, y.group)
      /\ y.inodeBlocks = Cardinality(H)
      /\ y.freeInodes = s.inodes - Cardinality(DOMAIN ids)
  BY <1>2, GetGroupKeeps DEF Sound
<1>4. /\ z \in StoreType(s)
      /\ r.blocks = q.blocks /\ r.free = q.free /\ r.inodes = q.inodes \ {i}
      /\ r.freeInodes = q.freeInodes + 1 /\ r.lazy = q.lazy /\ r.unused = q.unused
      /\ r.dirs = IF ids[m] THEN q.dirs - 1 ELSE q.dirs
      /\ \A h \in Groups(s) : h # g => z.group[h] = y.group[h]
      /\ z.freeBlocks = y.freeBlocks /\ z.inodeBlocks = y.inodeBlocks
      /\ z.freeInodes = y.freeInodes + 1
  BY <1>1, <1>2, <1>3, FreeInodeParts
<1>5. /\ DOMAIN less = DOMAIN ids \ {m} /\ DOMAIN ids = DOMAIN less \cup {m}
      /\ \A k \in DOMAIN less : ids[k] = less[k]
      /\ less \in [DOMAIN less -> BOOLEAN]
  BY <1>1 DEF Restrict
<1>6. q \in GroupType /\ \A k \in Groups(s) : y.group[k].free \in Int
  BY <1>2, <1>3, StoreFields, GroupFields
<1>7. q.dirs \in Int /\ q.freeInodes \in Int /\ count \in Nat
  BY <1>2, <1>6, GroupFields, ShareOfGroup
<1> HIDE DEF y, z, less, r, q, g, i, count
<1>8. /\ Mine(s, ids, g) = Mine(s, less, g) \cup {m}
      /\ Cardinality(Mine(s, ids, g)) = Cardinality(Mine(s, less, g)) + 1
      /\ FreeSlots(s, ids, g) = FreeSlots(s, less, g) \ {i} /\ i \in FreeSlots(s, less, g)
      /\ Cardinality(FreeSlots(s, ids, g)) = Cardinality(FreeSlots(s, less, g)) - 1
      /\ Cardinality(Dirs(s, ids, g))
           = Cardinality(Dirs(s, less, g)) + IF ids[m] THEN 1 ELSE 0
      /\ Cardinality(DOMAIN ids) = Cardinality(DOMAIN less) + 1
      /\ \A h \in Groups(s) : h # g =>
           /\ Mine(s, ids, h) = Mine(s, less, h)
           /\ FreeSlots(s, ids, h) = FreeSlots(s, less, h)
           /\ Dirs(s, ids, h) = Dirs(s, less, h)
  <2>1. m \notin DOMAIN less /\ DOMAIN less \subseteq 1 .. s.inodes
    BY <1>1, <1>5
  <2>2. i \in 0 .. InodesIn(s, g) - 1 /\ g \in Groups(s) /\ m = InodeAt(s, i, g)
    BY <1>2 DEF count
  <2>3. DOMAIN ids = DOMAIN less \cup {m}
    BY <1>5
  <2>4. \A k \in DOMAIN less : ids[k] = less[k]
    BY <1>5
  <2>5. Cardinality(DOMAIN ids) = Cardinality(DOMAIN less) + 1
    BY <2>1, <2>2, <2>3, <2>4, OneInode
  <2>6. Cardinality(Dirs(s, ids, g))
           = Cardinality(Dirs(s, less, g)) + IF ids[m] THEN 1 ELSE 0
    BY <2>1, <2>2, <2>3, <2>4, OneInode
  <2>7. FreeSlots(s, ids, g) = FreeSlots(s, less, g) \ {i} /\ i \in FreeSlots(s, less, g)
    BY <2>1, <2>2, <2>3, <2>4, OneInode
  <2>8. \A h \in Groups(s) : h # g =>
           /\ Mine(s, ids, h) = Mine(s, less, h)
           /\ FreeSlots(s, ids, h) = FreeSlots(s, less, h)
           /\ Dirs(s, ids, h) = Dirs(s, less, h)
    BY <2>1, <2>2, <2>3, <2>4, OneInode
  <2>9. /\ Mine(s, ids, g) = Mine(s, less, g) \cup {m}
        /\ Cardinality(Mine(s, ids, g)) = Cardinality(Mine(s, less, g)) + 1
    BY <2>1, <2>2, <2>3, <2>4, OneInode
  <2>10. Cardinality(FreeSlots(s, ids, g)) = Cardinality(FreeSlots(s, less, g)) - 1
    BY <2>1, <2>2, <2>3, <2>4, OneInode
  <2> QED
    BY <2>5, <2>6, <2>7, <2>8, <2>9, <2>10
<1>9. /\ Cardinality(Mine(s, less, g)) \in Nat /\ Cardinality(DOMAIN less) \in Nat
      /\ Cardinality(Dirs(s, less, g)) \in Nat
      /\ Cardinality(FreeSlots(s, less, g)) \in Nat
  <2>1. DOMAIN less \subseteq 1 .. s.inodes
    BY <1>1, <1>5
  <2> QED
    BY <1>2, <2>1, SlotsAre
<1>10. InodesSound(s, q, ids, g) /\ ~q.lazy
  BY <1>2, <1>3 DEF q
<1>11. InodesSound(s, r, less, g)
  <2>1. r.freeInodes = InodesIn(s, g) - Cardinality(Mine(s, less, g))
    BY <1>4, <1>7, <1>8, <1>9, <1>10 DEF InodesSound, count
  <2>2. r.freeInodes = Cardinality(FreeSlots(s, less, g))
    BY <1>4, <1>8, <1>9, <1>10 DEF InodesSound
  <2>3. r.dirs = Cardinality(Dirs(s, less, g))
    <3>1. q.dirs = Cardinality(Dirs(s, ids, g))
      BY <1>10 DEF InodesSound
    <3> QED
      BY <1>1, <1>4, <1>8, <1>9, <3>1
  <2>4. \A k \in Mine(s, less, g) : InodeIndex(s, k) < InodesIn(s, g) - r.unused
    BY <1>4, <1>8, <1>10 DEF InodesSound
  <2>5. (0 .. InodesIn(s, g) - 1) \ r.inodes = FreeSlots(s, less, g)
    <3>1. (0 .. InodesIn(s, g) - 1) \ q.inodes = FreeSlots(s, ids, g)
      BY <1>10 DEF InodesSound
    <3>2. i \in 0 .. InodesIn(s, g) - 1
      BY <1>2 DEF count
    <3>3. FreeSlots(s, less, g) \subseteq 0 .. InodesIn(s, g) - 1
      BY DEF FreeSlots
    <3> QED
      BY <1>4, <1>8, <3>1, <3>2, <3>3
  <2> QED
    BY <1>4, <1>10, <2>1, <2>2, <2>3, <2>4, <2>5 DEF InodesSound
<1>12. BlocksSound(s, r, H, g)
  <2>1. BlocksSound(s, q, H, g)
    BY <1>2, <1>3 DEF q
  <2> QED
    BY <1>4, <2>1 DEF BlocksSound
<1>13. \A h \in Groups(s) : BlocksSound(s, z.group[h], H, h) /\ InodesSound(s, z.group[h], less, h)
  <2>1. SUFFICES ASSUME NEW h \in Groups(s)
                 PROVE  BlocksSound(s, z.group[h], H, h) /\ InodesSound(s, z.group[h], less, h)
    OBVIOUS
  <2>2. CASE h = g
    BY <1>11, <1>12, <2>2 DEF r
  <2>3. CASE h # g
    <3>1. z.group[h] = y.group[h] /\ BlocksSound(s, y.group[h], H, h) /\ InodesSound(s, y.group[h], ids, h)
      BY <1>3, <1>4, <2>3
    <3> QED
      BY <1>8, <2>3, <3>1, OtherInodes
  <2> QED
    BY <2>2, <2>3
<1>14. Total(s, z.group) = Total(s, y.group)
  <2>1. z.group[g].free = y.group[g].free /\ z.group[g].free \in Int
    BY <1>2, <1>4, <1>6 DEF r, q
  <2>2. \A k \in Groups(s) : k # g => z.group[k].free = y.group[k].free
    BY <1>4
  <2>3. /\ Total(s, y.group) \in Int
        /\ Total(s, z.group) = Total(s, y.group) + z.group[g].free - y.group[g].free
    BY <1>2, <1>6, <2>1, <2>2, SumOfChange
  <2> QED
    BY <1>2, <1>6, <2>1, <2>3
<1>15. CallersSound(s, H, less)
  BY <1>1, <1>3, <1>5 DEF CallersSound
<1>16. z.freeInodes = s.inodes - Cardinality(DOMAIN less)
  BY <1>3, <1>4, <1>8, <1>9, GroupParts
<1>17. Sound(s, z, H, less)
  BY <1>3, <1>4, <1>13, <1>14, <1>15, <1>16 DEF Sound
<1> QED
  BY <1>17 DEF z, less

----------------------------------------------------------------------------
(* From the file system mke2fs leaves *)

LEMMA NewGroupSound ==
  ASSUME NEW s \in Setups, NEW g \in Groups(s), NEW ids, DOMAIN ids = {}
  PROVE  LET x == NewGroup(s, g)
         IN x \in GroupType /\ BlocksSound(s, x, {}, g) /\ InodesSound(s, x, ids, g)
<1> DEFINE x == NewGroup(s, g)
           lazy == g \in s.lazy
           used == {i \in Existing(s, g) : BlockAt(s, i, g) \in Fixed(s)}
           blocks == IF lazy THEN {} ELSE used \cup (0 .. BitmapBits - 1 \ Existing(s, g))
           free == Cardinality(Existing(s, g)) - Cardinality(used)
           slots == IF lazy THEN {} ELSE EndBits(s.ipg)
           count == InodesIn(s, g)
<1>1. x = [blocks |-> blocks, free |-> free, inodes |-> slots, freeInodes |-> count, dirs |-> 0,
           unused |-> count, lazy |-> lazy]
  BY DEF NewGroup
<1>2. /\ Existing(s, g) \subseteq 0 .. BitmapBits - 1 /\ IsFiniteSet(Existing(s, g))
      /\ BitmapBits \in Nat
  <2>1. Room(s, g) \in Nat /\ Room(s, g) <= s.bpg /\ Existing(s, g) = 0 .. Room(s, g) - 1
    BY ExistingIs
  <2>2. s.bpg \in Nat /\ s.bpg <= BitmapBits /\ BitmapBits \in Nat
    BY GroupParts, ConstantParts
  <2>3. IsFiniteSet(0 .. Room(s, g) - 1)
    BY <2>1, FS_Interval
  <2> QED
    BY <2>1, <2>2, <2>3
<1>3. used \subseteq Existing(s, g) /\ FreeBits(s, {}, g) = Existing(s, g) \ used
  BY DEF FreeBits
<1>4. count \in Nat /\ count <= s.ipg /\ s.ipg \in Nat /\ s.ipg <= BitmapBits
  BY ShareOfGroup, GroupParts
<1>5. slots \subseteq s.ipg .. BitmapBits - 1
  BY <1>4, EndIsFilled
<1> HIDE DEF x, used, lazy
<1>6. free \in Int /\ free = Cardinality(FreeBits(s, {}, g))
  <2>1. IsFiniteSet(used) /\ Cardinality(used) \in Nat /\ Cardinality(Existing(s, g)) \in Nat
    BY <1>2, <1>3, FS_Subset, FS_CardinalityType
  <2>2. Existing(s, g) \cap used = used
    BY <1>3
  <2>3. Cardinality(Existing(s, g) \ used) = Cardinality(Existing(s, g)) - Cardinality(Existing(s, g) \cap used)
    BY <1>2, FS_Difference
  <2>4. Cardinality(FreeBits(s, {}, g)) = Cardinality(Existing(s, g)) - Cardinality(used)
    BY <1>3, <2>2, <2>3
  <2> QED
    BY <2>1, <2>4
<1>7. ~lazy => (0 .. BitmapBits - 1) \ blocks = FreeBits(s, {}, g)
  BY <1>2, <1>3
<1>8. blocks \subseteq Int /\ slots \subseteq Int /\ lazy \in BOOLEAN
  <2>1. blocks \subseteq 0 .. BitmapBits - 1
    BY <1>2, <1>3
  <2>2. lazy \in BOOLEAN
    BY DEF lazy
  <2> QED
    BY <1>2, <1>4, <1>5, <2>1, <2>2
<1> HIDE DEF blocks, free, slots, count
<1>9. x \in GroupType
  BY <1>1, <1>4, <1>6, <1>8 DEF GroupType
<1>10. /\ x.blocks = blocks /\ x.free = free /\ x.inodes = slots /\ x.freeInodes = count
       /\ x.dirs = 0 /\ x.unused = count /\ x.lazy = lazy
  BY <1>1
<1>11. BlocksSound(s, x, {}, g)
  BY <1>6, <1>7, <1>10 DEF BlocksSound, lazy
<1>12. Mine(s, ids, g) = {} /\ Dirs(s, ids, g) = {} /\ Cardinality({}) = 0
  BY FS_EmptySet DEF Mine, Dirs
<1>13. FreeSlots(s, ids, g) = 0 .. count - 1
  BY <1>12, NoneMine DEF count
<1>14. Cardinality(0 .. count - 1) = count
  <2>1. Cardinality(0 .. count - 1) = IF 0 > count - 1 THEN 0 ELSE (count - 1) - 0 + 1
    BY <1>4, FS_Interval
  <2> QED
    BY <1>4, <2>1
<1>15. ~lazy => (0 .. count - 1) \ slots = 0 .. count - 1
  BY <1>4, <1>5
<1>16. InodesSound(s, x, ids, g)
  BY <1>4, <1>10, <1>12, <1>13, <1>14, <1>15 DEF InodesSound, count
<1> QED
  BY <1>9, <1>11, <1>16 DEF x

LEMMA InitSound == Init => SoundInv
<1> SUFFICES ASSUME Init PROVE SoundInv
  OBVIOUS
<1> DEFINE s == setup
           G == [g \in Groups(s) |-> NewGroup(s, g)]
<1>1. /\ s \in Setups /\ held = {} /\ inodes = <<>>
      /\ a = [group |-> G, lastGroup |-> 0, inodeBlocks |-> 0, freeBlocks |-> Total(s, G),
              freeInodes |-> s.inodes]
  BY DEF Init
<1>2. DOMAIN inodes = {}
  BY <1>1
<1>3. \A g \in Groups(s) : /\ G[g] \in GroupType /\ BlocksSound(s, G[g], held, g)
                           /\ InodesSound(s, G[g], inodes, g)
  BY <1>1, <1>2, NewGroupSound
<1>4. G \in [Groups(s) -> GroupType]
  BY <1>3
<1> HIDE DEF G
<1>5. 0 \in Groups(s) /\ s.inodes \in Nat
  BY <1>1, GroupParts DEF Groups
<1>6. Total(s, G) \in Int
  <2>1. \A g \in Groups(s) : G[g].free \in Int
    BY <1>4, GroupFields
  <2> QED
    BY <1>1, <1>5, <2>1, SumOfChange
<1>7. a \in StoreType(s)
  BY <1>1, <1>4, <1>5, <1>6 DEF StoreType
<1>8. /\ a.group = G /\ a.lastGroup = 0 /\ a.inodeBlocks = 0 /\ a.freeBlocks = Total(s, G)
      /\ a.freeInodes = s.inodes
  BY <1>1
<1>9. Cardinality(held) = 0 /\ IsFiniteSet(held) /\ Cardinality(DOMAIN inodes) = 0
  BY <1>1, <1>2, FS_EmptySet
<1>10. inodes \in [DOMAIN inodes -> BOOLEAN]
  BY <1>1, <1>2
<1>11. CallersSound(s, held, inodes)
  BY <1>1, <1>2, <1>9, <1>10 DEF CallersSound
<1>12. Sound(s, a, held, inodes)
  BY <1>3, <1>5, <1>7, <1>8, <1>9, <1>11 DEF Sound
<1> QED
  BY <1>1, <1>12 DEF SoundInv

----------------------------------------------------------------------------
(* Every call keeps what is promised *)

LEMMA AllocSound ==
  ASSUME SoundInv, NEW goal \in setup.goals, Alloc(goal)
  PROVE  /\ SoundInv'
         /\ last'.call = "alloc"
         /\ last'.err = "EOK" => last'.p \notin held
         /\ last'.err = "ENOSPC" => 0 .. setup.total - 1 \subseteq held \cup Fixed(setup)
<1> DEFINE r == AllocBlock(setup, a, goal)
<1>1. setup \in Setups /\ goal \in Nat /\ Sound(setup, a, held, inodes)
  BY GroupParts DEF SoundInv
<1>2. /\ r.err = "EOK" => r.p \notin held /\ Sound(setup, r.x, held \cup {r.p}, inodes)
      /\ r.err # "EOK" => Sound(setup, r.x, held, inodes)
      /\ r.err = "ENOSPC" => 0 .. setup.total - 1 \subseteq held \cup Fixed(setup)
  BY <1>1, AllocBlockFinds
<1>3. /\ a' = r.x /\ held' = (IF r.err = "EOK" THEN held \cup {r.p} ELSE held)
      /\ last' = [call |-> "alloc", p |-> r.p, err |-> r.err]
      /\ setup' = setup /\ inodes' = inodes
  BY DEF Alloc
<1> HIDE DEF r
<1>4. Sound(setup, a', held', inodes)
  BY <1>2, <1>3
<1>5. SoundInv'
  BY <1>1, <1>3, <1>4 DEF SoundInv
<1> QED
  BY <1>2, <1>3, <1>5

LEMMA TryAllocSound ==
  ASSUME SoundInv, NEW p \in setup.first .. setup.total - 1, TryAlloc(p)
  PROVE  SoundInv' /\ last'.call = "try"
<1> DEFINE r == TryAllocBlock(setup, a, p)
<1>1. setup \in Setups /\ Sound(setup, a, held, inodes)
  BY DEF SoundInv
<1>2. Sound(setup, r.x, IF r.free THEN held \cup {p} ELSE held, inodes)
  BY <1>1, TryAllocFinds
<1>3. /\ a' = r.x /\ held' = (IF r.free THEN held \cup {p} ELSE held)
      /\ last'.call = "try" /\ setup' = setup /\ inodes' = inodes
  BY DEF TryAlloc
<1> HIDE DEF r
<1>4. SoundInv'
  BY <1>1, <1>2, <1>3 DEF SoundInv
<1> QED
  BY <1>3, <1>4

LEMMA FreeSound ==
  ASSUME SoundInv, NEW p \in held, Free(p)
  PROVE  SoundInv' /\ last'.call = "free"
<1> DEFINE s == setup
           g == GroupOf(s, p)
           i == IndexOf(s, p)
<1>1. s \in Setups /\ Sound(s, a, held, inodes)
  BY DEF SoundInv
<1>2. p \in s.first .. s.total - 1 /\ p \in Nat
  <2>1. p \in s.first .. s.total - 1
    BY <1>1 DEF Sound, CallersSound
  <2> QED
    BY <1>1, <2>1, GroupParts
<1>3. g \in Groups(s) /\ BlockAt(s, i, g) = p /\ i \in 0 .. s.bpg - 1 /\ s.bpg \in Nat
  BY <1>1, <1>2, BitOfBlock, PlacesOf, GroupParts
<1>4. /\ a' = GiveBits(s, a, g, i, 1) /\ held' = held \ {p}
      /\ last'.call = "free" /\ setup' = s /\ inodes' = inodes
  BY DEF Free, FreeBlock
<1> HIDE DEF g, i
<1>5. BlockAt(s, i, g) .. BlockAt(s, i, g) + 1 - 1 = {p}
  BY <1>2, <1>3
<1>6. i \in Nat /\ 1 \in Nat /\ i + 1 <= s.bpg /\ {p} \subseteq held
  BY <1>3
<1>7. Sound(s, GiveBits(s, a, g, i, 1), held \ {p}, inodes)
  BY <1>1, <1>3, <1>5, <1>6, GiveBitsKeeps
<1>8. SoundInv'
  BY <1>1, <1>4, <1>7 DEF SoundInv
<1> QED
  BY <1>4, <1>8

LEMMA FreeRangeSound ==
  ASSUME SoundInv, NEW p \in held, NEW n \in 2 .. 4, FreeRange(p, n)
  PROVE  SoundInv' /\ last'.call = "free"
<1>1. setup \in Setups /\ Sound(setup, a, held, inodes)
  BY DEF SoundInv
<1>2. p \in Nat
  <2>1. p \in setup.first .. setup.total - 1
    BY <1>1 DEF Sound, CallersSound
  <2> QED
    BY <1>1, <2>1, GroupParts
<1>3. n \in Nat \ {0}
  OBVIOUS
<1>4. /\ p .. p + n - 1 \subseteq held
      /\ setup.across \/ GroupOf(setup, p) = GroupOf(setup, p + n - 1)
      /\ a' = FreeBlocks(setup, a, p, n) /\ held' = held \ (p .. p + n - 1)
      /\ last'.call = "free" /\ setup' = setup /\ inodes' = inodes
  BY DEF FreeRange
<1>5. Sound(setup, FreeBlocks(setup, a, p, n), held \ (p .. p + n - 1), inodes)
  BY <1>1, <1>2, <1>3, <1>4, FreeBlocksKeeps
<1>6. SoundInv'
  BY <1>1, <1>4, <1>5 DEF SoundInv
<1> QED
  BY <1>4, <1>6

LEMMA NewInodeSound ==
  ASSUME SoundInv, NEW isDir \in BOOLEAN, NewInode(isDir)
  PROVE  /\ SoundInv'
         /\ last'.call = "inode"
         /\ last'.err = "EOK" => last'.p \notin DOMAIN inodes /\ last'.p <= setup.inodes
         /\ last'.err # "EOK" => last'.err = "ENOSPC" /\ DOMAIN inodes = 1 .. setup.inodes
<1> DEFINE r == AllocInode(setup, a, isDir)
<1>1. setup \in Setups /\ Sound(setup, a, held, inodes) /\ setup.inodes \in Nat
  BY GroupParts DEF SoundInv
<1>2. /\ r.err = "EOK" => /\ r.i \in (1 .. setup.inodes) \ DOMAIN inodes
                          /\ Sound(setup, r.x, held, With(inodes, r.i, isDir))
      /\ r.err # "EOK" => /\ r.err = "ENOSPC" /\ Sound(setup, r.x, held, inodes)
                          /\ DOMAIN inodes = 1 .. setup.inodes
  BY <1>1, AllocInodeFinds
<1>3. /\ a' = r.x /\ inodes' = (IF r.err = "EOK" THEN With(inodes, r.i, isDir) ELSE inodes)
      /\ last' = [call |-> "inode", p |-> r.i, err |-> r.err]
      /\ setup' = setup /\ held' = held
  BY DEF NewInode, With
<1> HIDE DEF r
<1>4. Sound(setup, a', held, inodes')
  BY <1>2, <1>3
<1>5. SoundInv'
  BY <1>1, <1>3, <1>4 DEF SoundInv
<1>6. last'.call = "inode" /\ last'.p = r.i /\ last'.err = r.err
  BY <1>3
<1>7. last'.err = "EOK" => last'.p \notin DOMAIN inodes /\ last'.p <= setup.inodes
  BY <1>1, <1>2, <1>6
<1> QED
  BY <1>2, <1>5, <1>6, <1>7

LEMMA DropInodeSound ==
  ASSUME SoundInv, NEW i \in DOMAIN inodes, DropInode(i)
  PROVE  SoundInv' /\ last'.call = "drop"
<1>1. setup \in Setups /\ Sound(setup, a, held, inodes)
  BY DEF SoundInv
<1>2. /\ a' = FreeInode(setup, a, i, inodes[i])
      /\ inodes' = Restrict(inodes, DOMAIN inodes \ {i})
      /\ last'.call = "drop" /\ setup' = setup /\ held' = held
  BY DEF DropInode
<1>3. Sound(setup, FreeInode(setup, a, i, inodes[i]), held, Restrict(inodes, DOMAIN inodes \ {i}))
  BY <1>1, FreeInodeKeeps
<1>4. SoundInv'
  BY <1>1, <1>2, <1>3 DEF SoundInv
<1> QED
  BY <1>2, <1>4

\* What a call may answer.
GivesNow ==
  /\ last'.call = "alloc" =>
       IF last'.err = "EOK" THEN last'.p \notin held
       ELSE last'.err = "ENOSPC" => 0 .. setup.total - 1 \subseteq held \cup Fixed(setup)
  /\ last'.call = "inode" =>
       IF last'.err = "EOK" THEN last'.p \notin DOMAIN inodes /\ last'.p <= setup.inodes
       ELSE last'.err = "ENOSPC" /\ DOMAIN inodes = 1 .. setup.inodes

LEMMA NextSound ==
  ASSUME SoundInv, Next
  PROVE  SoundInv' /\ GivesNow
<1>1. CASE \E goal \in setup.goals : Alloc(goal)
  BY <1>1, AllocSound DEF GivesNow
<1>2. CASE \E p \in setup.goals : p \in setup.first .. setup.total - 1 /\ TryAlloc(p)
  BY <1>2, TryAllocSound DEF GivesNow
<1>3. CASE \E p \in held : Free(p)
  BY <1>3, FreeSound DEF GivesNow
<1>4. CASE \E p \in held, n \in 2 .. 4 : FreeRange(p, n)
  BY <1>4, FreeRangeSound DEF GivesNow
<1>5. CASE \E isDir \in BOOLEAN : NewInode(isDir)
  BY <1>5, NewInodeSound DEF GivesNow
<1>6. CASE \E i \in DOMAIN inodes : DropInode(i)
  BY <1>6, DropInodeSound DEF GivesNow
<1> QED
  BY <1>1, <1>2, <1>3, <1>4, <1>5, <1>6 DEF Next

LEMMA StepSound ==
  ASSUME SoundInv, [Next]_vars
  PROVE  SoundInv'
<1>1. CASE Next
  BY <1>1, NextSound
<1>2. CASE vars' = vars
  <2>1. setup' = setup /\ a' = a /\ held' = held /\ inodes' = inodes
    BY <1>2 DEF vars
  <2> QED
    BY <2>1 DEF SoundInv
<1> QED
  BY <1>1, <1>2

----------------------------------------------------------------------------
(* What it promises the callers *)

LEMMA SoundIsAccounted ==
  ASSUME SoundInv
  PROVE  Accounted
<1> DEFINE s == setup
<1>1. /\ s \in Setups /\ CallersSound(s, held, inodes)
      /\ \A g \in Groups(s) : BlocksSound(s, a.group[g], held, g) /\ InodesSound(s, a.group[g], inodes, g)
      /\ a.freeBlocks = Total(s, a.group) /\ a.inodeBlocks = Cardinality(held)
      /\ a.freeInodes = s.inodes - Cardinality(DOMAIN inodes)
  BY DEF SoundInv, Sound
<1>2. ASSUME NEW g \in Groups(s)
      PROVE  /\ a.group[g].free = Cardinality(FreeBits(s, held, g))
             /\ ~a.group[g].lazy => FreeBits(s, held, g) = (0 .. BlocksIn(s, g) - 1) \ a.group[g].blocks
  <2> DEFINE x == a.group[g]
  <2>1. /\ x.free = Cardinality(FreeBits(s, held, g))
        /\ ~x.lazy => (0 .. BitmapBits - 1) \ x.blocks = FreeBits(s, held, g)
    BY <1>1, <1>2 DEF BlocksSound
  <2>2. FreeBits(s, held, g) \subseteq 0 .. BlocksIn(s, g) - 1
    BY <1>1, <1>2, FreeBitsAre
  <2>3. 0 .. BlocksIn(s, g) - 1 \subseteq 0 .. BitmapBits - 1
    <3>1. BlocksIn(s, g) \in Nat /\ BlocksIn(s, g) <= BitmapBits /\ BitmapBits \in Nat
      BY <1>1, <1>2, ShareOfGroup, ConstantParts
    <3> QED
      BY <3>1
  <2> HIDE DEF x
  <2>4. ~x.lazy => FreeBits(s, held, g) = (0 .. BlocksIn(s, g) - 1) \ x.blocks
    BY <2>1, <2>2, <2>3
  <2> QED
    BY <2>1, <2>4 DEF x
<1>3. held \cap Fixed(s) = {} /\ held \subseteq 0 .. s.total - 1
  <2>1. held \cap Fixed(s) = {} /\ held \subseteq s.first .. s.total - 1
    BY <1>1 DEF CallersSound
  <2>2. s.first \in {0, 1} /\ s.total \in Nat
    BY <1>1, GroupParts
  <2> QED
    BY <2>1, <2>2
<1>4. BlocksAccounted
  BY <1>1, <1>2, <1>3 DEF BlocksAccounted, FreeBits
<1>5. ASSUME NEW g \in Groups(s), ~a.group[g].lazy
      PROVE  {InodeIndex(s, i) : i \in Mine(s, inodes, g)} = a.group[g].inodes \cap (0 .. InodesIn(s, g) - 1)
  <2> DEFINE x == a.group[g]
             here == 0 .. InodesIn(s, g) - 1
  <2>1. here \ x.inodes = FreeSlots(s, inodes, g)
    BY <1>1, <1>5 DEF InodesSound
  <2>2. DOMAIN inodes \subseteq 1 .. s.inodes
    BY <1>1 DEF CallersSound
  <2>3. ASSUME NEW i \in Mine(s, inodes, g)
        PROVE  InodeIndex(s, i) \in x.inodes \cap here
    <3>1. i \in DOMAIN inodes /\ InodeGroup(s, i) = g
      BY DEF Mine
    <3>2. InodeIndex(s, i) \in here /\ InodeAt(s, InodeIndex(s, i), g) = i
      BY <1>1, <2>2, <3>1, PlaceOfInode
    <3>3. InodeIndex(s, i) \notin FreeSlots(s, inodes, g)
      BY <3>1, <3>2 DEF FreeSlots
    <3> QED
      BY <2>1, <3>2, <3>3
  <2>4. ASSUME NEW j \in x.inodes \cap here
        PROVE  \E i \in Mine(s, inodes, g) : j = InodeIndex(s, i)
    <3>1. InodeGroup(s, InodeAt(s, j, g)) = g /\ InodeIndex(s, InodeAt(s, j, g)) = j
      BY <1>1, <1>5, InodeOfPlace
    <3>2. InodeAt(s, j, g) \in DOMAIN inodes
      BY <2>1, <2>4 DEF FreeSlots
    <3>3. InodeAt(s, j, g) \in Mine(s, inodes, g)
      BY <3>1, <3>2 DEF Mine
    <3> QED
      BY <3>1, <3>3
  <2> QED
    BY <2>3, <2>4
<1>6. ASSUME NEW g \in Groups(s)
      PROVE  /\ a.group[g].freeInodes = InodesIn(s, g) - Cardinality(Mine(s, inodes, g))
             /\ a.group[g].dirs = Cardinality(Dirs(s, inodes, g))
             /\ \A i \in Mine(s, inodes, g) : InodeIndex(s, i) < InodesIn(s, g) - a.group[g].unused
  BY <1>1, <1>6 DEF InodesSound
<1>7. InodesAccounted
  BY <1>1, <1>5, <1>6 DEF InodesAccounted, Mine, Dirs
<1> QED
  BY <1>4, <1>7 DEF Accounted

\* Whatever the calls: a block is marked when it is part of the file system or a
\* caller holds it, and only then, an i-node when it is in use, and every counter
\* says so, in groups set up late too (ext4_balloc, ext4_ialloc).
THEOREM NothingIsLost == Spec => []Accounted
<1>1. Init => SoundInv
  BY InitSound
<1>2. SoundInv /\ [Next]_vars => SoundInv'
  BY StepSound
<1>3. SoundInv => Accounted
  BY SoundIsAccounted
<1> QED
  BY <1>1, <1>2, <1>3, PTL DEF Spec

\* No block and no i-node is given to two callers, and ENOSPC is the answer only when
\* every one of them is taken (ext4_balloc_alloc_block, ext4_ialloc_alloc_inode).
THEOREM NothingIsGivenTwice == Spec => GivesWhatIsFree
<1>1. Init => SoundInv
  BY InitSound
<1>2. SoundInv /\ [Next]_vars => SoundInv'
  BY StepSound
<1>3. SoundInv /\ [Next]_vars => [GivesNow]_vars
  BY NextSound
<1>4. [][GivesNow]_vars => GivesWhatIsFree
  BY PTL DEF GivesWhatIsFree, GivesNow
<1> QED
  BY <1>1, <1>2, <1>3, <1>4, PTL DEF Spec

=============================================================================
