-------------------------- MODULE RelationsProofs --------------------------
(***************************************************************************)
(* Facts about the relations between nodes that hold for every number of   *)
(* dimensions and every level: the coordinates of a node and its path      *)
(* determine each other (node_location.hpp, location/slim.hpp), shifting   *)
(* a location finds the node at an offset and nothing else                 *)
(* (shift_location.hpp), and the hand-written neighbour tables             *)
(* (neighbor.hpp) list every cell next to a node, with the children on its *)
(* side.  What holds of the codes of a path is said bit by bit: numbers    *)
(* with the same bits are equal, and a sum of different powers of two has  *)
(* the bits it is made of.                                                 *)
(*                                                                         *)
(* Coordinate is recursive over the path.  What it computes is proved by   *)
(* induction over the level, with sets of numbers in place of a predicate. *)
(***************************************************************************)
EXTENDS Relations, FiniteSetTheorems, SequenceTheorems, WellFoundedInduction, TLAPS

-----------------------------------------------------------------------------
(* Induction over the natural numbers, and powers of two. *)

(* A set of numbers has a least one. *)
LEMMA LeastNumber ==
  ASSUME NEW T \in SUBSET Nat, T # {}
  PROVE  \E n \in T : \A m \in T : n <= m
<1>1. PICK n \in T : \A m \in T : ~(<<m, n>> \in OpToRel(<, Nat))
  BY WFMin, NatLessThanWellFounded
<1>2. \A m \in T : <<m, n>> \in OpToRel(<, Nat) <=> m < n
  BY DEF OpToRel
<1>3. n \in Nat /\ \A m \in T : m \in Nat /\ ~(m < n)
  BY <1>1, <1>2
<1> QED BY <1>3

(* Induction over the numbers, in the form a proof can use here: a set *)
(* that holds 0 and every successor holds all of them.                 *)
LEMMA Induction ==
  ASSUME NEW S, 0 \in S, \A n \in Nat : n \in S => n + 1 \in S
  PROVE  Nat \subseteq S
<1> SUFFICES ASSUME Nat \ S # {} PROVE FALSE
  OBVIOUS
<1>1. PICK n \in Nat \ S : \A m \in Nat \ S : n <= m
  BY LeastNumber
<1>2. n # 0 /\ n - 1 \in Nat /\ n - 1 + 1 = n
  BY <1>1
<1>3. n - 1 \in S
  BY <1>1, <1>2
<1> QED BY <1>2, <1>3, <1>1

(* A power of two is that of the next smaller exponent, doubled: by *)
(* counting subsets.                                                *)
LEMMA PowerOfTwo ==
  ASSUME NEW n \in Nat
  PROVE  /\ 2^n \in Nat \ {0}
         /\ 2^(n + 1) = 2 * 2^n
<1>1. ASSUME NEW k \in Nat
      PROVE  IsFiniteSet(SUBSET (1 .. k)) /\ Cardinality(SUBSET (1 .. k)) = 2^k
  <2>1. IsFiniteSet(1 .. k) /\ Cardinality(1 .. k) = k
    <3>1. IsFiniteSet(1 .. k) /\ Cardinality(1 .. k) = IF 1 > k THEN 0 ELSE k - 1 + 1
      BY FS_Interval
    <3> QED BY <3>1
  <2> QED BY <2>1, FS_SUBSET
<1> DEFINE Few == SUBSET (1 .. n)
           Rest == {S \cup {n + 1} : S \in Few}
           f == [S \in Few |-> S \cup {n + 1}]
<1>2. f \in Bijection(Few, Rest)
  <2>1. ASSUME NEW S \in Few, NEW T \in Few, f[S] = f[T]
        PROVE  S = T
    <3>1. n + 1 \notin S /\ n + 1 \notin T
      OBVIOUS
    <3>2. S \cup {n + 1} = T \cup {n + 1}
      BY <2>1
    <3> QED BY <3>1, <3>2
  <2>2. f \in [Few -> Rest] /\ \A T \in Rest : \E S \in Few : f[S] = T
    OBVIOUS
  <2> HIDE DEF f, Few, Rest
  <2> QED BY <2>1, <2>2 DEF Bijection, Injection, Surjection, IsInjective
<1>3. IsFiniteSet(Few) /\ Cardinality(Few) = 2^n
  BY <1>1
<1>4. IsFiniteSet(Rest) /\ Cardinality(Rest) = 2^n
  <2> HIDE DEF f, Few, Rest
  <2> QED BY <1>2, <1>3, FS_Bijection DEF ExistsBijection
<1>5. Few \cap Rest = {}
  <2>1. \A S \in Few : n + 1 \notin S
    OBVIOUS
  <2> QED BY <2>1
<1>6. SUBSET (1 .. n + 1) = Few \cup Rest
  <2>1. 1 .. n + 1 = (1 .. n) \cup {n + 1}
    OBVIOUS
  <2>2. ASSUME NEW S \in SUBSET (1 .. n + 1)
        PROVE  S \in Few \cup Rest
    <3>1. CASE n + 1 \in S
      <4>1. S \ {n + 1} \in Few
        BY <2>1
      <4>2. S = (S \ {n + 1}) \cup {n + 1}
        BY <3>1
      <4> QED BY <4>1, <4>2
    <3>2. CASE n + 1 \notin S
      BY <2>1, <3>2
    <3> QED BY <3>1, <3>2
  <2>3. Few \cup Rest \subseteq SUBSET (1 .. n + 1)
    BY <2>1
  <2> QED BY <2>2, <2>3
<1> HIDE DEF Few, Rest
<1>7. Cardinality(Few \cup Rest) = 2^n + 2^n
  <2>1. Cardinality(Few \cap Rest) = 0
    BY <1>5, FS_EmptySet
  <2>2. Cardinality(Few) \in Nat
    BY <1>3, FS_CardinalityType
  <2>3. Cardinality(Few \cup Rest) = Cardinality(Few) + Cardinality(Rest) - Cardinality(Few \cap Rest)
    BY <1>3, <1>4, FS_Union
  <2> QED BY <2>1, <2>2, <2>3, <1>3, <1>4
<1>8. 2^n \in Nat
  BY <1>3, FS_CardinalityType
<1>9. 2^n # 0
  <2>1. {} \in Few
    BY DEF Few
  <2> QED BY <2>1, <1>3, FS_EmptySet
<1>10. 2^(n + 1) = 2^n + 2^n
  <2>1. n + 1 \in Nat
    OBVIOUS
  <2> QED BY <2>1, <1>1, <1>6, <1>7
<1> QED BY <1>8, <1>9, <1>10

(* The powers of two there are names for. *)
LEMMA Powers == 2^0 = 1 /\ 2^1 = 2 /\ 2^2 = 4 /\ 2^3 = 8
OBVIOUS

(* A quotient is the one number whose product fits. *)
LEMMA Quotient ==
  ASSUME NEW x \in Nat, NEW a \in Nat \ {0}
  PROVE  /\ x \div a \in Nat
         /\ a * (x \div a) <= x /\ x < a * (x \div a) + a
         /\ \A q \in Nat : a * q <= x /\ x < a * q + a => x \div a = q
OBVIOUS

(* Shifting to the right by one bit more is halving first. *)
LEMMA QuotientTwice ==
  ASSUME NEW x \in Nat, NEW a \in Nat \ {0}
  PROVE  x \div (2 * a) = (x \div 2) \div a
<1>1. PICK h \in Nat : h = x \div 2 /\ 2 * h <= x /\ x < 2 * h + 2
  BY Quotient
<1>2. PICK q \in Nat : q = h \div a /\ a * q <= h /\ h < a * q + a
  BY <1>1, Quotient
<1>3. PICK b \in Nat \ {0} : b = 2 * a
  OBVIOUS
<1>4. b * q = 2 * (a * q)
  BY <1>3
<1>5. b * q <= x /\ x < b * q + b
  BY <1>1, <1>2, <1>4, <1>3
<1>6. x \div b = q
  BY <1>5, Quotient
<1> QED BY <1>1, <1>2, <1>3, <1>6

-----------------------------------------------------------------------------
(* The bits of a child position. *)

(* The positions of the children in the three dimensions there are. *)
LEMMA Positions ==
  /\ Nd \in {1, 2, 3}
  /\ Nd = 1 => child_pos = 0 .. 1 /\ Dimension = {1} /\ Manifold = {1}
  /\ Nd = 2 => child_pos = 0 .. 3 /\ Dimension = {1, 2} /\ Manifold = {1, 2}
  /\ Nd = 3 => child_pos = 0 .. 7 /\ Dimension = {1, 2, 3} /\ Manifold = {1, 2, 3}
<1>1. Nd \in {1, 2, 3}
  BY NdAssumption
<1>2. 2^1 = 2 /\ 2^2 = 4 /\ 2^3 = 8
  OBVIOUS
<1>3. Nd = 1 => child_pos = 0 .. 1 /\ Dimension = {1} /\ Manifold = {1}
  BY <1>2 DEF child_pos, no_children, Dimension, Manifold
<1>4. Nd = 2 => child_pos = 0 .. 3 /\ Dimension = {1, 2} /\ Manifold = {1, 2}
  BY <1>2 DEF child_pos, no_children, Dimension, Manifold
<1>5. Nd = 3 => child_pos = 0 .. 7 /\ Dimension = {1, 2, 3} /\ Manifold = {1, 2, 3}
  BY <1>2 DEF child_pos, no_children, Dimension, Manifold
<1> QED BY <1>1, <1>3, <1>4, <1>5

(* bit::get returns a bit. *)
LEMMA BitIsBit ==
  ASSUME NEW v \in Nat, NEW b \in Nat
  PROVE  bit(v, b) \in {0, 1}
<1>1. PICK w \in Nat : w = v \div 2^b
  BY PowerOfTwo, Quotient
<1> QED BY <1>1 DEF bit

(* The bits of the position of a child, in the three dimensions. *)
LEMMA BitsOfPosition ==
  ASSUME NEW p \in 0 .. 7
  PROVE  /\ bit(p, 0) = p % 2
         /\ bit(p, 1) = (p \div 2) % 2
         /\ bit(p, 2) = (p \div 4) % 2
<1>1. 2^0 = 1 /\ 2^1 = 2 /\ 2^2 = 4
  OBVIOUS
<1>2. p \div 1 = p
  OBVIOUS
<1> QED BY <1>1, <1>2 DEF bit

(* Every combination of sides is the position of a child. *)
LEMMA PositionOfBits ==
  ASSUME NEW beta \in [Dimension -> {0, 1}]
  PROVE  \E p \in child_pos : \A d \in Dimension : bit(p, d - 1) = beta[d]
<1>1. CASE Nd = 1
  <2>1. beta[1] \in 0 .. 7 /\ beta[1] \in 0 .. 1
    BY <1>1, Positions
  <2>2. bit(beta[1], 0) = beta[1]
    BY <2>1, BitsOfPosition
  <2> QED BY <2>1, <2>2, <1>1, Positions
<1>2. CASE Nd = 2
  <2>1. PICK b1 \in 0 .. 1, b2 \in 0 .. 1 : beta[1] = b1 /\ beta[2] = b2
    BY <1>2, Positions
  <2>2. PICK p \in 0 .. 3 : p = b1 + 2 * b2
    OBVIOUS
  <2>3. p % 2 = b1
    BY <2>2
  <2>4. p \div 2 = b2
    BY <2>2
  <2>5. b2 % 2 = b2 /\ p \in 0 .. 7
    OBVIOUS
  <2>6. bit(p, 0) = b1 /\ bit(p, 1) = b2
    BY <2>3, <2>4, <2>5, BitsOfPosition
  <2> QED BY <2>1, <2>6, <1>2, Positions
<1>3. CASE Nd = 3
  <2>1. PICK b1 \in 0 .. 1, b2 \in 0 .. 1, b3 \in 0 .. 1 :
               beta[1] = b1 /\ beta[2] = b2 /\ beta[3] = b3
    BY <1>3, Positions
  <2>2. PICK p \in 0 .. 7 : p = b1 + 2 * b2 + 4 * b3
    OBVIOUS
  <2>3. p % 2 = b1
    BY <2>2
  <2>4. p \div 2 = b2 + 2 * b3
    BY <2>2
  <2>5. p \div 4 = b3
    BY <2>2
  <2>6. (b2 + 2 * b3) % 2 = b2 /\ b3 % 2 = b3
    OBVIOUS
  <2>7. bit(p, 0) = b1 /\ bit(p, 1) = b2 /\ bit(p, 2) = b3
    BY <2>3, <2>4, <2>5, <2>6, BitsOfPosition
  <2> QED BY <2>1, <2>7, <1>3, Positions
<1> QED BY <1>1, <1>2, <1>3, Positions

(* Two children differ in a side. *)
LEMMA PositionUnique ==
  ASSUME NEW p \in child_pos, NEW q \in child_pos,
         \A d \in Dimension : bit(p, d - 1) = bit(q, d - 1)
  PROVE  p = q
<1>1. CASE Nd = 1
  <2>1. p \in 0 .. 1 /\ q \in 0 .. 1 /\ p \in 0 .. 7 /\ q \in 0 .. 7
    BY <1>1, Positions
  <2>2. bit(p, 0) = bit(q, 0)
    BY <1>1, Positions
  <2>3. p % 2 = q % 2
    BY <2>1, <2>2, BitsOfPosition
  <2> QED BY <2>1, <2>3
<1>2. CASE Nd = 2
  <2>1. p \in 0 .. 3 /\ q \in 0 .. 3 /\ p \in 0 .. 7 /\ q \in 0 .. 7
    BY <1>2, Positions
  <2>2. bit(p, 0) = bit(q, 0) /\ bit(p, 1) = bit(q, 1)
    BY <1>2, Positions
  <2>3. p % 2 = q % 2 /\ (p \div 2) % 2 = (q \div 2) % 2
    BY <2>1, <2>2, BitsOfPosition
  <2> QED BY <2>1, <2>3
<1>3. CASE Nd = 3
  <2>1. p \in 0 .. 7 /\ q \in 0 .. 7
    BY <1>3, Positions
  <2>2. bit(p, 0) = bit(q, 0) /\ bit(p, 1) = bit(q, 1) /\ bit(p, 2) = bit(q, 2)
    BY <1>3, Positions
  <2>3. p % 2 = q % 2 /\ (p \div 2) % 2 = (q \div 2) % 2 /\ (p \div 4) % 2 = (q \div 4) % 2
    BY <2>1, <2>2, BitsOfPosition
  <2> QED BY <2>1, <2>3
<1> QED BY <1>1, <1>2, <1>3, Positions

(* Positions and dimensions are numbers. *)
LEMMA PositionIsNatural ==
  child_pos \subseteq Nat /\ Dimension \subseteq Nat \ {0}
BY Positions

-----------------------------------------------------------------------------
(* The bits of a number, and sums of powers of two. *)

(* The bits of a number are its parity and those of its half. *)
LEMMA BitOfHalf ==
  ASSUME NEW v \in Nat
  PROVE  /\ v \div 2 \in Nat /\ v = 2 * (v \div 2) + bit(v, 0) /\ bit(v, 0) \in {0, 1}
         /\ \A b \in Nat : bit(v, b + 1) = bit(v \div 2, b)
<1>1. 2^0 = 1 /\ bit(v, 0) = (v \div 1) % 2
  BY DEF bit
<1>2. v \div 1 = v
  OBVIOUS
<1>3. v \div 2 \in Nat /\ v = 2 * (v \div 2) + (v % 2) /\ v % 2 \in {0, 1}
  OBVIOUS
<1>4. ASSUME NEW b \in Nat PROVE bit(v, b + 1) = bit(v \div 2, b)
  <2>1. 2^b \in Nat \ {0} /\ 2^(b + 1) = 2 * 2^b
    BY PowerOfTwo
  <2>2. v \div (2 * 2^b) = (v \div 2) \div 2^b
    BY <2>1, QuotientTwice
  <2> QED BY <2>1, <2>2 DEF bit
<1> QED BY <1>1, <1>2, <1>3, <1>4

(* Numbers with the same bits are the same. *)
SameBits(v, w) == \A b \in Nat : bit(v, b) = bit(w, b)

(* There is one number with given bits. *)
LEMMA BitsDetermine ==
  ASSUME NEW v \in Nat, NEW w \in Nat, SameBits(v, w)
  PROVE  v = w
<1> DEFINE S == {n \in Nat : \A x, y \in Nat : x <= n /\ y <= n /\ SameBits(x, y) => x = y}
<1>1. 0 \in S
  OBVIOUS
<1>2. ASSUME NEW n \in Nat, n \in S PROVE n + 1 \in S
  <2> SUFFICES ASSUME NEW x \in Nat, NEW y \in Nat, x <= n + 1, y <= n + 1, SameBits(x, y)
               PROVE  x = y
    OBVIOUS
  <2>1. /\ x \div 2 \in Nat /\ x = 2 * (x \div 2) + bit(x, 0) /\ bit(x, 0) \in {0, 1}
        /\ y \div 2 \in Nat /\ y = 2 * (y \div 2) + bit(y, 0) /\ bit(y, 0) \in {0, 1}
    BY BitOfHalf
  <2>2. x \div 2 <= n /\ y \div 2 <= n
    BY <2>1
  <2>3. SameBits(x \div 2, y \div 2)
    <3> SUFFICES ASSUME NEW b \in Nat PROVE bit(x \div 2, b) = bit(y \div 2, b)
      BY DEF SameBits
    <3>1. bit(x, b + 1) = bit(x \div 2, b) /\ bit(y, b + 1) = bit(y \div 2, b)
      BY BitOfHalf
    <3>2. b + 1 \in Nat
      OBVIOUS
    <3> QED BY <3>1, <3>2 DEF SameBits
  <2>4. x \div 2 = y \div 2
    BY <1>2, <2>1, <2>2, <2>3
  <2>5. bit(x, 0) = bit(y, 0)
    <3>1. 0 \in Nat
      OBVIOUS
    <3> QED BY <3>1 DEF SameBits
  <2> QED BY <2>1, <2>4, <2>5
<1>3. v + w \in S
  <2>1. \A n \in Nat : n \in S => n + 1 \in S
    BY <1>2
  <2> HIDE DEF S
  <2>2. Nat \subseteq S
    BY <1>1, <2>1, Induction
  <2> QED BY <2>2
<1>4. v + w \in Nat /\ v <= v + w /\ w <= v + w
  OBVIOUS
<1> QED BY <1>3, <1>4

(* A number below a power of two has no bits from there on, and no other has *)
(* none.                                                                     *)
LEMMA HighBits ==
  ASSUME NEW v \in Nat, NEW l \in Nat
  PROVE  v < 2^l <=> \A b \in Nat : b >= l => bit(v, b) = 0
<1> DEFINE High(x, k) == \A b \in Nat : b >= k => bit(x, b) = 0
           S == {k \in Nat : \A x \in Nat : x < 2^k <=> High(x, k)}
<1>1. 0 \in S
  <2> SUFFICES ASSUME NEW x \in Nat PROVE x < 1 <=> High(x, 0)
    BY PowerOfTwo
  <2>1. \A b \in Nat : bit(0, b) = 0
    <3> SUFFICES ASSUME NEW b \in Nat PROVE bit(0, b) = 0
      OBVIOUS
    <3>1. 2^b \in Nat \ {0}
      BY PowerOfTwo
    <3>2. \A a \in Nat \ {0} : 0 \div a = 0
      <4> SUFFICES ASSUME NEW a \in Nat \ {0} PROVE 0 \div a = 0
        OBVIOUS
      <4>1. a * 0 <= 0 /\ 0 < a * 0 + a
        OBVIOUS
      <4> QED BY <4>1, Quotient
    <3>3. 0 \div 2^b = 0
      BY <3>1, <3>2
    <3>4. 0 % 2 = 0
      OBVIOUS
    <3> QED BY <3>3, <3>4, Zenon DEF bit
  <2>2. High(x, 0) => SameBits(x, 0)
    BY <2>1 DEF SameBits
  <2>3. High(x, 0) => x = 0
    BY <2>2, BitsDetermine
  <2>4. x < 1 => x = 0
    OBVIOUS
  <2>5. High(0, 0)
    BY <2>1
  <2> HIDE DEF High
  <2> QED BY <2>3, <2>4, <2>5
<1>2. ASSUME NEW k \in Nat, k \in S PROVE k + 1 \in S
  <2> SUFFICES ASSUME NEW x \in Nat PROVE x < 2^(k + 1) <=> High(x, k + 1)
    OBVIOUS
  <2>1. PICK w \in Nat : w = 2^k /\ 2^(k + 1) = 2 * w
    BY PowerOfTwo
  <2>2. x \div 2 \in Nat /\ x = 2 * (x \div 2) + bit(x, 0) /\ bit(x, 0) \in {0, 1}
    BY BitOfHalf
  <2>3. x < 2 * w <=> x \div 2 < w
    BY <2>2
  <2>4. x \div 2 < w <=> High(x \div 2, k)
    BY <1>2, <2>1, <2>2
  <2>5. High(x \div 2, k) <=> High(x, k + 1)
    <3>1. \A b \in Nat : bit(x, b + 1) = bit(x \div 2, b)
      BY BitOfHalf
    <3>2. ASSUME High(x \div 2, k), NEW b \in Nat, b >= k + 1 PROVE bit(x, b) = 0
      <4>1. b - 1 \in Nat /\ b - 1 >= k /\ b = (b - 1) + 1
        BY <3>2
      <4> QED BY <4>1, <3>1, <3>2
    <3>3. ASSUME High(x, k + 1), NEW b \in Nat, b >= k PROVE bit(x \div 2, b) = 0
      <4>1. b + 1 \in Nat /\ b + 1 >= k + 1
        BY <3>3
      <4> QED BY <4>1, <3>1, <3>3
    <3> QED BY <3>2, <3>3
  <2> HIDE DEF High
  <2> QED BY <2>1, <2>3, <2>4, <2>5
<1>3. l \in S
  <2>1. \A n \in Nat : n \in S => n + 1 \in S
    BY <1>2
  <2> HIDE DEF S
  <2> QED BY <1>1, <2>1, Induction
<1> QED BY <1>3

(* A bit is set, or cleared, by adding or taking its power. *)
BitSet(v, k, w) ==
  /\ w \in Nat
  /\ \A j \in Nat : bit(w, j) = IF j = k THEN 1 ELSE bit(v, j)

BitCleared(v, k, w) ==
  /\ w \in Nat
  /\ \A j \in Nat : bit(w, j) = IF j = k THEN 0 ELSE bit(v, j)

(* Adding the power of a bit that is clear sets it, taking away that of a *)
(* bit that is set clears it: no other bit changes.                       *)
LEMMA BitAdded ==
  ASSUME NEW v \in Nat, NEW k \in Nat
  PROVE  /\ bit(v, k) = 0 => BitSet(v, k, v + 2^k)
         /\ bit(v, k) = 1 => BitCleared(v, k, v - 2^k)
<1> DEFINE S == {i \in Nat : \A x \in Nat :
                   /\ bit(x, i) = 0 => BitSet(x, i, x + 2^i)
                   /\ bit(x, i) = 1 => BitCleared(x, i, x - 2^i)}
<1>0. ASSUME NEW x \in Nat, NEW y \in Nat, NEW a \in {0, 1}, y = 2 * x + a
      PROVE  bit(y, 0) = a /\ \A b \in Nat : bit(y, b + 1) = bit(x, b)
  <2>1. y \div 2 = x /\ y % 2 = a
    BY <1>0
  <2>2. y \div 2 \in Nat /\ y = 2 * (y \div 2) + bit(y, 0) /\ bit(y, 0) \in {0, 1}
    BY BitOfHalf
  <2>3. \A b \in Nat : bit(y, b + 1) = bit(x, b)
    BY <2>1, BitOfHalf
  <2> QED BY <1>0, <2>1, <2>2, <2>3
<1>1. 0 \in S
  <2> SUFFICES ASSUME NEW x \in Nat
               PROVE  /\ bit(x, 0) = 0 => BitSet(x, 0, x + 1)
                      /\ bit(x, 0) = 1 => BitCleared(x, 0, x - 1)
    BY PowerOfTwo
  <2> DEFINE h == x \div 2
  <2>1. h \in Nat /\ x = 2 * h + bit(x, 0)
    BY BitOfHalf
  <2>2. \A b \in Nat : bit(x, b + 1) = bit(h, b)
    BY BitOfHalf
  <2>3. \A j \in Nat : j = 0 \/ (j - 1 \in Nat /\ j = (j - 1) + 1)
    OBVIOUS
  <2> HIDE DEF h
  <2>4. ASSUME bit(x, 0) = 0 PROVE BitSet(x, 0, x + 1)
    <3>1. bit(x + 1, 0) = 1 /\ \A b \in Nat : bit(x + 1, b + 1) = bit(h, b)
      <4>1. x + 1 \in Nat /\ x + 1 = 2 * h + 1
        BY <2>1, <2>4
      <4> QED BY <4>1, <2>1, <1>0
    <3> QED BY <2>2, <2>3, <3>1 DEF BitSet
  <2>5. ASSUME bit(x, 0) = 1 PROVE BitCleared(x, 0, x - 1)
    <3>0. x - 1 \in Nat /\ x - 1 = 2 * h + 0
      BY <2>1, <2>5
    <3>1. bit(x - 1, 0) = 0 /\ \A b \in Nat : bit(x - 1, b + 1) = bit(h, b)
      BY <3>0, <2>1, <1>0
    <3> QED BY <2>2, <2>3, <3>0, <3>1 DEF BitCleared
  <2> QED BY <2>4, <2>5
<1>2. ASSUME NEW i \in Nat, i \in S PROVE i + 1 \in S
  <2> SUFFICES ASSUME NEW x \in Nat
               PROVE  /\ bit(x, i + 1) = 0 => BitSet(x, i + 1, x + 2^(i + 1))
                      /\ bit(x, i + 1) = 1 => BitCleared(x, i + 1, x - 2^(i + 1))
    OBVIOUS
  <2>0. PICK u \in Nat : u = 2^i /\ 2^(i + 1) = 2 * u
    BY PowerOfTwo
  <2> DEFINE h == x \div 2
             a == bit(x, 0)
  <2>1. h \in Nat /\ x = 2 * h + a /\ a \in {0, 1}
    BY BitOfHalf
  <2>2. \A b \in Nat : bit(x, b + 1) = bit(h, b)
    BY BitOfHalf
  <2>3. \A j \in Nat : j = 0 \/ (j - 1 \in Nat /\ j = (j - 1) + 1)
    OBVIOUS
  <2> HIDE DEF h
  <2>4. ASSUME bit(x, i + 1) = 0 PROVE BitSet(x, i + 1, x + 2 * u)
    <3>1. BitSet(h, i, h + u)
      BY <1>2, <2>0, <2>1, <2>2, <2>4
    <3>2. x + 2 * u \in Nat /\ x + 2 * u = 2 * (h + u) + a /\ h + u \in Nat
      BY <2>1
    <3> HIDE DEF a
    <3>3. bit(x + 2 * u, 0) = a /\ \A b \in Nat : bit(x + 2 * u, b + 1) = bit(h + u, b)
      <4>1. PICK y, g : y = x + 2 * u /\ g = h + u
        OBVIOUS
      <4>2. y \in Nat /\ g \in Nat /\ y = 2 * g + a
        BY <4>1, <3>2
      <4>3. bit(y, 0) = a /\ \A b \in Nat : bit(y, b + 1) = bit(g, b)
        BY <2>1, <4>2, <1>0
      <4> QED BY <4>1, <4>3, Zenon
    <3>4. ASSUME NEW j \in Nat
          PROVE  bit(x + 2 * u, j) = IF j = i + 1 THEN 1 ELSE bit(x, j)
      <4>1. CASE j = 0
        BY <3>3, <4>1 DEF a
      <4>2. CASE j # 0
        <5>1. PICK b \in Nat : j = b + 1
          BY <2>3, <4>2
        <5>2. bit(h + u, b) = IF b = i THEN 1 ELSE bit(h, b)
          BY <3>1 DEF BitSet
        <5> QED BY <2>2, <3>3, <5>1, <5>2
      <4> QED BY <4>1, <4>2
    <3> QED BY <3>2, <3>4 DEF BitSet
  <2>5. ASSUME bit(x, i + 1) = 1 PROVE BitCleared(x, i + 1, x - 2 * u)
    <3>1. BitCleared(h, i, h - u)
      BY <1>2, <2>0, <2>1, <2>2, <2>5
    <3>2. h - u \in Nat
      BY <3>1 DEF BitCleared
    <3>6. x - 2 * u \in Nat /\ x - 2 * u = 2 * (h - u) + a
      BY <2>1, <3>2
    <3> HIDE DEF a
    <3>3. bit(x - 2 * u, 0) = a /\ \A b \in Nat : bit(x - 2 * u, b + 1) = bit(h - u, b)
      <4>1. PICK y, g : y = x - 2 * u /\ g = h - u
        OBVIOUS
      <4>2. y \in Nat /\ g \in Nat /\ y = 2 * g + a
        BY <4>1, <3>2, <3>6
      <4>3. bit(y, 0) = a /\ \A b \in Nat : bit(y, b + 1) = bit(g, b)
        BY <2>1, <4>2, <1>0
      <4> QED BY <4>1, <4>3, Zenon
    <3>4. ASSUME NEW j \in Nat
          PROVE  bit(x - 2 * u, j) = IF j = i + 1 THEN 0 ELSE bit(x, j)
      <4>1. CASE j = 0
        BY <3>3, <4>1 DEF a
      <4>2. CASE j # 0
        <5>1. PICK b \in Nat : j = b + 1
          BY <2>3, <4>2
        <5>2. bit(h - u, b) = IF b = i THEN 0 ELSE bit(h, b)
          BY <3>1 DEF BitCleared
        <5> QED BY <2>2, <3>3, <5>1, <5>2
      <4> QED BY <4>1, <4>2
    <3> QED BY <3>6, <3>4 DEF BitCleared
  <2> QED BY <2>0, <2>4, <2>5
<1>3. k \in S
  <2>1. \A n \in Nat : n \in S => n + 1 \in S
    BY <1>2
  <2> HIDE DEF S
  <2> QED BY <1>1, <2>1, Induction
<1> QED BY <1>3

(* The bits of what a shift leaves. *)
LEMMA BitsShifted ==
  ASSUME NEW v \in Nat, NEW k \in Nat
  PROVE  v \div 2^k \in Nat /\ \A j \in Nat : bit(v \div 2^k, j) = bit(v, k + j)
<1> DEFINE S == {i \in Nat : \A x \in Nat : \A j \in Nat : bit(x \div 2^i, j) = bit(x, i + j)}
<1>1. 0 \in S
  <2> SUFFICES ASSUME NEW x \in Nat, NEW j \in Nat PROVE bit(x \div 2^0, j) = bit(x, 0 + j)
    OBVIOUS
  <2>1. 2^0 = 1 /\ x \div 1 = x /\ 0 + j = j
    OBVIOUS
  <2> QED BY <2>1
<1>2. ASSUME NEW i \in Nat, i \in S PROVE i + 1 \in S
  <2> SUFFICES ASSUME NEW x \in Nat, NEW j \in Nat
               PROVE  bit(x \div 2^(i + 1), j) = bit(x, (i + 1) + j)
    OBVIOUS
  <2>1. 2^i \in Nat \ {0} /\ 2^(i + 1) = 2 * 2^i
    BY PowerOfTwo
  <2>2. x \div (2 * 2^i) = (x \div 2) \div 2^i
    BY <2>1, QuotientTwice
  <2>3. x \div 2 \in Nat /\ \A b \in Nat : bit(x, b + 1) = bit(x \div 2, b)
    BY BitOfHalf
  <2>4. bit((x \div 2) \div 2^i, j) = bit(x \div 2, i + j)
    BY <1>2, <2>3
  <2>5. i + j \in Nat /\ (i + j) + 1 = (i + 1) + j
    OBVIOUS
  <2>6. bit(x \div 2, i + j) = bit(x, (i + 1) + j)
    BY <2>3, <2>5
  <2> QED BY <2>1, <2>2, <2>4, <2>6
<1>3. k \in S
  <2>1. \A n \in Nat : n \in S => n + 1 \in S
    BY <1>2
  <2> HIDE DEF S
  <2> QED BY <1>1, <2>1, Induction
<1>4. v \div 2^k \in Nat
  BY PowerOfTwo, Quotient
<1> QED BY <1>3, <1>4

(* A sum over a set, taken element by element. *)
IsSum(it, f, S) ==
  it = [T \in SUBSET S |->
          IF T = {} THEN 0 ELSE f[CHOOSE x \in T : TRUE] + it[T \ {CHOOSE x \in T : TRUE}]]

(* Induction over the subsets of a finite set. *)
LEMMA SubsetsByInduction ==
  ASSUME NEW S, IsFiniteSet(S), NEW Good \in SUBSET SUBSET S, {} \in Good,
         \A T \in SUBSET S : T # {} /\ T \ {CHOOSE x \in T : TRUE} \in Good => T \in Good
  PROVE  SUBSET S \subseteq Good
<1> DEFINE N0 == {n \in Nat : \A T \in SUBSET S : Cardinality(T) = n => T \in Good}
<1>1. \A T \in SUBSET S : IsFiniteSet(T) /\ Cardinality(T) \in Nat
  BY FS_Subset, FS_CardinalityType
<1>2. 0 \in N0
  <2>1. ASSUME NEW T \in SUBSET S, Cardinality(T) = 0 PROVE T = {}
    BY <1>1, <2>1, FS_EmptySet
  <2> QED BY <2>1
<1>3. ASSUME NEW n \in Nat, n \in N0 PROVE n + 1 \in N0
  <2> SUFFICES ASSUME NEW T \in SUBSET S, Cardinality(T) = n + 1 PROVE T \in Good
    BY DEF N0
  <2>1. T # {}
    BY FS_EmptySet
  <2> DEFINE x == CHOOSE x \in T : TRUE
  <2>2. x \in T
    BY <2>1
  <2>3. T \ {x} \in SUBSET S /\ Cardinality(T \ {x}) = n
    <3> HIDE DEF x
    <3>1. IsFiniteSet(T)
      BY <1>1
    <3>2. Cardinality(T \ {x}) = Cardinality(T) - 1
      BY <3>1, <2>2, FS_RemoveElement
    <3>3. T \ {x} \in SUBSET S
      OBVIOUS
    <3> QED BY <3>2, <3>3
  <2>4. T \ {x} \in Good
    BY <2>3, <1>3
  <2> QED BY <2>1, <2>4
<1>4. Nat \subseteq N0
  <2> HIDE DEF N0
  <2> QED BY <1>2, <1>3, Induction
<1> QED BY <1>1, <1>4

(* The elements of a set can be summed up. *)
LEMMA SumExists ==
  ASSUME NEW S, IsFiniteSet(S), NEW f \in [S -> Int]
  PROVE  \E it : IsSum(it, f, S) /\ it \in [SUBSET S -> Int]
<1> DEFINE C(T) == CHOOSE x \in T : TRUE
           Below(n) == {T \in SUBSET S : Cardinality(T) <= n}
           Has(n) == \E it \in [Below(n) -> Int] :
                       \A T \in Below(n) :
                         it[T] = IF T = {} THEN 0 ELSE f[C(T)] + it[T \ {C(T)}]
           N0 == {n \in Nat : Has(n)}
<1>1. \A T \in SUBSET S : IsFiniteSet(T) /\ Cardinality(T) \in Nat
                            /\ (Cardinality(T) = 0 <=> T = {})
  BY FS_Subset, FS_CardinalityType, FS_EmptySet
<1>2. \A T \in SUBSET S : T # {} =>
        /\ C(T) \in T /\ C(T) \in S /\ T \ {C(T)} \in SUBSET S
        /\ Cardinality(T \ {C(T)}) = Cardinality(T) - 1
  BY <1>1, FS_RemoveElement
<1> HIDE DEF C
<1>3. 0 \in N0
  <2>1. \A T \in Below(0) : T = {}
    BY <1>1
  <2>2. [T \in Below(0) |-> 0] \in [Below(0) -> Int]
    OBVIOUS
  <2> QED BY <2>1, <2>2
<1>4. ASSUME NEW n \in Nat, n \in N0 PROVE n + 1 \in N0
  <2>1. PICK it \in [Below(n) -> Int] :
          \A T \in Below(n) : it[T] = IF T = {} THEN 0 ELSE f[C(T)] + it[T \ {C(T)}]
    BY <1>4
  <2> DEFINE new == [T \in Below(n + 1) |-> IF T = {} THEN 0 ELSE f[C(T)] + it[T \ {C(T)}]]
  <2>2. \A T \in Below(n + 1) : T # {} => T \ {C(T)} \in Below(n)
    BY <1>1, <1>2
  <2>3. new \in [Below(n + 1) -> Int]
    BY <2>2, <1>2
  <2>4. \A T \in Below(n) : T \in Below(n + 1) /\ new[T] = it[T]
    BY <1>1, <2>1
  <2>5. \A T \in Below(n + 1) : new[T] = IF T = {} THEN 0 ELSE f[C(T)] + new[T \ {C(T)}]
    BY <2>2, <2>4
  <2>6. Has(n + 1)
    <3> HIDE DEF new, Below
    <3> QED BY <2>3, <2>5
  <2> HIDE DEF Has
  <2> QED BY <2>6
<1>5. Has(Cardinality(S))
  <2>1. Nat \subseteq N0
    <3> HIDE DEF N0
    <3> QED BY <1>3, <1>4, Induction
  <2> QED BY <2>1, <1>1
<1>6. Below(Cardinality(S)) = SUBSET S
  BY <1>1, FS_Subset
<1>7. PICK it \in [SUBSET S -> Int] :
        \A T \in SUBSET S : it[T] = IF T = {} THEN 0 ELSE f[C(T)] + it[T \ {C(T)}]
  BY <1>5, <1>6
<1>8. it = [T \in SUBSET S |-> IF T = {} THEN 0 ELSE f[C(T)] + it[T \ {C(T)}]]
  BY <1>7
<1> QED BY <1>7, <1>8 DEF IsSum, C

(* Ones alone, up to a bit. *)
LEMMA AllOnes ==
  ASSUME NEW v \in Nat, NEW l \in Nat, \A j \in Nat : bit(v, j) = IF j < l THEN 1 ELSE 0
  PROVE  v + 1 = 2^l
<1> DEFINE Ones(x, k) == \A j \in Nat : bit(x, j) = IF j < k THEN 1 ELSE 0
           S == {k \in Nat : \A x \in Nat : Ones(x, k) => x + 1 = 2^k}
<1>1. 0 \in S
  <2> SUFFICES ASSUME NEW x \in Nat, Ones(x, 0) PROVE x + 1 = 2^0
    OBVIOUS
  <2>1. x < 2^0
    <3>1. \A b \in Nat : b >= 0 => bit(x, b) = 0
      OBVIOUS
    <3> QED BY <3>1, HighBits
  <2> QED BY <2>1, Powers
<1>2. ASSUME NEW k \in Nat, k \in S PROVE k + 1 \in S
  <2> SUFFICES ASSUME NEW x \in Nat, Ones(x, k + 1) PROVE x + 1 = 2^(k + 1)
    OBVIOUS
  <2>1. /\ x \div 2 \in Nat /\ x = 2 * (x \div 2) + bit(x, 0)
        /\ \A b \in Nat : bit(x, b + 1) = bit(x \div 2, b)
    BY BitOfHalf
  <2>2. bit(x, 0) = 1
    <3>1. 0 \in Nat /\ 0 < k + 1
      OBVIOUS
    <3> QED BY <3>1
  <2>3. Ones(x \div 2, k)
    <3> SUFFICES ASSUME NEW b \in Nat PROVE bit(x \div 2, b) = IF b < k THEN 1 ELSE 0
      OBVIOUS
    <3>1. b + 1 \in Nat /\ (b + 1 < k + 1 <=> b < k)
      OBVIOUS
    <3>2. bit(x, b + 1) = IF b + 1 < k + 1 THEN 1 ELSE 0
      BY <3>1
    <3> QED BY <2>1, <3>1, <3>2
  <2>4. x \div 2 + 1 = 2^k
    BY <1>2, <2>1, <2>3
  <2>5. PICK w \in Nat : w = 2^k /\ 2^(k + 1) = 2 * w
    BY PowerOfTwo
  <2> QED BY <2>1, <2>2, <2>4, <2>5
<1>3. l \in S
  <2>1. \A n \in Nat : n \in S => n + 1 \in S
    BY <1>2
  <2> HIDE DEF S
  <2> QED BY <1>1, <2>1, Induction
<1> QED BY <1>3

(* The first three bits. *)
LEMMA FirstBits ==
  ASSUME NEW v \in Nat
  PROVE  bit(v, 0) = v % 2 /\ bit(v, 1) = (v \div 2) % 2 /\ bit(v, 2) = (v \div 4) % 2
<1>1. 2^0 = 1 /\ 2^1 = 2 /\ 2^2 = 4 /\ v \div 1 = v
  BY Powers
<1> QED BY <1>1 DEF bit

(* The last Nd bits of a number are a child position. *)
LEMMA BitsOfRest ==
  ASSUME NEW v \in Nat
  PROVE  /\ v % no_children(Nd) \in child_pos
         /\ \A d \in Dimension : bit(v % no_children(Nd), d - 1) = bit(v, d - 1)
<1>1. CASE Nd = 1
  <2>1. PICK p \in 0 .. 1 : p = v % 2 /\ p \in Nat /\ no_children(Nd) = 2
    BY <1>1, Powers DEF no_children
  <2>2. p % 2 = v % 2
    BY <2>1
  <2>3. bit(p, 0) = bit(v, 0)
    BY <2>1, <2>2, FirstBits
  <2>4. child_pos = 0 .. 1 /\ \A d \in Dimension : d - 1 = 0
    BY <1>1, Positions
  <2> QED BY <2>1, <2>3, <2>4
<1>2. CASE Nd = 2
  <2>1. PICK p \in 0 .. 3 : p = v % 4 /\ p \in Nat /\ no_children(Nd) = 4
    BY <1>2, Powers DEF no_children
  <2>2. p % 2 = v % 2
    BY <2>1
  <2>3. (p \div 2) % 2 = (v \div 2) % 2
    BY <2>1
  <2>4. bit(p, 0) = bit(v, 0) /\ bit(p, 1) = bit(v, 1)
    BY <2>1, <2>2, <2>3, FirstBits
  <2>5. child_pos = 0 .. 3 /\ \A d \in Dimension : d - 1 = 0 \/ d - 1 = 1
    BY <1>2, Positions
  <2> QED BY <2>1, <2>4, <2>5
<1>3. CASE Nd = 3
  <2>1. PICK p \in 0 .. 7 : p = v % 8 /\ p \in Nat /\ no_children(Nd) = 8
    BY <1>3, Powers DEF no_children
  <2>2. p % 2 = v % 2
    BY <2>1
  <2>3. (p \div 2) % 2 = (v \div 2) % 2
    BY <2>1
  <2>4. (p \div 4) % 2 = (v \div 4) % 2
    BY <2>1
  <2>5. bit(p, 0) = bit(v, 0) /\ bit(p, 1) = bit(v, 1) /\ bit(p, 2) = bit(v, 2)
    BY <2>1, <2>2, <2>3, <2>4, FirstBits
  <2>6. child_pos = 0 .. 7 /\ \A d \in Dimension : d - 1 = 0 \/ d - 1 = 1 \/ d - 1 = 2
    BY <1>3, Positions
  <2> QED BY <2>1, <2>5, <2>6
<1> QED BY <1>1, <1>2, <1>3, Positions

(* A child position put below a number. *)
LEMMA BitsAppended ==
  ASSUME NEW v \in Nat, NEW p \in child_pos
  PROVE  /\ v * 2^Nd + p \in Nat
         /\ \A d \in Dimension : bit(v * 2^Nd + p, d - 1) = bit(p, d - 1)
         /\ \A j \in Nat : bit(v * 2^Nd + p, Nd + j) = bit(v, j)
<1>1. PICK a \in {2, 4, 8} : a = 2^Nd /\ p \in 0 .. a - 1 /\ a = no_children(Nd)
  BY Positions, Powers DEF no_children, child_pos
<1>2. PICK w \in Nat : w = v * a + p /\ w = v * 2^Nd + p
  BY <1>1
<1>3. w % a = p
  <2>1. CASE a = 2
    BY <1>1, <1>2, <2>1
  <2>2. CASE a = 4
    BY <1>1, <1>2, <2>2
  <2>3. CASE a = 8
    BY <1>1, <1>2, <2>3
  <2> QED BY <1>1, <2>1, <2>2, <2>3
<1>4. w \div a = v
  <2>1. a * v = v * a /\ a * v <= w /\ w < a * v + a
    BY <1>1, <1>2
  <2> QED BY <1>1, <1>2, <2>1, Quotient
<1>5. \A d \in Dimension : bit(w, d - 1) = bit(p, d - 1)
  BY <1>1, <1>3, BitsOfRest
<1>6. Nd \in Nat
  BY Positions
<1>7. \A j \in Nat : bit(w, Nd + j) = bit(v, j)
  BY <1>1, <1>4, <1>6, BitsShifted
<1> QED BY <1>2, <1>5, <1>7

(* The bit of an interleaved code that belongs to a dimension and a bit. *)
LEMMA Interleaved ==
  /\ \A b \in Nat : /\ b \div Nd \in Nat /\ b % Nd \in 0 .. Nd - 1 /\ (b % Nd) + 1 \in Dimension
                    /\ b = Nd * (b \div Nd) + (b % Nd)
  /\ \A j \in Nat, d \in Dimension :
       /\ Nd * j + (d - 1) \in Nat
       /\ (Nd * j + (d - 1)) \div Nd = j /\ (Nd * j + (d - 1)) % Nd = d - 1
<1>1. CASE Nd = 1
  BY <1>1, Positions
<1>2. CASE Nd = 2
  BY <1>2, Positions
<1>3. CASE Nd = 3
  BY <1>3, Positions
<1> QED BY <1>1, <1>2, <1>3, Positions

(* The terms of f are different powers of two, or 0 where the bit e is. *)
BinaryTerms(f, g, e, S) ==
  /\ IsFiniteSet(S) /\ g \in [S -> Nat] /\ e \in [S -> {0, 1}]
  /\ \A x, y \in S : g[x] = g[y] => x = y
  /\ \A x \in S : f[x] = e[x] * 2^g[x]

BitsOfTerms(v, g, e, S) ==
  /\ v \in Nat
  /\ \A k \in Nat : bit(v, k) = IF \E x \in S : g[x] = k /\ e[x] = 1 THEN 1 ELSE 0

(* Their sum has their bits. *)
LEMMA BinarySum ==
  ASSUME NEW S, NEW f, NEW g, NEW e, BinaryTerms(f, g, e, S), NEW it, IsSum(it, f, S)
  PROVE  BitsOfTerms(it[S], g, e, S)
<1> DEFINE C(T) == CHOOSE x \in T : TRUE
           Has(T, k) == \E x \in T : g[x] = k /\ e[x] = 1
           G1 == {T \in SUBSET S : /\ it[T] \in Nat
                                   /\ \A k \in Nat : bit(it[T], k) = IF Has(T, k) THEN 1 ELSE 0}
<1>0. /\ IsFiniteSet(S) /\ g \in [S -> Nat] /\ e \in [S -> {0, 1}]
      /\ \A x, y \in S : g[x] = g[y] => x = y
      /\ \A x \in S : f[x] = e[x] * 2^g[x]
  BY DEF BinaryTerms
<1>1. \A T \in SUBSET S : it[T] = IF T = {} THEN 0 ELSE f[C(T)] + it[T \ {C(T)}]
  BY DEF IsSum
<1>2. {} \in G1
  <2>1. \A k \in Nat : bit(0, k) = 0
    <3>1. 0 < 2^0
      BY Powers
    <3>2. \A b \in Nat : b >= 0 => bit(0, b) = 0
      BY <3>1, HighBits
    <3> QED BY <3>2
  <2>2. it[{}] = 0 /\ \A k : ~Has({}, k)
    BY <1>1
  <2> HIDE DEF Has
  <2> QED BY <2>1, <2>2
<1>3. \A T \in SUBSET S : T # {} => C(T) \in T /\ C(T) \in S /\ T \ {C(T)} \in SUBSET S
  OBVIOUS
<1> HIDE DEF C
<1>4. ASSUME NEW T \in SUBSET S, T # {}, T \ {C(T)} \in G1 PROVE T \in G1
  <2>1. PICK x \in T, U \in SUBSET S : x = C(T) /\ U = T \ {x} /\ x \in S /\ U \in G1
    BY <1>3, <1>4
  <2>2. it[T] = f[x] + it[U] /\ it[U] \in Nat
    BY <1>1, <2>1, <1>4
  <2>3. g[x] \in Nat /\ e[x] \in {0, 1} /\ f[x] = e[x] * 2^g[x] /\ 2^g[x] \in Nat
    BY <1>0, <2>1, PowerOfTwo
  <2>4. ~Has(U, g[x])
    BY <1>0, <2>1
  <2>5. bit(it[U], g[x]) = 0
    BY <2>1, <2>3, <2>4
  <2>6. \A k \in Nat : Has(T, k) <=> Has(U, k) \/ (g[x] = k /\ e[x] = 1)
    BY <2>1
  <2>7. CASE e[x] = 0
    <3>1. it[T] = it[U]
      BY <2>2, <2>3, <2>7
    <3>2. \A k \in Nat : Has(T, k) <=> Has(U, k)
      BY <2>6, <2>7
    <3> HIDE DEF Has
    <3> QED BY <2>1, <3>1, <3>2
  <2>8. CASE e[x] = 1
    <3>1. it[T] = it[U] + 2^g[x]
      BY <2>2, <2>3, <2>8
    <3>2. BitSet(it[U], g[x], it[T])
      BY <2>2, <2>3, <2>5, <3>1, BitAdded
    <3>3. \A k \in Nat : Has(T, k) <=> Has(U, k) \/ g[x] = k
      BY <2>6, <2>8
    <3> HIDE DEF Has
    <3> QED BY <2>1, <3>2, <3>3 DEF BitSet
  <2> QED BY <2>3, <2>7, <2>8
<1>5. SUBSET S \subseteq G1
  <2>1. G1 \in SUBSET SUBSET S
    OBVIOUS
  <2>2. \A T \in SUBSET S : T # {} /\ T \ {CHOOSE x \in T : TRUE} \in G1 => T \in G1
    BY <1>4 DEF C
  <2> HIDE DEF G1
  <2> QED BY <1>0, <1>2, <2>1, <2>2, SubsetsByInduction
<1>6. S \in G1
  BY <1>5
<1> QED BY <1>6 DEF BitsOfTerms

-----------------------------------------------------------------------------
(* Coordinates. *)

Path == Seq(child_pos)

(* The function that Coordinate applies: the coordinates of all ancestors.  *)
IsTrace(x, path, d) ==
  x = [k \in 0 .. Len(path) |-> IF k = 0 THEN 0 ELSE 2 * x[k - 1] + bit(path[k], d - 1)]

(* The walk down a path can be followed along a dimension, cell by cell. *)
LEMMA TraceExists ==
  ASSUME NEW path \in Path, NEW d \in Dimension
  PROVE  \E x \in [0 .. Len(path) -> Nat] : IsTrace(x, path, d)
<1> DEFINE L == Len(path)
           b(k) == bit(path[k], d - 1)
           Upto(x, n) == x[0] = 0 /\ \A k \in 1 .. n : x[k] = 2 * x[k - 1] + b(k)
           S == {n \in Nat : n <= L => \E x \in [0 .. n -> Nat] : Upto(x, n)}
<1>1. L \in Nat /\ \A k \in 1 .. L : b(k) \in Nat
  <2>1. L \in Nat /\ \A k \in 1 .. L : path[k] \in Nat /\ d - 1 \in Nat
    <3>1. path \in Seq(child_pos)
      BY DEF Path
    <3>2. Len(path) \in Nat /\ \A k \in 1 .. Len(path) : path[k] \in child_pos
      BY <3>1
    <3>3. d \in Nat \ {0}
      BY PositionIsNatural
    <3>4. d - 1 \in Nat
      BY <3>3
    <3>5. \A k \in 1 .. Len(path) : path[k] \in Nat
      BY <3>2, PositionIsNatural
    <3> QED BY <3>2, <3>4, <3>5
  <2> QED BY <2>1, BitIsBit
<1> HIDE DEF L, b
<1>2. 0 \in S
  <2>1. [k \in 0 .. 0 |-> 0] \in [0 .. 0 -> Nat] /\ Upto([k \in 0 .. 0 |-> 0], 0)
    OBVIOUS
  <2> QED BY <2>1
<1>3. ASSUME NEW n \in Nat, n \in S
      PROVE  n + 1 \in S
  <2> SUFFICES ASSUME n + 1 <= L
               PROVE  \E x \in [0 .. n + 1 -> Nat] : Upto(x, n + 1)
    <3> HIDE DEF Upto
    <3> QED OBVIOUS
  <2>1. PICK y \in [0 .. n -> Nat] : Upto(y, n)
    BY <1>1, <1>3
  <2>2. PICK v \in Nat : v = 2 * y[n] + b(n + 1)
    BY <1>1
  <2>3. PICK x \in [0 .. n + 1 -> Nat] : x = [k \in 0 .. n + 1 |-> IF k = n + 1 THEN v ELSE y[k]]
    <3>1. \A k \in 0 .. n + 1 : (IF k = n + 1 THEN v ELSE y[k]) \in Nat
      <4>1. \A k \in 0 .. n + 1 : k = n + 1 \/ k \in 0 .. n
        OBVIOUS
      <4> QED BY <4>1
    <3> QED BY <3>1
  <2>4. ASSUME NEW k \in 1 .. n + 1
        PROVE  x[k] = 2 * x[k - 1] + b(k)
    <3>1. CASE k = n + 1
      BY <2>2, <2>3, <3>1
    <3>2. CASE k \in 1 .. n
      BY <2>1, <2>3, <3>2
    <3> QED BY <3>1, <3>2
  <2>5. x[0] = 0
    BY <2>1, <2>3
  <2> QED BY <2>4, <2>5
<1>4. L \in S
  <2> HIDE DEF S
  <2> QED BY <1>1, <1>2, <1>3, Induction
<1>5. PICK x \in [0 .. L -> Nat] : Upto(x, L)
  BY <1>4, <1>1
<1>6. x = [k \in 0 .. L |-> IF k = 0 THEN 0 ELSE 2 * x[k - 1] + b(k)]
  <2>1. \A k \in 0 .. L : x[k] = IF k = 0 THEN 0 ELSE 2 * x[k - 1] + b(k)
    BY <1>5, <1>1
  <2> QED BY <2>1
<1> QED BY <1>6 DEF L, b, IsTrace

(* What Coordinate computes is the end of that walk. *)
LEMMA CoordinateTrace ==
  ASSUME NEW path \in Path, NEW d \in Dimension
  PROVE  \E x : IsTrace(x, path, d) /\ Coordinate(path, d) = x[Len(path)]
<1>1. PICK y : IsTrace(y, path, d)
  BY TraceExists
<1>2. PICK x : x = CHOOSE z : IsTrace(z, path, d)
  OBVIOUS
<1>3. IsTrace(x, path, d)
  BY <1>1, <1>2
<1>4. Coordinate(path, d) = x[Len(path)]
  BY <1>2 DEF Coordinate, IsTrace
<1> QED BY <1>3, <1>4

(* Paths that agree up to a level have the same cell there. *)
LEMMA TraceUnique ==
  ASSUME NEW path \in Path, NEW other \in Path, NEW d \in Dimension, NEW x, NEW y,
         NEW l \in Nat, l <= Len(path), l <= Len(other),
         \A k \in 1 .. l : path[k] = other[k],
         IsTrace(x, path, d), IsTrace(y, other, d)
  PROVE  x[l] = y[l]
<1> DEFINE S == {n \in Nat : n <= l => x[n] = y[n]}
<1>1. PICK m \in Nat : m = Len(path)
  BY DEF Path
<1>2. PICK n \in Nat : n = Len(other)
  BY DEF Path
<1>3. /\ \A k \in 0 .. m : x[k] = IF k = 0 THEN 0 ELSE 2 * x[k - 1] + bit(path[k], d - 1)
      /\ \A k \in 0 .. n : y[k] = IF k = 0 THEN 0 ELSE 2 * y[k - 1] + bit(other[k], d - 1)
  BY <1>1, <1>2 DEF IsTrace
<1>4. l <= m /\ l <= n
  BY <1>1, <1>2
<1>5. 0 \in S
  <2>1. 0 \in 0 .. m /\ 0 \in 0 .. n
    OBVIOUS
  <2> QED BY <2>1, <1>3
<1>6. ASSUME NEW k \in Nat, k \in S
      PROVE  k + 1 \in S
  <2> SUFFICES ASSUME k + 1 <= l
               PROVE  x[k + 1] = y[k + 1]
    OBVIOUS
  <2>1. k + 1 \in 0 .. m /\ k + 1 \in 0 .. n /\ k + 1 # 0 /\ k + 1 - 1 = k /\ k + 1 \in 1 .. l
    BY <1>4
  <2>2. x[k] = y[k]
    BY <1>6, <2>1
  <2>3. x[k + 1] = 2 * x[k] + bit(path[k + 1], d - 1)
    BY <2>1, <1>3
  <2>4. y[k + 1] = 2 * y[k] + bit(other[k + 1], d - 1)
    BY <2>1, <1>3
  <2> QED BY <2>1, <2>2, <2>3, <2>4
<1> HIDE DEF S
<1>7. l \in S
  BY <1>5, <1>6, Induction
<1> QED BY <1>7 DEF S

(* The root is the cell 0. *)
LEMMA CoordinateOfRoot ==
  ASSUME NEW d \in Dimension
  PROVE  Coordinate(<<>>, d) = 0
<1>1. <<>> \in Path /\ Len(<<>>) = 0
  BY DEF Path
<1>2. PICK x : IsTrace(x, <<>>, d) /\ Coordinate(<<>>, d) = x[0]
  BY <1>1, CoordinateTrace
<1> QED BY <1>1, <1>2 DEF IsTrace

(* A child halves the cell of its parent, its position says on which side *)
(* it lies.                                                               *)
LEMMA CoordinateOfChild ==
  ASSUME NEW n \in Path, NEW p \in child_pos, NEW d \in Dimension
  PROVE  /\ Append(n, p) \in Path
         /\ Coordinate(Append(n, p), d) = 2 * Coordinate(n, d) + bit(p, d - 1)
<1>1. /\ Append(n, p) \in Path /\ Len(Append(n, p)) = Len(n) + 1 /\ Len(n) \in Nat
      /\ \A k \in 1 .. Len(n) : Append(n, p)[k] = n[k]
      /\ Append(n, p)[Len(n) + 1] = p
  BY DEF Path
<1>2. PICK c : c = Append(n, p)
  OBVIOUS
<1>3. PICK l \in Nat : l = Len(n) /\ l + 1 = Len(c)
  BY <1>1, <1>2
<1>4. PICK x : IsTrace(x, n, d) /\ Coordinate(n, d) = x[l]
  BY <1>3, CoordinateTrace
<1>5. PICK y : IsTrace(y, c, d) /\ Coordinate(c, d) = y[l + 1]
  BY <1>1, <1>2, <1>3, CoordinateTrace
<1>6. x[l] = y[l]
  <2>1. l <= Len(n) /\ l <= Len(c) /\ \A k \in 1 .. l : n[k] = c[k]
    BY <1>1, <1>2, <1>3
  <2>2. c \in Path
    BY <1>1, <1>2
  <2>3. IsTrace(x, n, d) /\ IsTrace(y, c, d)
    BY <1>4, <1>5
  <2> QED BY <2>1, <2>2, <2>3, TraceUnique
<1>7. y[l + 1] = 2 * y[l] + bit(c[l + 1], d - 1)
  <2>1. l + 1 \in 0 .. Len(c) /\ l + 1 # 0 /\ l + 1 - 1 = l
    BY <1>3
  <2> QED BY <2>1, <1>5 DEF IsTrace
<1> QED BY <1>1, <1>2, <1>3, <1>4, <1>5, <1>6, <1>7

(* A child is a path that ends in its parent and its position. *)
LEMMA ChildPath ==
  ASSUME NEW n \in Path, NEW p \in child_pos
  PROVE  /\ Append(n, p) \in Path /\ Append(n, p) # <<>>
         /\ Len(Append(n, p)) = Len(n) + 1 /\ Len(n) \in Nat
         /\ SubSeq(Append(n, p), 1, Len(Append(n, p)) - 1) = n
         /\ \A q \in Path, o \in child_pos : Append(n, p) = Append(q, o) => n = q /\ p = o
<1>1. n \in Seq(child_pos) /\ Len(n) \in Nat /\ Append(n, p) \in Seq(child_pos)
  BY DEF Path
<1>2. Len(Append(n, p)) = Len(n) + 1 /\ Append(n, p)[Len(n) + 1] = p
  BY <1>1
<1>3. \A k \in 1 .. Len(n) : Append(n, p)[k] = n[k]
  BY <1>1
<1>4. PICK l \in Nat : l = Len(n)
  BY <1>1
<1>5. PICK c \in Seq(child_pos) : c = Append(n, p) /\ Len(c) = l + 1
  BY <1>1, <1>2, <1>4
<1>6. SubSeq(c, 1, l) = n
  <2>1. SubSeq(c, 1, l) \in Seq(child_pos) /\ Len(SubSeq(c, 1, l)) = l
    BY <1>5
  <2>2. \A k \in 1 .. l : SubSeq(c, 1, l)[k] = n[k]
    BY <1>3, <1>4, <1>5
  <2> QED BY <1>1, <1>4, <2>1, <2>2
<1>7. Len(c) - 1 = l
  BY <1>5
<1>8. ASSUME NEW q \in Path, NEW o \in child_pos, Append(n, p) = Append(q, o)
      PROVE  n = q /\ p = o
  <2>1. q \in Seq(child_pos) /\ Len(q) \in Nat
    BY DEF Path
  <2>2. Len(q) = l
    BY <2>1, <1>8, <1>4, <1>5
  <2>3. \A k \in 1 .. l : Append(q, o)[k] = q[k]
    BY <2>1, <2>2
  <2>4. \A k \in 1 .. l : n[k] = q[k]
    BY <2>3, <1>3, <1>4, <1>8
  <2>5. Append(q, o)[l + 1] = o
    BY <2>1, <2>2
  <2> QED BY <2>1, <2>2, <2>4, <2>5, <1>1, <1>2, <1>4, <1>8
<1> QED BY <1>1, <1>2, <1>5, <1>6, <1>7, <1>8 DEF Path

(* Every path but the root's is that of a child. *)
LEMMA PathIsChild ==
  ASSUME NEW n \in Path, n # <<>>
  PROVE  \E q \in Path, p \in child_pos :
           n = Append(q, p) /\ Len(q) = Len(n) - 1 /\ q = SubSeq(n, 1, Len(n) - 1)
<1>1. n \in Seq(child_pos) /\ Len(n) \in Nat \ {0}
  BY DEF Path
<1>2. PICK l \in Nat : Len(n) = l + 1
  BY <1>1
<1>3. SubSeq(n, 1, l) \in Seq(child_pos) /\ Len(SubSeq(n, 1, l)) = l /\ n[l + 1] \in child_pos
  BY <1>1, <1>2
<1>4. n = Append(SubSeq(n, 1, l), n[l + 1])
  BY <1>1, <1>2, <1>3
<1>5. Len(n) - 1 = l
  BY <1>2
<1> QED BY <1>3, <1>4, <1>5 DEF Path

(* A level has a power of two cells along a dimension. *)
LEMMA CoordinateRange ==
  ASSUME NEW n \in Path, NEW d \in Dimension
  PROVE  Coordinate(n, d) \in Nat /\ Coordinate(n, d) < 2^Len(n)
<1> DEFINE Fits(m) == Coordinate(m, d) \in Nat /\ Coordinate(m, d) < 2^Len(m)
           S == {l \in Nat : \A m \in Path : Len(m) = l => Fits(m)}
<1>1. 0 \in S
  <2>1. ASSUME NEW m \in Path, Len(m) = 0
        PROVE  Fits(m)
    <3>1. m = <<>>
      BY <2>1 DEF Path
    <3>2. Len(m) = 0 /\ 2^0 = 1
      BY <2>1
    <3> QED BY <3>1, <3>2, CoordinateOfRoot
  <2> HIDE DEF Fits
  <2> QED BY <2>1
<1>2. ASSUME NEW l \in Nat, l \in S
      PROVE  l + 1 \in S
  <2>1. ASSUME NEW m \in Path, Len(m) = l + 1
        PROVE  Fits(m)
    <3>1. m # <<>>
      BY <2>1
    <3>2. PICK q \in Path, p \in child_pos : m = Append(q, p) /\ Len(q) = Len(m) - 1
      BY <3>1, PathIsChild
    <3>3. Len(q) = l
      BY <3>2, <2>1
    <3>4. PICK x \in Nat : x = Coordinate(q, d) /\ x < 2^l
      BY <3>3, <1>2
    <3>5. PICK a \in {0, 1} : a = bit(p, d - 1)
      <4>1. p \in Nat /\ d \in Nat \ {0}
        BY PositionIsNatural
      <4>2. d - 1 \in Nat
        BY <4>1
      <4> QED BY <4>1, <4>2, BitIsBit
    <3>6. Coordinate(m, d) = 2 * x + a
      BY <3>2, <3>4, <3>5, CoordinateOfChild
    <3>7. PICK w \in Nat : w = 2^l /\ 2^(l + 1) = 2 * w
      BY PowerOfTwo
    <3>8. 2 * x + a \in Nat /\ 2 * x + a < 2 * w
      BY <3>4, <3>7
    <3> QED BY <3>6, <3>7, <3>8, <2>1
  <2> HIDE DEF Fits
  <2> QED BY <2>1
<1>3. PICK l \in Nat : l = Len(n)
  BY DEF Path
<1>4. l \in S
  <2> HIDE DEF S
  <2> QED BY <1>1, <1>2, Induction
<1> QED BY <1>3, <1>4

(* The side of a child along a dimension is 0 or 1. *)
LEMMA BitOfPosition ==
  ASSUME NEW p \in child_pos, NEW d \in Dimension
  PROVE  bit(p, d - 1) \in {0, 1}
<1>1. p \in Nat /\ d \in Nat \ {0}
  BY PositionIsNatural
<1>2. d - 1 \in Nat
  BY <1>1
<1> QED BY <1>1, <1>2, BitIsBit

(* Two nodes of a level differ in a coordinate. *)
LEMMA CoordinateInjective ==
  ASSUME NEW a \in Path, NEW b \in Path, Len(a) = Len(b),
         \A d \in Dimension : Coordinate(a, d) = Coordinate(b, d)
  PROVE  a = b
<1> DEFINE Same(m, n) == \A d \in Dimension : Coordinate(m, d) = Coordinate(n, d)
           S == {l \in Nat : \A m, n \in Path :
                               Len(m) = l /\ Len(n) = l /\ Same(m, n) => m = n}
<1>1. 0 \in S
  <2>1. \A m \in Path : Len(m) = 0 => m = <<>>
    BY DEF Path
  <2> HIDE DEF Same
  <2> QED BY <2>1
<1>2. ASSUME NEW l \in Nat, l \in S
      PROVE  l + 1 \in S
  <2>1. ASSUME NEW m \in Path, NEW n \in Path, Len(m) = l + 1, Len(n) = l + 1, Same(m, n)
        PROVE  m = n
    <3>1. m # <<>> /\ n # <<>>
      BY <2>1
    <3>2. PICK q \in Path, p \in child_pos : m = Append(q, p) /\ Len(q) = Len(m) - 1
      BY <3>1, PathIsChild
    <3>3. PICK r \in Path, o \in child_pos : n = Append(r, o) /\ Len(r) = Len(n) - 1
      BY <3>1, PathIsChild
    <3>4. Len(q) = l /\ Len(r) = l
      BY <3>2, <3>3, <2>1
    <3>5. ASSUME NEW d \in Dimension
          PROVE  Coordinate(q, d) = Coordinate(r, d) /\ bit(p, d - 1) = bit(o, d - 1)
      <4>1. PICK x \in Nat, y \in Nat : x = Coordinate(q, d) /\ y = Coordinate(r, d)
        BY CoordinateRange
      <4>2. PICK u \in {0, 1}, v \in {0, 1} : u = bit(p, d - 1) /\ v = bit(o, d - 1)
        BY BitOfPosition
      <4>3. Coordinate(m, d) = 2 * x + u /\ Coordinate(n, d) = 2 * y + v
        BY <3>2, <3>3, <4>1, <4>2, CoordinateOfChild
      <4>4. 2 * x + u = 2 * y + v
        BY <4>3, <2>1
      <4>5. x = y /\ u = v
        BY <4>4
      <4> QED BY <4>1, <4>2, <4>5
    <3>6. q = r
      BY <3>4, <3>5, <1>2
    <3>7. p = o
      BY <3>5, PositionUnique
    <3> QED BY <3>2, <3>3, <3>6, <3>7
  <2> HIDE DEF Same
  <2> QED BY <2>1
<1>3. PICK l \in Nat : l = Len(a)
  BY DEF Path
<1>4. l \in S
  <2> HIDE DEF S
  <2> QED BY <1>1, <1>2, Induction
<1> QED BY <1>3, <1>4

(* The child positions of a path are the bits of its coordinates. *)
LEMMA BitOfCoordinate ==
  ASSUME NEW n \in Path, NEW d \in Dimension, NEW k \in 1 .. Len(n)
  PROVE  bit(Coordinate(n, d), Len(n) - k) = bit(n[k], d - 1)
<1> DEFINE Shows(m) == \A j \in 1 .. Len(m) :
                         bit(Coordinate(m, d), Len(m) - j) = bit(m[j], d - 1)
           S == {l \in Nat : \A m \in Path : Len(m) = l => Shows(m)}
<1>1. 0 \in S
  <2>1. \A m \in Path : Len(m) = 0 => 1 .. Len(m) = {}
    OBVIOUS
  <2> QED BY <2>1
<1>2. ASSUME NEW l \in Nat, l \in S
      PROVE  l + 1 \in S
  <2>1. ASSUME NEW m \in Path, Len(m) = l + 1
        PROVE  Shows(m)
    <3>1. m # <<>>
      BY <2>1
    <3>2. PICK q \in Path, p \in child_pos : m = Append(q, p) /\ Len(q) = Len(m) - 1
      BY <3>1, PathIsChild
    <3>3. Len(q) = l
      BY <3>2, <2>1
    <3>4. PICK x \in Nat : x = Coordinate(q, d)
      BY CoordinateRange
    <3>5. PICK a \in {0, 1} : a = bit(p, d - 1)
      BY BitOfPosition
    <3>6. PICK y \in Nat : y = 2 * x + a /\ y = Coordinate(m, d)
      BY <3>2, <3>4, <3>5, CoordinateOfChild
    <3>7. y \div 2 = x /\ y % 2 = a
      BY <3>6
    <3>8. ASSUME NEW j \in 1 .. l + 1
          PROVE  bit(y, l + 1 - j) = bit(m[j], d - 1)
      <4>1. CASE j = l + 1
        <5>1. m[j] = p
          BY <4>1, <3>2, <3>3 DEF Path
        <5>2. 2^0 = 1 /\ l + 1 - j = 0 /\ y \div 1 = y
          BY <4>1
        <5> QED BY <5>1, <5>2, <3>5, <3>7 DEF bit
      <4>2. CASE j \in 1 .. l
        <5>1. m[j] = q[j]
          BY <4>2, <3>2, <3>3 DEF Path
        <5>2. bit(x, l - j) = bit(q[j], d - 1)
          BY <4>2, <3>3, <3>4, <1>2
        <5>3. PICK i \in Nat : i = l - j /\ i + 1 = l + 1 - j
          BY <4>2
        <5>4. y \div 2^(i + 1) = x \div 2^i
          BY <3>7, PowerOfTwo, QuotientTwice
        <5> QED BY <5>1, <5>2, <5>3, <5>4 DEF bit
      <4> QED BY <4>1, <4>2
    <3> QED BY <3>6, <3>8, <2>1
  <2> HIDE DEF Shows
  <2> QED BY <2>1
<1>3. PICK l \in Nat : l = Len(n)
  BY DEF Path
<1>4. l \in S
  <2> HIDE DEF S
  <2> QED BY <1>1, <1>2, Induction
<1> QED BY <1>3, <1>4

(* The path whose positions are the bits of the coordinates of a node, as  *)
(* a location made from coordinates has them, is the path of the node.     *)
LEMMA PathToCoordinates ==
  ASSUME NEW n \in Path, NEW x, \A d \in Dimension : x[d] = Coordinate(n, d)
  PROVE  PathTo(Len(n), x) = n
<1>1. PICK l \in Nat : l = Len(n) /\ n = [k \in 1 .. l |-> n[k]]
  BY DEF Path
<1>2. ASSUME NEW k \in 1 .. l
      PROVE  (CHOOSE p \in child_pos :
                \A d \in Dimension : bit(p, d - 1) = bit(x[d], l - k)) = n[k]
  <2> DEFINE Has(p) == \A d \in Dimension : bit(p, d - 1) = bit(x[d], l - k)
  <2>1. n[k] \in child_pos
    BY <1>1 DEF Path
  <2>2. Has(n[k])
    BY <1>1, BitOfCoordinate
  <2>3. ASSUME NEW p \in child_pos, Has(p)
        PROVE  p = n[k]
    <3>1. \A d \in Dimension : bit(p, d - 1) = bit(n[k], d - 1)
      BY <2>2, <2>3
    <3> QED BY <2>1, <3>1, PositionUnique
  <2> HIDE DEF Has
  <2>4. (CHOOSE p \in child_pos : Has(p)) = n[k]
    BY <2>1, <2>2, <2>3
  <2> QED BY <2>4 DEF Has
<1>3. PathTo(l, x) = [k \in 1 .. l |-> n[k]]
  BY <1>2 DEF PathTo
<1> QED BY <1>1, <1>3

(* Every cell of a level is that of a node. *)
LEMMA PathExists ==
  ASSUME NEW l \in Nat, NEW x \in [Dimension -> Nat], \A d \in Dimension : x[d] < 2^l
  PROVE  \E n \in Path : Len(n) = l /\ \A d \in Dimension : Coordinate(n, d) = x[d]
<1> DEFINE At(n, y) == \A d \in Dimension : Coordinate(n, d) = y[d]
           S == {k \in Nat : \A y \in [Dimension -> Nat] :
                   (\A d \in Dimension : y[d] < 2^k) => \E n \in Path : Len(n) = k /\ At(n, y)}
<1>1. 0 \in S
  <2>1. ASSUME NEW y \in [Dimension -> Nat], \A d \in Dimension : y[d] < 2^0
        PROVE  At(<<>>, y)
    <3>1. 2^0 = 1
      OBVIOUS
    <3>2. \A d \in Dimension : y[d] = 0
      BY <2>1, <3>1
    <3> QED BY <3>2, CoordinateOfRoot
  <2>2. <<>> \in Path /\ Len(<<>>) = 0
    BY DEF Path
  <2> HIDE DEF At
  <2> QED BY <2>1, <2>2
<1>2. ASSUME NEW k \in Nat, k \in S
      PROVE  k + 1 \in S
  <2>1. ASSUME NEW y \in [Dimension -> Nat], \A d \in Dimension : y[d] < 2^(k + 1)
        PROVE  \E n \in Path : Len(n) = k + 1 /\ At(n, y)
    <3>1. PICK w \in Nat : w = 2^k /\ 2^(k + 1) = 2 * w
      BY PowerOfTwo
    <3>2. PICK h \in [Dimension -> Nat] : h = [d \in Dimension |-> y[d] \div 2]
      <4>1. \A d \in Dimension : y[d] \div 2 \in Nat
        <5>1. \A v \in Nat : v \div 2 \in Nat
          OBVIOUS
        <5> QED BY <5>1
      <4> QED BY <4>1
    <3>3. PICK a \in [Dimension -> {0, 1}] : a = [d \in Dimension |-> y[d] % 2]
      <4>1. \A d \in Dimension : y[d] % 2 \in {0, 1}
        <5>1. \A v \in Nat : v % 2 \in {0, 1}
          OBVIOUS
        <5> QED BY <5>1
      <4> QED BY <4>1
    <3>4. ASSUME NEW d \in Dimension
          PROVE  h[d] < w /\ y[d] = 2 * h[d] + a[d]
      <4>1. PICK v \in Nat : v = y[d]
        OBVIOUS
      <4>2. v < 2 * w
        BY <4>1, <3>1, <2>1
      <4>3. v \div 2 < w /\ v = 2 * (v \div 2) + (v % 2)
        BY <4>2
      <4> QED BY <4>1, <4>3, <3>2, <3>3
    <3>5. PICK q \in Path : Len(q) = k /\ At(q, h)
      <4> HIDE DEF At
      <4> QED BY <3>1, <3>4, <1>2
    <3>6. PICK p \in child_pos : \A d \in Dimension : bit(p, d - 1) = a[d]
      BY PositionOfBits
    <3>7. PICK n \in Path : n = Append(q, p)
      <4>1. Append(q, p) \in Path
        BY DEF Path
      <4> QED BY <4>1
    <3>8. Len(n) = k + 1
      BY <3>5, <3>7 DEF Path
    <3>9. At(n, y)
      <4>1. ASSUME NEW d \in Dimension
            PROVE  Coordinate(n, d) = y[d]
        <5>1. Coordinate(n, d) = 2 * Coordinate(q, d) + bit(p, d - 1)
          BY <3>7, CoordinateOfChild
        <5>2. Coordinate(q, d) = h[d] /\ bit(p, d - 1) = a[d]
          BY <3>5, <3>6
        <5> QED BY <5>1, <5>2, <3>4
      <4> QED BY <4>1
    <3> HIDE DEF At
    <3> QED BY <3>8, <3>9
  <2> HIDE DEF At
  <2> QED BY <2>1
<1>3. l \in S
  <2> HIDE DEF S
  <2> QED BY <1>1, <1>2, Induction
<1> QED BY <1>3

(* Shifting a path finds the cell of its level that lies at the offset. *)
LEMMA ShiftFinds ==
  ASSUME NEW n \in Path, NEW m \in Path, Len(m) = Len(n), NEW by,
         \A d \in Dimension : Coordinate(n, d) + by[d] = Coordinate(m, d)
  PROVE  shift_location(n, by) = {m}
<1>1. PICK x : x = [d \in Dimension |-> Coordinate(n, d) + by[d]]
  OBVIOUS
<1>2. \A d \in Dimension : x[d] = Coordinate(m, d)
  BY <1>1
<1>3. PathTo(Len(n), x) = m
  BY <1>2, PathToCoordinates
<1>4. \A d \in Dimension : x[d] \in 0 .. 2^Len(n) - 1
  <2>1. ASSUME NEW d \in Dimension
        PROVE  x[d] \in 0 .. 2^Len(n) - 1
    <3>1. PICK y \in Nat : y = Coordinate(m, d) /\ y < 2^Len(n)
      BY CoordinateRange
    <3>2. 2^Len(n) \in Nat
      BY PowerOfTwo DEF Path
    <3> QED BY <3>1, <3>2, <1>2
  <2> QED BY <2>1
<1> QED BY <1>1, <1>3, <1>4 DEF shift_location

(* A shift only returns the node that lies at that offset, and none *)
(* outside of the root.                                             *)
LEMMA ShiftSound ==
  ASSUME NEW n \in Path, NEW by, \A d \in Dimension : by[d] \in Int,
         NEW m \in shift_location(n, by)
  PROVE  /\ m \in Path /\ Len(m) = Len(n)
         /\ \A d \in Dimension : Coordinate(m, d) = Coordinate(n, d) + by[d]
<1>1. PICK x : x = [d \in Dimension |-> Coordinate(n, d) + by[d]]
  OBVIOUS
<1>2. /\ \A d \in Dimension : x[d] \in 0 .. 2^Len(n) - 1
      /\ m = PathTo(Len(n), x)
  BY <1>1 DEF shift_location
<1>3. PICK l \in Nat : l = Len(n) /\ 2^l \in Nat
  BY PowerOfTwo DEF Path
<1>4. x \in [Dimension -> Nat] /\ \A d \in Dimension : x[d] < 2^l
  BY <1>1, <1>2, <1>3
<1>5. PICK q \in Path : Len(q) = l /\ \A d \in Dimension : Coordinate(q, d) = x[d]
  BY <1>4, PathExists
<1>6. PathTo(l, x) = q
  BY <1>5, PathToCoordinates
<1>7. m = q
  BY <1>2, <1>3, <1>6
<1> QED BY <1>1, <1>3, <1>5, <1>7

-----------------------------------------------------------------------------
(* The tables of offsets. *)

Sides(o) == \A d \in Dimension : o[d] \in {-1, 0, 1}

(* What a row of the tables says of a neighbour and of its children. *)
RowRight(o, kids) ==
  /\ Sides(o)
  /\ \E d \in Dimension : o[d] # 0
  /\ kids = {p \in child_pos : \A d \in Dimension :
               /\ o[d] = 1 => bit(p, d - 1) = 0
               /\ o[d] = -1 => bit(p, d - 1) = 1}

(* The bits that the tables are about. *)
LEMMA BitTable ==
  /\ bit(0, 0) = 0 /\ bit(1, 0) = 1 /\ bit(2, 0) = 0 /\ bit(3, 0) = 1
  /\ bit(4, 0) = 0 /\ bit(5, 0) = 1 /\ bit(6, 0) = 0 /\ bit(7, 0) = 1
  /\ bit(0, 1) = 0 /\ bit(1, 1) = 0 /\ bit(2, 1) = 1 /\ bit(3, 1) = 1
  /\ bit(4, 1) = 0 /\ bit(5, 1) = 0 /\ bit(6, 1) = 1 /\ bit(7, 1) = 1
  /\ bit(0, 2) = 0 /\ bit(1, 2) = 0 /\ bit(2, 2) = 0 /\ bit(3, 2) = 0
  /\ bit(4, 2) = 1 /\ bit(5, 2) = 1 /\ bit(6, 2) = 1 /\ bit(7, 2) = 1
<1>1. \A p \in 0 .. 7 : /\ bit(p, 0) = p % 2
                        /\ bit(p, 1) = (p \div 2) % 2
                        /\ bit(p, 2) = (p \div 4) % 2
  BY BitsOfPosition
<1> QED BY <1>1

(* The rows of the tables are right, and no other offset is possible. *)
RowsRight ==
  \A M \in Manifold : \A i \in neighbor_idx(M) :
    RowRight(offset(M, i), children_sharing_face(M, i))

RowsComplete ==
  \A o : Sides(o) /\ (\E d \in Dimension : o[d] # 0) =>
    \E M \in Manifold : \E i \in neighbor_idx(M) :
      \A d \in Dimension : offset(M, i)[d] = o[d]

(* The tables for one dimension. *)
LEMMA TablesOne ==
  ASSUME Nd = 1
  PROVE  RowsRight /\ RowsComplete
<1>1. child_pos = 0 .. 1 /\ Dimension = {1} /\ Manifold = {1}
  BY Positions
<1>2. /\ neighbor_idx(1) = 1 .. 2
      /\ \A i \in 1 .. 2 : RowRight(offset(1, i), children_sharing_face(1, i))
      /\ \A o : (o[1] \in {-1, 0, 1}
                 /\ (IF o[1] = 0 THEN 0 ELSE 1) = 1)
              => \E i \in 1 .. 2 : offset(1, i)[1] = o[1]
  <2>1. Nd - 1 = 0
    OBVIOUS
  <2>2. /\ neighbor_lookup_table[0] =
               <<<<-1>>, <<1>>>>
        /\ neighbor_children_sharing_face[0] =
               <<{1}, {0}>>
    BY DEF neighbor_lookup_table, neighbor_children_sharing_face
  <2>3. neighbor_idx(1) = 1 .. 2
    BY <2>1, <2>2 DEF neighbor_idx
  <2>4. \A i \in 1 .. 2 : RowRight(offset(1, i), children_sharing_face(1, i))
    BY <2>1, <2>2, <1>1, BitTable DEF RowRight, Sides, offset, children_sharing_face
  <2>5. ASSUME NEW o, o[1] \in {-1, 0, 1},
               (IF o[1] = 0 THEN 0 ELSE 1) = 1
        PROVE  \E i \in 1 .. 2 : offset(1, i)[1] = o[1]
    BY <2>1, <2>2, <2>5 DEF offset
  <2> QED BY <2>3, <2>4, <2>5
<1>3. RowsRight
  BY <1>1, <1>2 DEF RowsRight
<1>4. RowsComplete
  <2> SUFFICES ASSUME NEW o, Sides(o), \E d \in Dimension : o[d] # 0
               PROVE  \E M \in Manifold : \E i \in neighbor_idx(M) :
                        \A d \in Dimension : offset(M, i)[d] = o[d]
    BY DEF RowsComplete
  <2>1. o[1] \in {-1, 0, 1}
    BY <1>1 DEF Sides
  <2>2. (IF o[1] = 0 THEN 0 ELSE 1) \in 1 .. 1
    BY <1>1, <2>1
  <2>3. CASE (IF o[1] = 0 THEN 0 ELSE 1) = 1
    BY <1>1, <1>2, <2>1, <2>3
  <2> QED BY <2>2, <2>3
<1> QED BY <1>3, <1>4

(* The tables for two dimensions. *)
LEMMA TablesTwo ==
  ASSUME Nd = 2
  PROVE  RowsRight /\ RowsComplete
<1>1. child_pos = 0 .. 3 /\ Dimension = {1, 2} /\ Manifold = {1, 2}
  BY Positions
<1>2. /\ neighbor_idx(1) = 1 .. 4
      /\ \A i \in 1 .. 4 : RowRight(offset(1, i), children_sharing_face(1, i))
      /\ \A o : (o[1] \in {-1, 0, 1} /\ o[2] \in {-1, 0, 1}
                 /\ (IF o[1] = 0 THEN 0 ELSE 1) + (IF o[2] = 0 THEN 0 ELSE 1) = 1)
              => \E i \in 1 .. 4 : offset(1, i)[1] = o[1] /\ offset(1, i)[2] = o[2]
  <2>1. Nd - 1 = 1
    OBVIOUS
  <2>2. /\ neighbor_lookup_table[1] =
               <<<<-1, 0>>, <<1, 0>>, <<0, -1>>, <<0, 1>>>>
        /\ neighbor_children_sharing_face[1] =
               <<{1, 3}, {0, 2}, {2, 3}, {0, 1}>>
    BY DEF neighbor_lookup_table, neighbor_children_sharing_face
  <2>3. neighbor_idx(1) = 1 .. 4
    BY <2>1, <2>2 DEF neighbor_idx
  <2>4. \A i \in 1 .. 4 : RowRight(offset(1, i), children_sharing_face(1, i))
    BY <2>1, <2>2, <1>1, BitTable DEF RowRight, Sides, offset, children_sharing_face
  <2>5. ASSUME NEW o, o[1] \in {-1, 0, 1}, o[2] \in {-1, 0, 1},
               (IF o[1] = 0 THEN 0 ELSE 1) + (IF o[2] = 0 THEN 0 ELSE 1) = 1
        PROVE  \E i \in 1 .. 4 : offset(1, i)[1] = o[1] /\ offset(1, i)[2] = o[2]
    BY <2>1, <2>2, <2>5 DEF offset
  <2> QED BY <2>3, <2>4, <2>5
<1>3. /\ neighbor_idx(2) = 1 .. 4
      /\ \A i \in 1 .. 4 : RowRight(offset(2, i), children_sharing_face(2, i))
      /\ \A o : (o[1] \in {-1, 0, 1} /\ o[2] \in {-1, 0, 1}
                 /\ (IF o[1] = 0 THEN 0 ELSE 1) + (IF o[2] = 0 THEN 0 ELSE 1) = 2)
              => \E i \in 1 .. 4 : offset(2, i)[1] = o[1] /\ offset(2, i)[2] = o[2]
  <2>1. Nd - 2 = 0
    OBVIOUS
  <2>2. /\ neighbor_lookup_table[0] =
               <<<<-1, -1>>, <<1, -1>>, <<-1, 1>>, <<1, 1>>>>
        /\ neighbor_children_sharing_face[0] =
               <<{3}, {2}, {1}, {0}>>
    BY DEF neighbor_lookup_table, neighbor_children_sharing_face
  <2>3. neighbor_idx(2) = 1 .. 4
    BY <2>1, <2>2 DEF neighbor_idx
  <2>4. \A i \in 1 .. 4 : RowRight(offset(2, i), children_sharing_face(2, i))
    BY <2>1, <2>2, <1>1, BitTable DEF RowRight, Sides, offset, children_sharing_face
  <2>5. ASSUME NEW o, o[1] \in {-1, 0, 1}, o[2] \in {-1, 0, 1},
               (IF o[1] = 0 THEN 0 ELSE 1) + (IF o[2] = 0 THEN 0 ELSE 1) = 2
        PROVE  \E i \in 1 .. 4 : offset(2, i)[1] = o[1] /\ offset(2, i)[2] = o[2]
    BY <2>1, <2>2, <2>5 DEF offset
  <2> QED BY <2>3, <2>4, <2>5
<1>4. RowsRight
  BY <1>1, <1>2, <1>3 DEF RowsRight
<1>5. RowsComplete
  <2> SUFFICES ASSUME NEW o, Sides(o), \E d \in Dimension : o[d] # 0
               PROVE  \E M \in Manifold : \E i \in neighbor_idx(M) :
                        \A d \in Dimension : offset(M, i)[d] = o[d]
    BY DEF RowsComplete
  <2>1. o[1] \in {-1, 0, 1} /\ o[2] \in {-1, 0, 1}
    BY <1>1 DEF Sides
  <2>2. (IF o[1] = 0 THEN 0 ELSE 1) + (IF o[2] = 0 THEN 0 ELSE 1) \in 1 .. 2
    BY <1>1, <2>1
  <2>3. CASE (IF o[1] = 0 THEN 0 ELSE 1) + (IF o[2] = 0 THEN 0 ELSE 1) = 1
    BY <1>1, <1>2, <2>1, <2>3
  <2>4. CASE (IF o[1] = 0 THEN 0 ELSE 1) + (IF o[2] = 0 THEN 0 ELSE 1) = 2
    BY <1>1, <1>3, <2>1, <2>4
  <2> QED BY <2>2, <2>3, <2>4
<1> QED BY <1>4, <1>5

(* The tables for three dimensions. *)
LEMMA TablesThree ==
  ASSUME Nd = 3
  PROVE  RowsRight /\ RowsComplete
<1>1. child_pos = 0 .. 7 /\ Dimension = {1, 2, 3} /\ Manifold = {1, 2, 3}
  BY Positions
<1>2. /\ neighbor_idx(1) = 1 .. 6
      /\ \A i \in 1 .. 6 : RowRight(offset(1, i), children_sharing_face(1, i))
      /\ \A o : (o[1] \in {-1, 0, 1} /\ o[2] \in {-1, 0, 1} /\ o[3] \in {-1, 0, 1}
                 /\ (IF o[1] = 0 THEN 0 ELSE 1) + (IF o[2] = 0 THEN 0 ELSE 1) + (IF o[3] = 0 THEN 0 ELSE 1) = 1)
              => \E i \in 1 .. 6 : offset(1, i)[1] = o[1] /\ offset(1, i)[2] = o[2] /\ offset(1, i)[3] = o[3]
  <2>1. Nd - 1 = 2
    OBVIOUS
  <2>2. /\ neighbor_lookup_table[2] =
               <<<<-1, 0, 0>>, <<1, 0, 0>>, <<0, -1, 0>>, <<0, 1, 0>>,
                 <<0, 0, -1>>, <<0, 0, 1>>>>
        /\ neighbor_children_sharing_face[2] =
               <<{1, 3, 5, 7}, {0, 2, 4, 6}, {2, 3, 6, 7},
                 {0, 1, 4, 5}, {4, 5, 6, 7}, {0, 1, 2, 3}>>
    BY DEF neighbor_lookup_table, neighbor_children_sharing_face
  <2>3. neighbor_idx(1) = 1 .. 6
    BY <2>1, <2>2 DEF neighbor_idx
  <2>4. \A i \in 1 .. 6 : RowRight(offset(1, i), children_sharing_face(1, i))
    BY <2>1, <2>2, <1>1, BitTable DEF RowRight, Sides, offset, children_sharing_face
  <2>5. ASSUME NEW o, o[1] \in {-1, 0, 1}, o[2] \in {-1, 0, 1}, o[3] \in {-1, 0, 1},
               (IF o[1] = 0 THEN 0 ELSE 1) + (IF o[2] = 0 THEN 0 ELSE 1) + (IF o[3] = 0 THEN 0 ELSE 1) = 1
        PROVE  \E i \in 1 .. 6 : offset(1, i)[1] = o[1] /\ offset(1, i)[2] = o[2] /\ offset(1, i)[3] = o[3]
    BY <2>1, <2>2, <2>5 DEF offset
  <2> QED BY <2>3, <2>4, <2>5
<1>3. /\ neighbor_idx(2) = 1 .. 12
      /\ \A i \in 1 .. 12 : RowRight(offset(2, i), children_sharing_face(2, i))
      /\ \A o : (o[1] \in {-1, 0, 1} /\ o[2] \in {-1, 0, 1} /\ o[3] \in {-1, 0, 1}
                 /\ (IF o[1] = 0 THEN 0 ELSE 1) + (IF o[2] = 0 THEN 0 ELSE 1) + (IF o[3] = 0 THEN 0 ELSE 1) = 2)
              => \E i \in 1 .. 12 : offset(2, i)[1] = o[1] /\ offset(2, i)[2] = o[2] /\ offset(2, i)[3] = o[3]
  <2>1. Nd - 2 = 1
    OBVIOUS
  <2>2. /\ neighbor_lookup_table[1] =
               <<<<-1, -1, 0>>, <<1, -1, 0>>, <<-1, 1, 0>>, <<1, 1, 0>>,
                 <<-1, 0, -1>>, <<1, 0, -1>>, <<0, -1, -1>>, <<0, 1, -1>>,
                 <<-1, 0, 1>>, <<1, 0, 1>>, <<0, -1, 1>>, <<0, 1, 1>>>>
        /\ neighbor_children_sharing_face[1] =
               <<{3, 7}, {2, 6}, {1, 5}, {0, 4}, {5, 7}, {4, 6},
                 {6, 7}, {4, 5}, {1, 3}, {0, 2}, {2, 3}, {0, 1}>>
    BY DEF neighbor_lookup_table, neighbor_children_sharing_face
  <2>3. neighbor_idx(2) = 1 .. 12
    BY <2>1, <2>2 DEF neighbor_idx
  <2>4. \A i \in 1 .. 12 : RowRight(offset(2, i), children_sharing_face(2, i))
    BY <2>1, <2>2, <1>1, BitTable DEF RowRight, Sides, offset, children_sharing_face
  <2>5. ASSUME NEW o, o[1] \in {-1, 0, 1}, o[2] \in {-1, 0, 1}, o[3] \in {-1, 0, 1},
               (IF o[1] = 0 THEN 0 ELSE 1) + (IF o[2] = 0 THEN 0 ELSE 1) + (IF o[3] = 0 THEN 0 ELSE 1) = 2
        PROVE  \E i \in 1 .. 12 : offset(2, i)[1] = o[1] /\ offset(2, i)[2] = o[2] /\ offset(2, i)[3] = o[3]
    BY <2>1, <2>2, <2>5 DEF offset
  <2> QED BY <2>3, <2>4, <2>5
<1>4. /\ neighbor_idx(3) = 1 .. 8
      /\ \A i \in 1 .. 8 : RowRight(offset(3, i), children_sharing_face(3, i))
      /\ \A o : (o[1] \in {-1, 0, 1} /\ o[2] \in {-1, 0, 1} /\ o[3] \in {-1, 0, 1}
                 /\ (IF o[1] = 0 THEN 0 ELSE 1) + (IF o[2] = 0 THEN 0 ELSE 1) + (IF o[3] = 0 THEN 0 ELSE 1) = 3)
              => \E i \in 1 .. 8 : offset(3, i)[1] = o[1] /\ offset(3, i)[2] = o[2] /\ offset(3, i)[3] = o[3]
  <2>1. Nd - 3 = 0
    OBVIOUS
  <2>2. /\ neighbor_lookup_table[0] =
               <<<<-1, -1, -1>>, <<1, -1, -1>>, <<-1, 1, -1>>, <<1, 1, -1>>,
                 <<-1, -1, 1>>, <<1, -1, 1>>, <<-1, 1, 1>>, <<1, 1, 1>>>>
        /\ neighbor_children_sharing_face[0] =
               <<{7}, {6}, {5}, {4}, {3}, {2}, {1}, {0}>>
    BY DEF neighbor_lookup_table, neighbor_children_sharing_face
  <2>3. neighbor_idx(3) = 1 .. 8
    BY <2>1, <2>2 DEF neighbor_idx
  <2>4. \A i \in 1 .. 8 : RowRight(offset(3, i), children_sharing_face(3, i))
    BY <2>1, <2>2, <1>1, BitTable DEF RowRight, Sides, offset, children_sharing_face
  <2>5. ASSUME NEW o, o[1] \in {-1, 0, 1}, o[2] \in {-1, 0, 1}, o[3] \in {-1, 0, 1},
               (IF o[1] = 0 THEN 0 ELSE 1) + (IF o[2] = 0 THEN 0 ELSE 1) + (IF o[3] = 0 THEN 0 ELSE 1) = 3
        PROVE  \E i \in 1 .. 8 : offset(3, i)[1] = o[1] /\ offset(3, i)[2] = o[2] /\ offset(3, i)[3] = o[3]
    BY <2>1, <2>2, <2>5 DEF offset
  <2> QED BY <2>3, <2>4, <2>5
<1>5. RowsRight
  BY <1>1, <1>2, <1>3, <1>4 DEF RowsRight
<1>6. RowsComplete
  <2> SUFFICES ASSUME NEW o, Sides(o), \E d \in Dimension : o[d] # 0
               PROVE  \E M \in Manifold : \E i \in neighbor_idx(M) :
                        \A d \in Dimension : offset(M, i)[d] = o[d]
    BY DEF RowsComplete
  <2>1. o[1] \in {-1, 0, 1} /\ o[2] \in {-1, 0, 1} /\ o[3] \in {-1, 0, 1}
    BY <1>1 DEF Sides
  <2>2. (IF o[1] = 0 THEN 0 ELSE 1) + (IF o[2] = 0 THEN 0 ELSE 1) + (IF o[3] = 0 THEN 0 ELSE 1) \in 1 .. 3
    BY <1>1, <2>1
  <2>3. CASE (IF o[1] = 0 THEN 0 ELSE 1) + (IF o[2] = 0 THEN 0 ELSE 1) + (IF o[3] = 0 THEN 0 ELSE 1) = 1
    BY <1>1, <1>2, <2>1, <2>3
  <2>4. CASE (IF o[1] = 0 THEN 0 ELSE 1) + (IF o[2] = 0 THEN 0 ELSE 1) + (IF o[3] = 0 THEN 0 ELSE 1) = 2
    BY <1>1, <1>3, <2>1, <2>4
  <2>5. CASE (IF o[1] = 0 THEN 0 ELSE 1) + (IF o[2] = 0 THEN 0 ELSE 1) + (IF o[3] = 0 THEN 0 ELSE 1) = 3
    BY <1>1, <1>4, <2>1, <2>5
  <2> QED BY <2>2, <2>3, <2>4, <2>5
<1> QED BY <1>5, <1>6

(* The neighbour tables list every offset to a cell next to a node, and *)
(* with each the children that lie on its side.                         *)
LEMMA Tables ==
  RowsRight /\ RowsComplete
BY TablesOne, TablesTwo, TablesThree, Positions

-----------------------------------------------------------------------------
(* How many neighbours there are. *)

(* A sum is bounded by what grows at least, and at most, with every element. *)
LEMMA SumBounds ==
  ASSUME NEW S, IsFiniteSet(S), NEW f \in [S -> Nat], NEW it, IsSum(it, f, S),
         NEW g \in [SUBSET S -> Nat], g[{}] = 0
  PROVE  /\ it[S] \in Nat
         /\ (\A T \in SUBSET S : \A x \in T : f[x] + g[T \ {x}] <= g[T]) => it[S] <= g[S]
         /\ (\A T \in SUBSET S : \A x \in T : f[x] + g[T \ {x}] >= g[T]) => it[S] >= g[S]
<1> DEFINE C(T) == CHOOSE x \in T : TRUE
           G1 == {T \in SUBSET S : it[T] \in Nat /\ it[T] <= g[T]}
           G2 == {T \in SUBSET S : it[T] \in Nat /\ it[T] >= g[T]}
<1>1. \A T \in SUBSET S : it[T] = IF T = {} THEN 0 ELSE f[C(T)] + it[T \ {C(T)}]
  BY DEF IsSum
<1>2. {} \in G1 /\ {} \in G2
  BY <1>1
<1>3. \A T \in SUBSET S : T # {} => C(T) \in T /\ C(T) \in S /\ T \ {C(T)} \in SUBSET S
  OBVIOUS
<1>4. ASSUME \A T \in SUBSET S : \A x \in T : f[x] + g[T \ {x}] <= g[T]
      PROVE  it[S] <= g[S]
  <2>1. ASSUME NEW T \in SUBSET S, T # {}, T \ {C(T)} \in G1 PROVE T \in G1
    <3>1. f[C(T)] \in Nat /\ g[T] \in Nat /\ g[T \ {C(T)}] \in Nat
      BY <1>3, <2>1
    <3>2. f[C(T)] + g[T \ {C(T)}] <= g[T]
      BY <1>4, <1>3, <2>1
    <3>3. it[T] = f[C(T)] + it[T \ {C(T)}]
      BY <1>1, <2>1
    <3> QED BY <3>1, <3>2, <3>3, <2>1
  <2>2. SUBSET S \subseteq G1
    <3> HIDE DEF G1
    <3>1. G1 \in SUBSET SUBSET S
      BY DEF G1
    <3> QED BY <1>2, <2>1, <3>1, SubsetsByInduction
  <2> QED BY <2>2
<1>5. ASSUME \A T \in SUBSET S : \A x \in T : f[x] + g[T \ {x}] >= g[T]
      PROVE  it[S] >= g[S]
  <2>1. ASSUME NEW T \in SUBSET S, T # {}, T \ {C(T)} \in G2 PROVE T \in G2
    <3>1. f[C(T)] \in Nat /\ g[T] \in Nat /\ g[T \ {C(T)}] \in Nat
      BY <1>3, <2>1
    <3>2. f[C(T)] + g[T \ {C(T)}] >= g[T]
      BY <1>5, <1>3, <2>1
    <3>3. it[T] = f[C(T)] + it[T \ {C(T)}]
      BY <1>1, <2>1
    <3> QED BY <3>1, <3>2, <3>3, <2>1
  <2>2. SUBSET S \subseteq G2
    <3> HIDE DEF G2
    <3>1. G2 \in SUBSET SUBSET S
      BY DEF G2
    <3> QED BY <1>2, <2>1, <3>1, SubsetsByInduction
  <2> QED BY <2>2
<1>6. it[S] \in Nat
  <2> DEFINE G3 == {T \in SUBSET S : it[T] \in Nat}
  <2>1. ASSUME NEW T \in SUBSET S, T # {}, T \ {C(T)} \in G3 PROVE T \in G3
    <3>1. f[C(T)] \in Nat
      BY <1>3, <2>1
    <3>2. it[T] = f[C(T)] + it[T \ {C(T)}]
      BY <1>1, <2>1
    <3> QED BY <3>1, <3>2, <2>1
  <2>2. SUBSET S \subseteq G3
    <3>1. G3 \in SUBSET SUBSET S /\ {} \in G3
      BY <1>1
    <3> HIDE DEF G3
    <3> QED BY <2>1, <3>1, SubsetsByInduction
  <2> QED BY <2>2
<1> QED BY <1>4, <1>5, <1>6

(* Elements of three kinds that count four, two and one at most. *)
LEMMA GroupedSum ==
  ASSUME NEW A4, NEW A2, NEW A1, IsFiniteSet(A4), IsFiniteSet(A2), IsFiniteSet(A1),
         A4 \cap A2 = {}, A4 \cap A1 = {}, A2 \cap A1 = {},
         NEW f \in [A4 \cup A2 \cup A1 -> Nat],
         \A x \in A4 : f[x] <= 4, \A x \in A2 : f[x] <= 2, \A x \in A1 : f[x] <= 1,
         NEW it, IsSum(it, f, A4 \cup A2 \cup A1)
  PROVE  /\ it[A4 \cup A2 \cup A1] \in Nat
         /\ it[A4 \cup A2 \cup A1] <= 4 * Cardinality(A4) + 2 * Cardinality(A2) + Cardinality(A1)
<1> DEFINE S == A4 \cup A2 \cup A1
           g == [T \in SUBSET S |-> 4 * Cardinality(T \cap A4) + 2 * Cardinality(T \cap A2)
                                      + Cardinality(T \cap A1)]
<1>1. IsFiniteSet(S)
  BY FS_Union
<1>2. ASSUME NEW K, IsFiniteSet(K), NEW T
      PROVE  /\ Cardinality(T \cap K) \in Nat
             /\ \A x \in T \cap K : Cardinality((T \ {x}) \cap K) = Cardinality(T \cap K) - 1
             /\ \A x : x \notin K => (T \ {x}) \cap K = T \cap K
  <2>1. IsFiniteSet(T \cap K)
    BY <1>2, FS_Subset
  <2>2. ASSUME NEW x \in T \cap K
        PROVE  Cardinality((T \ {x}) \cap K) = Cardinality(T \cap K) - 1
    <3>1. (T \ {x}) \cap K = (T \cap K) \ {x}
      OBVIOUS
    <3> QED BY <3>1, <2>1, FS_RemoveElement
  <2> QED BY <2>1, <2>2, FS_CardinalityType
<1>3. ASSUME NEW T \in SUBSET S, NEW x \in T PROVE f[x] + g[T \ {x}] <= g[T]
  <2> DEFINE a(U) == Cardinality(U \cap A4)
             b(U) == Cardinality(U \cap A2)
             c(U) == Cardinality(U \cap A1)
  <2>1. \A U \in {T, T \ {x}} : a(U) \in Nat /\ b(U) \in Nat /\ c(U) \in Nat
                                 /\ g[U] = 4 * a(U) + 2 * b(U) + c(U)
    BY <1>2
  <2>2. f[x] \in Nat
    OBVIOUS
  <2>3. CASE x \in A4
    <3>1. a(T \ {x}) = a(T) - 1 /\ b(T \ {x}) = b(T) /\ c(T \ {x}) = c(T)
      BY <2>3, <1>2
    <3> HIDE DEF a, b, c, g
    <3> QED BY <3>1, <2>1, <2>2, <2>3
  <2>4. CASE x \in A2
    <3>1. a(T \ {x}) = a(T) /\ b(T \ {x}) = b(T) - 1 /\ c(T \ {x}) = c(T)
      BY <2>4, <1>2
    <3> HIDE DEF a, b, c, g
    <3> QED BY <3>1, <2>1, <2>2, <2>4
  <2>5. CASE x \in A1
    <3>1. a(T \ {x}) = a(T) /\ b(T \ {x}) = b(T) /\ c(T \ {x}) = c(T) - 1
      BY <2>5, <1>2
    <3> HIDE DEF a, b, c, g
    <3> QED BY <3>1, <2>1, <2>2, <2>5
  <2> QED BY <2>3, <2>4, <2>5
<1>4. g \in [SUBSET S -> Nat] /\ g[{}] = 0
  <2>1. ASSUME NEW T \in SUBSET S PROVE g[T] \in Nat
    <3>1. /\ Cardinality(T \cap A4) \in Nat /\ Cardinality(T \cap A2) \in Nat
          /\ Cardinality(T \cap A1) \in Nat
      BY <1>2
    <3> QED BY <3>1
  <2>2. {} \cap A4 = {} /\ {} \cap A2 = {} /\ {} \cap A1 = {} /\ Cardinality({}) = 0
    BY FS_EmptySet
  <2>3. g[{}] = 0
    BY <2>2
  <2>4. g \in [SUBSET S -> Nat]
    <3> QED BY <2>1
  <2> QED BY <2>3, <2>4
<1>5. it[S] <= g[S] /\ it[S] \in Nat
  <2> HIDE DEF g
  <2> QED BY <1>1, <1>3, <1>4, SumBounds
<1>6. S \cap A4 = A4 /\ S \cap A2 = A2 /\ S \cap A1 = A1
  OBVIOUS
<1> QED BY <1>5, <1>6

(* A sum over one, two or three numbers. *)
LEMMA ShortSum ==
  ASSUME NEW n \in 1 .. 3, NEW f \in [1 .. n -> Nat], NEW it, IsSum(it, f, 1 .. n)
  PROVE  it[1 .. n] = f[1] + (IF n > 1 THEN f[2] ELSE 0) + (IF n > 2 THEN f[3] ELSE 0)
<1> DEFINE g == [T \in SUBSET (1 .. n) |->
                   (IF 1 \in T THEN f[1] ELSE 0) + (IF 2 \in T THEN f[2] ELSE 0)
                     + (IF 3 \in T THEN f[3] ELSE 0)]
<1>1. IsFiniteSet(1 .. n)
  BY FS_Interval
<1>2. \A x \in 1 .. n : f[x] \in Nat
  OBVIOUS
<1>3. g \in [SUBSET (1 .. n) -> Nat] /\ g[{}] = 0
  <2>1. \A T \in SUBSET (1 .. n) : g[T] \in Nat
    BY <1>2
  <2> QED BY <2>1
<1>4. \A T \in SUBSET (1 .. n) : \A x \in T : f[x] + g[T \ {x}] = g[T]
  <2> SUFFICES ASSUME NEW T \in SUBSET (1 .. n), NEW x \in T
               PROVE  f[x] + g[T \ {x}] = g[T]
    OBVIOUS
  <2>1. x \in 1 .. n /\ (x = 1 \/ x = 2 \/ x = 3)
    OBVIOUS
  <2> QED BY <2>1, <1>2
<1>5. it[1 .. n] \in Nat /\ it[1 .. n] <= g[1 .. n] /\ it[1 .. n] >= g[1 .. n]
  <2>1. \A T \in SUBSET (1 .. n) : \A x \in T :
           f[x] + g[T \ {x}] <= g[T] /\ f[x] + g[T \ {x}] >= g[T]
    <3> SUFFICES ASSUME NEW T \in SUBSET (1 .. n), NEW x \in T
                 PROVE  f[x] + g[T \ {x}] <= g[T] /\ f[x] + g[T \ {x}] >= g[T]
      OBVIOUS
    <3>1. g[T] \in Nat
      BY <1>3
    <3>2. f[x] + g[T \ {x}] = g[T]
      BY <1>4
    <3> HIDE DEF g
    <3> QED BY <3>1, <3>2
  <2> HIDE DEF g
  <2> QED BY <1>1, <1>3, <2>1, SumBounds
<1>6. it[1 .. n] = g[1 .. n]
  <2>1. g[1 .. n] \in Nat
    BY <1>3
  <2> HIDE DEF g
  <2> QED BY <1>5, <2>1
<1> QED BY <1>6

(* Sets of two, three and four elements. *)
LEMMA FewElements ==
  ASSUME NEW a, NEW b, NEW c, NEW d
  PROVE  /\ IsFiniteSet({a, b, c, d}) /\ Cardinality({a, b, c, d}) <= 4
         /\ a # b /\ a # c /\ b # c => Cardinality({a, b, c}) = 3
<1>1. IsFiniteSet({a}) /\ Cardinality({a}) = 1
  BY FS_Singleton
<1>2. {a, b} = {a} \cup {b} /\ {a, b, c} = {a, b} \cup {c} /\ {a, b, c, d} = {a, b, c} \cup {d}
  OBVIOUS
<1>3. IsFiniteSet({a, b}) /\ Cardinality({a, b}) = IF b \in {a} THEN 1 ELSE 2
  BY <1>1, <1>2, FS_AddElement
<1>4. /\ IsFiniteSet({a, b, c})
      /\ Cardinality({a, b, c}) = IF c \in {a, b} THEN Cardinality({a, b}) ELSE Cardinality({a, b}) + 1
  BY <1>2, <1>3, FS_AddElement
<1>5. /\ IsFiniteSet({a, b, c, d})
      /\ Cardinality({a, b, c, d})
            = IF d \in {a, b, c} THEN Cardinality({a, b, c}) ELSE Cardinality({a, b, c}) + 1
  BY <1>2, <1>4, FS_AddElement
<1>6. Cardinality({a, b}) \in {1, 2}
  BY <1>3
<1>7. Cardinality({a, b, c}) \in {1, 2, 3}
  BY <1>4, <1>6
<1>8. Cardinality({a, b, c, d}) <= 4
  BY <1>5, <1>7
<1>9. a # b /\ a # c /\ b # c => Cardinality({a, b, c}) = 3
  BY <1>3, <1>4
<1> QED BY <1>5, <1>8, <1>9

(* Sets of one, two and three. *)
LEMMA OneElement ==
  ASSUME NEW x PROVE Cardinality({x}) = 1
BY FS_Singleton

(* Sets of two and of three elements. *)
LEMMA TwoElements ==
  ASSUME NEW x, NEW y, x # y PROVE Cardinality({x, y}) = 2
<1>1. {x, y} = {x} \cup {y}
  OBVIOUS
<1>2. IsFiniteSet({x}) /\ Cardinality({x}) = 1
  BY FS_Singleton
<1>3. Cardinality({x} \cup {y}) = IF y \in {x} THEN 1 ELSE 1 + 1
  BY <1>2, FS_AddElement
<1> QED BY <1>1, <1>3

(* A set of three elements is one of two and a third. *)
LEMMA ThreeElements ==
  ASSUME NEW x, NEW y, NEW z, x # y, x # z, y # z PROVE Cardinality({x, y, z}) = 3
BY FewElements

(* Subsets of some size, as many as there are or fewer. *)
SubsetsOfSize(K, n, k) == \A s \in K : s \in SUBSET (1 .. n) /\ Cardinality(s) = k

(* Different subsets of a size are no more than the binomial coefficient of   *)
(* the code says.                                                             *)
LEMMA BinomialAtLeast ==
  ASSUME NEW n \in Nat, NEW k, NEW K, SubsetsOfSize(K, n, k)
  PROVE  binomial_coefficient(n, k) \in Nat /\ binomial_coefficient(n, k) >= Cardinality(K)
<1> DEFINE W == {s \in SUBSET (1 .. n) : Cardinality(s) = k}
<1>1. IsFiniteSet(SUBSET (1 .. n))
  <2>1. IsFiniteSet(1 .. n)
    BY FS_Interval
  <2> QED BY <2>1, FS_SUBSET, Zenon
<1>2. IsFiniteSet(W)
  BY <1>1, FS_Subset
<1>3. K \in SUBSET W
  BY DEF SubsetsOfSize
<1>4. Cardinality(K) <= Cardinality(W) /\ Cardinality(W) \in Nat
  BY <1>2, <1>3, FS_Subset, FS_CardinalityType
<1> QED BY <1>4 DEF binomial_coefficient

(* Binomial coefficients, from below. *)
LEMMA Binomials ==
  /\ binomial_coefficient(1, 1) >= 1
  /\ binomial_coefficient(2, 1) >= 2 /\ binomial_coefficient(2, 2) >= 1
  /\ binomial_coefficient(3, 1) >= 3 /\ binomial_coefficient(3, 2) >= 3
  /\ binomial_coefficient(3, 3) >= 1
<1>1. binomial_coefficient(1, 1) >= 1
  <2>1. {1} \in SUBSET (1 .. 1) /\ Cardinality({1}) = 1
    <3>1. Cardinality({1}) = 1
      BY OneElement
    <3>2. {1} \in SUBSET (1 .. 1)
      OBVIOUS
    <3> QED BY <3>1, <3>2
  <2>2. SubsetsOfSize({{1}}, 1, 1)
    BY <2>1, Zenon DEF SubsetsOfSize
  <2>3. Cardinality({{1}}) = 1
    BY OneElement, Zenon
  <2> QED BY <2>2, <2>3, BinomialAtLeast
<1>2. binomial_coefficient(2, 1) >= 2
  <2>1. {1} \in SUBSET (1 .. 2) /\ Cardinality({1}) = 1
    <3>1. Cardinality({1}) = 1
      BY OneElement
    <3>2. {1} \in SUBSET (1 .. 2)
      OBVIOUS
    <3> QED BY <3>1, <3>2
  <2>2. {2} \in SUBSET (1 .. 2) /\ Cardinality({2}) = 1
    <3>1. Cardinality({2}) = 1
      BY OneElement
    <3>2. {2} \in SUBSET (1 .. 2)
      OBVIOUS
    <3> QED BY <3>1, <3>2
  <2>3. SubsetsOfSize({{1}, {2}}, 2, 1)
    BY <2>1, <2>2, Zenon DEF SubsetsOfSize
  <2>4. {1} # {2}
    OBVIOUS
  <2>5. Cardinality({{1}, {2}}) = 2
    BY <2>4, TwoElements, Zenon
  <2> QED BY <2>3, <2>5, BinomialAtLeast
<1>3. binomial_coefficient(2, 2) >= 1
  <2>1. {1, 2} \in SUBSET (1 .. 2) /\ Cardinality({1, 2}) = 2
    <3>1. Cardinality({1, 2}) = 2
      <4>1. 1 # 2
        OBVIOUS
      <4> QED BY <4>1, TwoElements, Zenon
    <3>2. {1, 2} \in SUBSET (1 .. 2)
      OBVIOUS
    <3> QED BY <3>1, <3>2
  <2>2. SubsetsOfSize({{1, 2}}, 2, 2)
    BY <2>1, Zenon DEF SubsetsOfSize
  <2>3. Cardinality({{1, 2}}) = 1
    BY OneElement, Zenon
  <2> QED BY <2>2, <2>3, BinomialAtLeast
<1>4. binomial_coefficient(3, 1) >= 3
  <2>1. {1} \in SUBSET (1 .. 3) /\ Cardinality({1}) = 1
    <3>1. Cardinality({1}) = 1
      BY OneElement
    <3>2. {1} \in SUBSET (1 .. 3)
      OBVIOUS
    <3> QED BY <3>1, <3>2
  <2>2. {2} \in SUBSET (1 .. 3) /\ Cardinality({2}) = 1
    <3>1. Cardinality({2}) = 1
      BY OneElement
    <3>2. {2} \in SUBSET (1 .. 3)
      OBVIOUS
    <3> QED BY <3>1, <3>2
  <2>3. {3} \in SUBSET (1 .. 3) /\ Cardinality({3}) = 1
    <3>1. Cardinality({3}) = 1
      BY OneElement
    <3>2. {3} \in SUBSET (1 .. 3)
      OBVIOUS
    <3> QED BY <3>1, <3>2
  <2>4. SubsetsOfSize({{1}, {2}, {3}}, 3, 1)
    BY <2>1, <2>2, <2>3, Zenon DEF SubsetsOfSize
  <2>5. {1} # {2} /\ {1} # {3} /\ {2} # {3}
    OBVIOUS
  <2>6. Cardinality({{1}, {2}, {3}}) = 3
    BY <2>5, ThreeElements, Zenon
  <2> QED BY <2>4, <2>6, BinomialAtLeast
<1>5. binomial_coefficient(3, 2) >= 3
  <2>1. {1, 2} \in SUBSET (1 .. 3) /\ Cardinality({1, 2}) = 2
    <3>1. Cardinality({1, 2}) = 2
      <4>1. 1 # 2
        OBVIOUS
      <4> QED BY <4>1, TwoElements, Zenon
    <3>2. {1, 2} \in SUBSET (1 .. 3)
      OBVIOUS
    <3> QED BY <3>1, <3>2
  <2>2. {1, 3} \in SUBSET (1 .. 3) /\ Cardinality({1, 3}) = 2
    <3>1. Cardinality({1, 3}) = 2
      <4>1. 1 # 3
        OBVIOUS
      <4> QED BY <4>1, TwoElements, Zenon
    <3>2. {1, 3} \in SUBSET (1 .. 3)
      OBVIOUS
    <3> QED BY <3>1, <3>2
  <2>3. {2, 3} \in SUBSET (1 .. 3) /\ Cardinality({2, 3}) = 2
    <3>1. Cardinality({2, 3}) = 2
      <4>1. 2 # 3
        OBVIOUS
      <4> QED BY <4>1, TwoElements, Zenon
    <3>2. {2, 3} \in SUBSET (1 .. 3)
      OBVIOUS
    <3> QED BY <3>1, <3>2
  <2>4. SubsetsOfSize({{1, 2}, {1, 3}, {2, 3}}, 3, 2)
    BY <2>1, <2>2, <2>3, Zenon DEF SubsetsOfSize
  <2>5. {1, 2} # {1, 3} /\ {1, 2} # {2, 3} /\ {1, 3} # {2, 3}
    OBVIOUS
  <2>6. Cardinality({{1, 2}, {1, 3}, {2, 3}}) = 3
    BY <2>5, ThreeElements, Zenon
  <2> QED BY <2>4, <2>6, BinomialAtLeast
<1>6. binomial_coefficient(3, 3) >= 1
  <2>1. {1, 2, 3} \in SUBSET (1 .. 3) /\ Cardinality({1, 2, 3}) = 3
    <3>1. Cardinality({1, 2, 3}) = 3
      <4>1. 1 # 2 /\ 1 # 3 /\ 2 # 3
        OBVIOUS
      <4> QED BY <4>1, ThreeElements, Zenon
    <3>2. {1, 2, 3} \in SUBSET (1 .. 3)
      OBVIOUS
    <3> QED BY <3>1, <3>2
  <2>2. SubsetsOfSize({{1, 2, 3}}, 3, 3)
    BY <2>1, Zenon DEF SubsetsOfSize
  <2>3. Cardinality({{1, 2, 3}}) = 1
    BY OneElement, Zenon
  <2> QED BY <2>2, <2>3, BinomialAtLeast
<1> QED BY <1>1, <1>2, <1>3, <1>4, <1>5, <1>6

(* Room for the neighbours of every manifold. *)
LEMMA RoomForNeighbors ==
  /\ max_no_neighbors(Nd) \in Nat
  /\ max_no_neighbors(Nd) >= CASE Nd = 1 -> 2 [] Nd = 2 -> 12 [] Nd = 3 -> 56
<1> DEFINE f == [k \in 1 .. Nd |-> no_neighbors(Nd, k)]
           C(T) == CHOOSE x \in T : TRUE
           Summed(it) == it = [T \in SUBSET (1 .. Nd) |->
                                 IF T = {} THEN 0 ELSE no_neighbors(Nd, C(T)) + it[T \ {C(T)}]]
<1>1. \A k \in 1 .. Nd : no_neighbors(Nd, k) \in Nat
  <2>1. \A n \in Nat : 2^n \in Nat
    BY PowerOfTwo
  <2>2. ASSUME NEW k \in 1 .. Nd PROVE no_neighbors(Nd, k) \in Nat
    <3>1. binomial_coefficient(Nd, k) \in Nat
      <4>1. SubsetsOfSize({}, Nd, k)
        BY DEF SubsetsOfSize
      <4> QED BY <4>1, BinomialAtLeast, NdAssumption
    <3>2. k \in Nat /\ Nd - k \in Nat /\ k <= Nd
      BY NdAssumption
    <3>3. 2^k \in Nat /\ 2^(Nd - k) \in Nat
      BY <2>1, <3>2
    <3>4. no_neighbors(Nd, k) = 2^k * (2^(Nd - k) * binomial_coefficient(Nd, k))
      BY <3>2, NdAssumption DEF no_neighbors, no_nodes_sharing_face, no_faces
    <3> HIDE DEF binomial_coefficient
    <3>5. \A x, y, z \in Nat : x * (y * z) \in Nat
      OBVIOUS
    <3> QED BY <3>1, <3>3, <3>4, <3>5
  <2> QED BY <2>2
<1>2. f \in [1 .. Nd -> Nat] /\ \A k \in 1 .. Nd : f[k] = no_neighbors(Nd, k)
  BY <1>1
<1>3. IsFiniteSet(1 .. Nd)
  BY FS_Interval, NdAssumption
<1> HIDE DEF f
<1>4. \A it : IsSum(it, f, 1 .. Nd) <=> Summed(it)
  <2>1. \A T \in SUBSET (1 .. Nd) : T # {} => f[C(T)] = no_neighbors(Nd, C(T))
    BY <1>2
  <2> QED BY <2>1 DEF IsSum
<1>5. \E it : Summed(it)
  <2>0. f \in [1 .. Nd -> Int]
    BY <1>2
  <2>1. PICK it : IsSum(it, f, 1 .. Nd)
    BY <2>0, <1>3, SumExists
  <2>2. Summed(it)
    BY <2>1, <1>4, Zenon
  <2> HIDE DEF Summed
  <2> QED BY <2>2, Zenon
<1>6. PICK it : Summed(it) /\ max_no_neighbors(Nd) = it[1 .. Nd]
  <2>1. max_no_neighbors(Nd) = (CHOOSE it : Summed(it))[1 .. Nd]
    BY DEF max_no_neighbors, MapThenSumSet, MapThenFoldSet
  <2>2. Summed(CHOOSE it : Summed(it))
    <3> HIDE DEF Summed
    <3> QED BY <1>5, Zenon
  <2> HIDE DEF Summed
  <2> QED BY <2>1, <2>2, Zenon
<1>7. IsSum(it, f, 1 .. Nd)
  BY <1>4, <1>6
<1>8. it[1 .. Nd] = f[1] + (IF Nd > 1 THEN f[2] ELSE 0) + (IF Nd > 2 THEN f[3] ELSE 0)
  BY <1>2, <1>7, ShortSum, NdAssumption
<1>9. \A k \in 1 .. Nd : f[k] = 2^k * (2^(Nd - k) * binomial_coefficient(Nd, k))
                           /\ binomial_coefficient(Nd, k) \in Nat
  <2>1. ASSUME NEW k \in 1 .. Nd PROVE binomial_coefficient(Nd, k) \in Nat
    <3>1. SubsetsOfSize({}, Nd, k)
      BY DEF SubsetsOfSize
    <3> QED BY <3>1, BinomialAtLeast, NdAssumption
  <2>2. ASSUME NEW k \in 1 .. Nd
        PROVE  no_neighbors(Nd, k) = 2^k * (2^(Nd - k) * binomial_coefficient(Nd, k))
    BY NdAssumption DEF no_neighbors, no_nodes_sharing_face, no_faces
  <2> QED BY <2>1, <2>2, <1>2
<1>10. CASE Nd = 1
  <2>1. f[1] = 2^1 * (2^0 * binomial_coefficient(1, 1)) /\ binomial_coefficient(1, 1) \in Nat
    BY <1>9, <1>10
  <2> QED BY <2>1, <1>6, <1>8, <1>10, Binomials, Powers
<1>11. CASE Nd = 2
  <2>1. /\ f[1] = 2^1 * (2^1 * binomial_coefficient(2, 1)) /\ binomial_coefficient(2, 1) \in Nat
        /\ f[2] = 2^2 * (2^0 * binomial_coefficient(2, 2)) /\ binomial_coefficient(2, 2) \in Nat
    BY <1>9, <1>11
  <2> QED BY <2>1, <1>6, <1>8, <1>11, Binomials, Powers
<1>12. CASE Nd = 3
  <2>1. /\ f[1] = 2^1 * (2^2 * binomial_coefficient(3, 1)) /\ binomial_coefficient(3, 1) \in Nat
        /\ f[2] = 2^2 * (2^1 * binomial_coefficient(3, 2)) /\ binomial_coefficient(3, 2) \in Nat
        /\ f[3] = 2^3 * (2^0 * binomial_coefficient(3, 3)) /\ binomial_coefficient(3, 3) \in Nat
    BY <1>9, <1>12
  <2> QED BY <2>1, <1>6, <1>8, <1>12, Binomials, Powers
<1> QED BY <1>10, <1>11, <1>12, NdAssumption

(* A set of at most w elements. *)
AtMost(K, w) == IsFiniteSet(K) /\ Cardinality(K) <= w

(* Sets written out element by element have no more elements than that. *)
LEMMA SmallSets ==
  /\ \A x : AtMost({x}, 1)
  /\ \A x, y : AtMost({x, y}, 2)
  /\ \A x, y, z, u : AtMost({x, y, z, u}, 4)
<1>1. ASSUME NEW x PROVE AtMost({x}, 1)
  BY FS_Singleton DEF AtMost
<1>2. ASSUME NEW x, NEW y PROVE AtMost({x, y}, 2)
  <2>1. {x, y} = {x} \cup {y}
    OBVIOUS
  <2>2. IsFiniteSet({x}) /\ Cardinality({x}) = 1
    BY FS_Singleton
  <2>3. IsFiniteSet({x} \cup {y}) /\ Cardinality({x} \cup {y}) = IF y \in {x} THEN 1 ELSE 1 + 1
    BY <2>2, FS_AddElement
  <2> QED BY <2>1, <2>3 DEF AtMost
<1>3. ASSUME NEW x, NEW y, NEW z, NEW u PROVE AtMost({x, y, z, u}, 4)
  BY FewElements DEF AtMost
<1> QED BY <1>1, <1>2, <1>3
=============================================================================
