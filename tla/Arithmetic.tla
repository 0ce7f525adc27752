----------------------------- MODULE Arithmetic -----------------------------
(***************************************************************************)
(* The integer and floating-point functions everything else is built from: *)
(* utility/math.hpp, and the index of the sibling group of a node, which   *)
(* tree/tree.hpp computes with them in single precision.                   *)
(*                                                                         *)
(* Unsigned integers have Width bits and wrap.  A floating-point number of *)
(* the comparison is its bits: the sign, ExponentBits and FractionBits.    *)
(***************************************************************************)
EXTENDS Integers, FiniteSetsExt

CONSTANTS
  Width,         \* bits of the integers
  ExponentBits,
  FractionBits

Word == 0 .. 2^Width - 1
wrap(n) == n % 2^Width

-----------------------------------------------------------------------------
(* Integers. *)

absdiff(a, b) == IF a > b THEN wrap(a - b) ELSE wrap(b - a)

ilog(b, n) ==
  LET log[k \in Nat] == IF k \in {0, 1} THEN 0 ELSE 1 + log[k \div b]
  IN  log[n]

signum(x) == (IF 0 < x THEN 1 ELSE 0) - (IF x < 0 THEN 1 ELSE 0)

(* By squaring: the result, the square and what is left of the exponent. *)
ipow(base, exponent) ==
  LET pow[r \in Word, b \in Word, e \in Word] ==
        IF e = 0 THEN r
        ELSE pow[IF e % 2 = 1 THEN wrap(r * b) ELSE r, wrap(b * b), e \div 2]
  IN  pow[1, base, exponent]

factorial(n) ==
  LET f[k \in Word] == IF k = 0 THEN 1 ELSE wrap(k * f[k - 1])
  IN  f[n]

binomial_coefficient(n, k) ==
  factorial(n) \div wrap(factorial(k) * factorial(n - k))

-----------------------------------------------------------------------------
(* Floating point.  x is a multiple of one quarter here, and the conversion *)
(* to int drops the fraction.                                               *)

to_int(quarters) ==
  IF quarters >= 0 THEN quarters \div 4 ELSE -((-quarters) \div 4)

floor(quarters) ==
  IF quarters >= 0 THEN to_int(quarters) ELSE to_int(quarters) - 1

(* n rounded to a significand of FractionBits + 1 bits, to even in a tie. *)
to_float(n) ==
  LET ulp == CHOOSE u \in {2^e : e \in 0 .. Width} :
               n < u * 2^(FractionBits + 1) /\ (u > 1 => n >= u * 2^FractionBits)
      low == (n \div ulp) * ulp
  IN  IF 2 * (n - low) < ulp \/ (2 * (n - low) = ulp /\ (n \div ulp) % 2 = 0)
      THEN low ELSE low + ulp

(* A bug: the indices of groups and nodes that start at one. *)
SiblingGroupAbove(n, no_children) ==
  to_float(wrap(n + no_children)) \div no_children

(* The division by a power of two is exact, and floor rounds it down. *)
sibling_group(n, no_children) ==
  to_float(to_float(wrap(n + no_children)) - 1) \div no_children

-----------------------------------------------------------------------------
(* Comparison of floating-point numbers. *)

BitCount == 1 + ExponentBits + FractionBits
Bits == 0 .. 2^BitCount - 1
SignBit == 2^(BitCount - 1)

sign_bit(x) == x \div SignBit
exponent_bits(x) == (x % SignBit) \div 2^FractionBits
fraction_bits(x) == x % 2^FractionBits

is_nan(x) == exponent_bits(x) = 2^ExponentBits - 1 /\ fraction_bits(x) # 0

k_max_ulps == 4

(* A bug: a negative number is complemented, but not incremented. *)
BiasedByComplement(x) ==
  IF sign_bit(x) = 1 THEN 2^BitCount - 1 - x ELSE SignBit + x

sign_and_magnitude_to_biased(x) ==
  IF sign_bit(x) = 1 THEN (2^BitCount - 1 - x + 1) % 2^BitCount ELSE SignBit + x

distance(x, y) ==
  LET a == sign_and_magnitude_to_biased(x)
      b == sign_and_magnitude_to_biased(y)
  IN  IF a >= b THEN a - b ELSE b - a

approx(x, y) == ~is_nan(x) /\ ~is_nan(y) /\ distance(x, y) <= k_max_ulps

-----------------------------------------------------------------------------
(* Squaring gives the power modulo the width; the logarithm is that of the      *)
(* next lower power, one more from twice that power on (exact for base 2); a    *)
(* binomial coefficient is exact as long as the factorial of its first argument *)
(* fits; floor is exact where it is used, for what is no negative whole number. *)
IntegersExact ==
  /\ \A a, e \in 0 .. 9 :
       LET power[k \in Nat] == IF k = 0 THEN 1 ELSE wrap(a * power[k - 1])
       IN  ipow(a, e) = power[e]
  /\ \A b \in 2 .. 4, k \in 0 .. 5 : \A n \in b^k .. b^(k + 1) - 1 :
       ilog(b, n) = IF n < 2 * b^k THEN k ELSE k + 1
  /\ \A n \in 0 .. 9 : \A k \in 0 .. n :
       LET product[i \in Nat] == IF i = 0 THEN 1 ELSE i * product[i - 1]
       IN  product[n] \in Word =>
             binomial_coefficient(n, k) = Cardinality(kSubset(k, 1 .. n))
  /\ \A q \in -40 .. 40 : (q >= 0 \/ q % 4 # 0) => floor(q) = q \div 4
  /\ \A a, b \in {0, 1, 2, 2^Width - 2, 2^Width - 1} :
       signum(a - b) * absdiff(a, b) = a - b

(* The value of a number, in units of the smallest that is not zero. *)
Value(x) ==
  LET e == exponent_bits(x)
      magnitude == IF e = 0 THEN fraction_bits(x)
                   ELSE (2^FractionBits + fraction_bits(x)) * 2^(e - 1)
  IN  IF sign_bit(x) = 1 THEN -magnitude ELSE magnitude

(* Two numbers compare equal exactly when at most four steps from one           *)
(* representable number to the next lead from one to the other, across zero     *)
(* and from the largest numbers to infinity as well, and no NaN equals          *)
(* anything, itself included.                                                   *)
ApproxCountsSteps ==
  LET values == {Value(x) : x \in {b \in Bits : ~is_nan(b)}}
      steps(v, w) == Cardinality({u \in values : v < u /\ u <= w})
  IN  \A x, y \in Bits :
        approx(x, y) <=>
          /\ ~is_nan(x) /\ ~is_nan(y)
          /\ steps(Value(x), Value(y)) <= k_max_ulps
          /\ steps(Value(y), Value(x)) <= k_max_ulps

(* The functions compute what their callers rely on, at the limits of their     *)
(* types as well.                                                               *)
ArithmeticExact == IntegersExact /\ ApproxCountsSteps

(* The group of a node is the number of whole groups before it, the root being  *)
(* a group of its own, for every index whose distance to the next single        *)
(* precision can tell; the first index after them is put into the wrong group.  *)
SiblingGroupExact ==
  \A c \in {2, 4, 8} : \A n \in 0 .. 2^(FractionBits + 1) - c :
    sibling_group(n, c) = Cardinality({g \in 0 .. n : c * g < n})

=============================================================================
