------------------------------- MODULE GoInt64 -------------------------------
(***************************************************************************)
(* Go's int64 (time.Duration is one) with its wrap-around arithmetic, for  *)
(* the reconnect backoff of src/redis_broker.go:                           *)
(*                                                                         *)
(*   sleepDuration := time.Duration(math.Pow(2, float64(attempt))) *       *)
(*                    time.Second                                          *)
(*   if sleepDuration > 30*time.Second { sleepDuration = 30*time.Second }  *)
(*                                                                         *)
(* TLC integers are 32 bits wide, so a 64-bit word is kept as NL limbs of  *)
(* LimbBits bits, least significant first; the top limb keeps only the     *)
(* bits below 64.  Products of two limbs, summed over a column, stay far   *)
(* below 2^31.  A word is its two's-complement bit pattern: bit 63 set     *)
(* means negative.                                                         *)
(***************************************************************************)
EXTENDS Integers, Sequences, Functions

LimbBits == 13
B == 2^LimbBits
NL == 5                       \* 5 * 13 = 65 bits >= 64
TopBits == 64 - (NL - 1) * LimbBits
TopMod == 2^TopBits           \* the top limb holds bits 52..63

Word == {w \in [1 .. NL -> 0 .. B - 1] : w[NL] < TopMod}

(* A non-negative TLC integer (below 2^31) as a word.                      *)
RECURSIVE DigitsFrom(_, _)
DigitsFrom(n, k) ==
    IF k > NL THEN <<>> ELSE <<n % B>> \o DigitsFrom(n \div B, k + 1)

FromNat(n) == DigitsFrom(n, 1)

(* The value of a word whose bits above 31 are clear.                      *)
ToNat(w) == w[1] + w[2] * B + w[3] * B * B

Zero == FromNat(0)

(* 2^a for 0 <= a <= 62: a single set bit.                                 *)
Pow2(a) == [k \in 1 .. NL |-> IF k = a \div LimbBits + 1 THEN 2^(a % LimbBits) ELSE 0]

MinInt64 == [k \in 1 .. NL |-> IF k = NL THEN TopMod \div 2 ELSE 0]
MaxInt64 == [k \in 1 .. NL |-> IF k = NL THEN TopMod \div 2 - 1 ELSE B - 1]

Negative(w) == w[NL] >= TopMod \div 2

(* x * y for int64 operands: Go's multiplication keeps the low 64 bits of  *)
(* the product, which is the same bit pattern for signed and unsigned.     *)
(* Column k collects the limb products of weight B^(k-1) plus the carry.   *)
RECURSIVE MulFrom(_, _, _, _)
MulFrom(x, y, k, carry) ==
    IF k > NL THEN <<>>
    ELSE LET col == carry + SumFunction([i \in 1 .. k |-> x[i] * y[k + 1 - i]])
         IN <<IF k = NL THEN col % TopMod ELSE col % B>> \o MulFrom(x, y, k + 1, col \div B)

Mul(x, y) == MulFrom(x, y, 1, 0)

(* Unsigned order of two words, compared from the top limb down.           *)
RECURSIVE ULessFrom(_, _, _)
ULessFrom(x, y, k) ==
    IF k = 0 THEN FALSE
    ELSE IF x[k] # y[k] THEN x[k] < y[k] ELSE ULessFrom(x, y, k - 1)

(* Signed x > y on int64: a non-negative word is above every negative one; *)
(* within one sign two's complement keeps the unsigned order.              *)
Greater(x, y) ==
    IF Negative(x) # Negative(y) THEN Negative(y) ELSE ULessFrom(y, x, NL)

(* time.Duration(f) for f = math.Pow(2, a), which is exact in float64.     *)
(* Up to 2^62 the value fits.  From 2^63 on it does not, and Go leaves the *)
(* conversion's result to the implementation: amd64 yields MinInt64 and    *)
(* arm64 saturates to MaxInt64.  The set holds every possible outcome.     *)
DurationOfPow2(a) == IF a <= 62 THEN {Pow2(a)} ELSE {MinInt64, MaxInt64}

Second == FromNat(1000000000)

(* The backoff line and its cap: every duration the code can sleep after   *)
(* its attempt-th consecutive failure.                                     *)
Backoffs(a) ==
    LET cap == Mul(FromNat(30), Second)
    IN {IF Greater(d, cap) THEN cap ELSE d : d \in {Mul(p, Second) : p \in DurationOfPow2(a)}}
=============================================================================
