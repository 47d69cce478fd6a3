---------------------------- MODULE MC_RedisBroker ----------------------------
(***************************************************************************)
(* RedisBroker for TLC, together with the check of the int64 operators its *)
(* backoff is computed with (GoInt64) against reference definitions that   *)
(* do not use limbs, over every pair of exponents a, b in 0..63 and the    *)
(* small naturals Small(a), Small(b).  The reference checks are            *)
(* assumptions of the model, evaluated once.                               *)
(***************************************************************************)
EXTENDS RedisBroker

Exps == 0 .. 63

(* Naturals whose products stay below 2^31.                                *)
Small(n) == n * 719 + 7

(* Reference: 2^a * 2^b wraps to 2^(a+b) below bit 63, to MinInt64 at bit  *)
(* 63 and to zero above.  2^63 is MinInt64 here.                           *)
PowRef(n) == IF n <= 62 THEN I64!Pow2(n) ELSE IF n = 63 THEN I64!MinInt64 ELSE I64!Zero

PowOf(n) == IF n <= 62 THEN I64!Pow2(n) ELSE I64!MinInt64

MulAgrees ==
    \A a, b \in Exps :
        /\ I64!ToNat(I64!Mul(I64!FromNat(Small(a)), I64!FromNat(Small(b)))) = Small(a) * Small(b)
        /\ I64!Mul(PowOf(a), PowOf(b)) = PowRef(a + b)
        /\ LET k == b % 31
           IN I64!Mul(I64!FromNat(Small(a)), I64!FromNat(2^k)) =
                  IF k <= 14 THEN I64!FromNat(Small(a) * 2^k)
                  ELSE I64!Mul(I64!FromNat(Small(a) * 2^14), I64!FromNat(2^(k - 14)))

GreaterAgrees ==
    \A a, b \in Exps :
        I64!Greater(PowOf(a), PowOf(b)) <=>
            IF a = 63 \/ b = 63 THEN b = 63 /\ a # 63 ELSE a > b

(* The Duration multiplication "2^attempt * time.Second" and the signed    *)
(* comparison with 30*time.Second are computed with these operators; they  *)
(* agree with the reference, checked once when TLC loads the model.        *)
ASSUME MulAgrees
ASSUME GreaterAgrees
=============================================================================
