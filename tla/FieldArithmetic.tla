-------------------------- MODULE FieldArithmetic --------------------------
(***************************************************************************)
(* Arithmetic modulo a prime, as the bundled nostr-tools does it to check  *)
(* the signatures of events (@noble/curves, abstract/modular.js), and the  *)
(* addition chain of its square root for the prime of secp256k1.           *)
(*                                                                         *)
(* What throws, and an array element that was never written, is NoElement. *)
(***************************************************************************)
EXTENDS Integers, Sequences

NoElement == -1

\* The remainder of the language keeps the sign of the dividend.
Rem(a, b) == IF a >= 0 THEN a % b ELSE -((-a) % b)

Mod(a, b) == LET r == Rem(a, b) IN IF r >= 0 THEN r ELSE b + r

-----------------------------------------------------------------------------
(* Square and multiply: the bits of the exponent from the lowest on.       *)

RECURSIVE PowLoop(_, _, _, _)
PowLoop(res, num, power, modulo) ==
  IF power = 0 THEN res
  ELSE PowLoop(IF power % 2 = 1 THEN (res * num) % modulo ELSE res,
               (num * num) % modulo, power \div 2, modulo)

Pow(num, power, modulo) ==
  IF modulo <= 0 \/ power < 0 THEN NoElement
  ELSE IF modulo = 1 THEN 0 ELSE PowLoop(1, num, power, modulo)

\* The field's own power, with the two early returns.
FpPow(num, power, modulo) ==
  IF power = 0 THEN 1 ELSE IF power = 1 THEN num ELSE PowLoop(1, num, power, modulo)

-----------------------------------------------------------------------------
(* Euclid's algorithm with the factor of the number kept beside it.        *)

RECURSIVE InvertLoop(_, _, _, _)
InvertLoop(a, b, x, u) ==
  IF a = 0 THEN [gcd |-> b, x |-> x]
  ELSE InvertLoop(b % a, a, u, x - u * (b \div a))

Invert(number, modulo) ==
  IF number = 0 \/ modulo <= 0 THEN NoElement
  ELSE LET end == InvertLoop(Mod(number, modulo), modulo, 0, 1)
       IN  IF end.gcd # 1 THEN NoElement ELSE Mod(end.x, modulo)

\* Mutation: a zero is multiplied in like any other number.
InvertBatchWithZeros(nums, modulo) ==
  LET before[i \in 0 .. Len(nums)] ==
        IF i = 0 THEN 1 ELSE Mod(before[i - 1] * nums[i], modulo)
      after[i \in 0 .. Len(nums)] ==
        IF i = Len(nums) THEN Invert(before[i], modulo)
        ELSE Mod(after[i + 1] * nums[i + 1], modulo)
  IN  [i \in DOMAIN nums |-> Mod(after[i] * before[i - 1], modulo)]

\* One inversion for many numbers: the products before each number going up,
\* the inverse of all that come after it going down.  Zeros are passed over.
InvertBatch(nums, modulo) ==
  LET Factor(i) == IF nums[i] = 0 THEN 1 ELSE nums[i]
      before[i \in 0 .. Len(nums)] ==
        IF i = 0 THEN 1 ELSE Mod(before[i - 1] * Factor(i), modulo)
      after[i \in 0 .. Len(nums)] ==
        IF i = Len(nums) THEN Invert(before[i], modulo)
        ELSE Mod(after[i + 1] * Factor(i + 1), modulo)
  IN  [i \in DOMAIN nums |->
         IF nums[i] = 0 THEN NoElement ELSE Mod(after[i] * before[i - 1], modulo)]

\* The field, on numbers that need not be reduced.
FpNeg(a, p) == Mod(-a, p)
FpAdd(a, b, p) == Mod(a + b, p)
FpSub(a, b, p) == Mod(a - b, p)
FpMul(a, b, p) == Mod(a * b, p)
FpDiv(a, b, p) == Mod(a * Invert(b, p), p)

\* The root for a prime that leaves three modulo four.
SqrtMod(y, p) ==
  LET root == FpPow(y, (p + 1) \div 4, p)
  IN  IF FpMul(root, root, p) = Mod(y, p) THEN root ELSE NoElement

-----------------------------------------------------------------------------
(* The chain by which sqrtMod raises to (p + 1) / 4 for secp256k1, on      *)
(* exponents given by their bits, the highest first.  Raising to 2^k puts  *)
(* k zeros behind; multiplying by a power whose exponent is no longer than *)
(* k bits puts its bits there.                                             *)

Zeros(k) == [i \in 1..k |-> 0]
Ones(k) == [i \in 1..k |-> 1]

\* pow2(x, k) times y.
Pow2Times(x, k, y) == x \o Zeros(k - Len(y)) \o y

SqrtChain ==
  LET y    == <<1>>
      b2   == Pow2Times(y, 1, y)
      b3   == Pow2Times(b2, 1, y)
      b6   == Pow2Times(b3, 3, b3)
      b9   == Pow2Times(b6, 3, b3)
      b11  == Pow2Times(b9, 2, b2)
      b22  == Pow2Times(b11, 11, b11)
      b44  == Pow2Times(b22, 22, b22)
      b88  == Pow2Times(b44, 44, b44)
      b176 == Pow2Times(b88, 88, b88)
      b220 == Pow2Times(b176, 44, b44)
      b223 == Pow2Times(b220, 3, b3)
      t1   == Pow2Times(b223, 23, b22)
      t2   == Pow2Times(t1, 6, b2)
  IN  Pow2Times(t2, 2, << >>)

\* Plus one, of a number given by its bits.
PlusOne(bits) ==
  LET carry == {i \in DOMAIN bits : \A j \in DOMAIN bits : j > i => bits[j] = 1}
  IN  [i \in DOMAIN bits |-> IF i \in carry THEN 1 - bits[i] ELSE bits[i]]

\* The prime of secp256k1: four ff bytes give way to fffffffe and fffffc2f.
Secp256k1Prime ==
  Ones(192) \o Ones(31) \o <<0>> \o Ones(20)
  \o <<1, 1, 0, 0>> \o <<0, 0, 1, 0>> \o <<1, 1, 1, 1>>

-----------------------------------------------------------------------------
Power(a, n, p) == LET power[k \in 0..n] == IF k = 0 THEN 1 ELSE (power[k - 1] * a) % p
                  IN  power[n]

(* The field is a field: inverses invert, alone and in a batch with zeros  *)
(* among it, powers are repeated products, and the root is found exactly   *)
(* where there is one (bundle:625-669, 771-804).  The addition chain of    *)
(* the square root raises to (p + 1) / 4 (bundle:1781-1803).               *)
FieldIsSound(p, nums) ==
  /\ \A i \in DOMAIN nums : LET a == nums[i] IN
       /\ Mod(a, p) # 0 => FpMul(a, Invert(a, p), p) = 1 /\ FpDiv(a, a, p) = 1
       /\ FpAdd(FpSub(0, a, p), a, p) = 0 /\ FpNeg(a, p) = FpSub(0, a, p)
       /\ a \in 0 .. p - 1 =>
            /\ \A n \in 0 .. p : FpPow(a, n, p) = Power(a, n, p) /\ Pow(a, n, p) = Power(a, n, p)
            /\ (SqrtMod(a, p) # NoElement) <=> (\E y \in 0 .. p - 1 : (y * y) % p = a)
  /\ (\A i \in DOMAIN nums : nums[i] \in 0 .. p - 1) =>
       InvertBatch(nums, p) =
         [i \in DOMAIN nums |-> IF nums[i] = 0 THEN NoElement ELSE Invert(nums[i], p)]
  /\ SqrtChain = SubSeq(PlusOne(Secp256k1Prime), 1, 254)
=============================================================================
