------------------------ MODULE SchnorrVerification ------------------------
(***************************************************************************)
(* How the bundled nostr-tools decides whether an event's signature holds: *)
(* points of a curve y^2 = x^3 + A*x + B in projective coordinates, their  *)
(* multiples by windows of signed digits and by the curve's endomorphism,  *)
(* and the BIP-340 verification on top (@noble/curves, abstract/curve.js,  *)
(* abstract/weierstrass.js, secp256k1.js).                                 *)
(*                                                                         *)
(* The parameters are those of secp256k1 in the code; here they are        *)
(* constants, for a small curve of the same shape.  SplitBound stands for  *)
(* 2^128 and HalfBits for the 128 bits of a split scalar.  The challenge,  *)
(* a hash in the code, is a number that is given.                          *)
(***************************************************************************)
EXTENDS FieldArithmetic

CONSTANTS
  P, N, A, B,          \* the field's prime, the group's prime order, the equation
  Gx, Gy,              \* the generator
  Beta, A1, B1, A2,    \* the endomorphism and the lattice that splits scalars
  HalfBits, SplitBound

ASSUME CurveAssumption ==
  /\ {P, N, HalfBits, SplitBound} \subseteq Nat \ {0}
  /\ {A, B, Gx, Gy, Beta, A1, A2} \subseteq 0 .. P - 1
  /\ B1 \in Int
  /\ P % 4 = 3

Add2(a, b) == FpAdd(a, b, P)
Sub2(a, b) == FpSub(a, b, P)
Mul2(a, b) == FpMul(a, b, P)

Point(x, y, z) == [x |-> x, y |-> y, z |-> z]
ZERO == Point(0, 1, 0)
BASE == Point(Gx, Gy, 1)
NoPoint == Point(NoElement, NoElement, NoElement)

WeierstrassEquation(x) == Add2(Add2(Mul2(Mul2(x, x), x), Mul2(x, A)), B)

\* Proportional coordinates; z is left out.
Equals(p, q) == /\ Mul2(p.x, q.z) = Mul2(q.x, p.z)
                /\ Mul2(p.y, q.z) = Mul2(q.y, p.z)
Is0(p) == Equals(p, ZERO)

Negate(p) == [p EXCEPT !.y = FpNeg(@, P)]
NegateIf(condition, p) == IF condition THEN Negate(p) ELSE p

\* The complete formulas: no case for equal, opposite or zero points.
Double(p) ==
  LET xx == Mul2(p.x, p.x)  yy == Mul2(p.y, p.y)  zz == Mul2(p.z, p.z)
      xy == Mul2(2 * p.x, p.y)  xz == Mul2(2 * p.x, p.z)  yz == Mul2(2 * p.y, p.z)
      s == Add2(A * xz, 3 * B * zz)
      d == Add2(A * (xx - A * zz), 3 * B * xz)
      m == Add2(3 * xx, A * zz)
  IN  Point(Sub2(Mul2(xy, yy - s), Mul2(yz, d)),
            Add2(Mul2(yy - s, yy + s), Mul2(m, d)),
            Mul2(4 * yz, yy))

Add(p, q) ==
  LET xx == Mul2(p.x, q.x)  yy == Mul2(p.y, q.y)  zz == Mul2(p.z, q.z)
      xy == Add2(p.x * q.y, q.x * p.y)
      xz == Add2(p.x * q.z, q.x * p.z)
      yz == Add2(p.y * q.z, q.y * p.z)
      s == Add2(A * xz, 3 * B * zz)
      d == Add2(A * (xx - A * zz), 3 * B * xz)
      m == Add2(3 * xx, A * zz)
  IN  Point(Sub2(Mul2(xy, yy - s), Mul2(yz, d)),
            Add2(Mul2(yy - s, yy + s), Mul2(m, d)),
            Add2(Mul2(yz, yy + s), Mul2(xy, m)))

\* iz is the inverse of z where the caller has it, NoElement where not.
ToAffine(p, iz) ==
  LET inverse == IF iz # NoElement THEN iz ELSE IF Is0(p) THEN 1 ELSE Invert(p.z, P)
  IN  IF Is0(p) THEN [x |-> 0, y |-> 0]
      ELSE IF Mul2(p.z, inverse) # 1 THEN [x |-> NoElement, y |-> NoElement]
      ELSE [x |-> Mul2(p.x, inverse), y |-> Mul2(p.y, inverse)]

FromAffine(a) ==
  IF NoElement \in {a.x, a.y} THEN NoPoint
  ELSE IF a.x = 0 /\ a.y = 0 THEN ZERO ELSE Point(a.x, a.y, 1)

NormalizeZ(points) ==
  LET inverses == InvertBatch([i \in DOMAIN points |-> points[i].z], P)
  IN  [i \in DOMAIN points |-> FromAffine(ToAffine(points[i], inverses[i]))]

\* A cofactor of one leaves no torsion to look for.
IsValidPoint(p) ==
  /\ ~Is0(p)
  /\ LET a == ToAffine(p, NoElement) IN
       /\ {a.x, a.y} \subseteq 0 .. P - 1
       /\ Mul2(a.y, a.y) = WeierstrassEquation(a.x)

HasEvenY(p) == ToAffine(p, NoElement).y % 2 = 0

-----------------------------------------------------------------------------
(* Multiples.                                                              *)

RECURSIVE Ladder(_, _, _)
Ladder(p, d, n) ==
  IF n = 0 THEN p ELSE Ladder(IF n % 2 = 1 THEN Add(p, d) ELSE p, Double(d), n \div 2)
UnsafeLadder(elm, n) == Ladder(ZERO, elm, n)

Windows(w) == (HalfBits + w - 1) \div w + 1
WindowSize(w) == 2^(w - 1)

\* One to WindowSize times the point, then the same 2^w times as far, and so on.
PrecomputeWindow(elm, w) ==
  LET size == WindowSize(w)
      base[i \in 1 .. Windows(w) * size] ==
        IF i = 1 THEN elm
        ELSE IF i % size = 1 % size THEN Double(base[i - 1])
        ELSE Add(base[i - 1], base[((i - 1) \div size) * size + 1])
  IN  [i \in 1 .. Windows(w) * size |-> base[i]]

\* The digit of a window: what is above half of it borrows from the next.
Digit(bits, w) == IF bits > WindowSize(w) THEN bits - 2^w ELSE bits

\* p gathers the digits, f the same number of additions for the zero digits.
RECURSIVE WNafLoop(_, _, _, _, _)
WNafLoop(w, table, n, window, sum) ==
  IF window = Windows(w) THEN sum
  ELSE LET bits == n % 2^w
           digit == Digit(bits, w)
           offset == window * WindowSize(w)
           rest == n \div 2^w + IF digit < bits THEN 1 ELSE 0
           entry == IF digit < 0 THEN -digit ELSE digit
       IN  WNafLoop(w, table, rest, window + 1,
             IF digit = 0
             THEN [sum EXCEPT !.f = Add(@, NegateIf(window % 2 = 1, table[offset + 1]))]
             ELSE [sum EXCEPT !.p = Add(@, NegateIf(digit < 0, table[offset + entry]))])

\* A table that was kept from an earlier call has been normalized.
WNafCached(elm, n, w, kept) ==
  LET table == PrecomputeWindow(elm, w)
  IN  WNafLoop(w, IF kept /\ w # 1 THEN NormalizeZ(table) ELSE table, n, 0,
               [p |-> ZERO, f |-> BASE])

\* Division that rounds to the nearest.
DivNearest(a, b) == (a + b \div 2) \div b

SplitScalar(k) ==
  LET c1 == DivNearest(A1 * k, N)
      c2 == DivNearest(-B1 * k, N)
      k1 == Mod(k - c1 * A1 - c2 * A2, N)
      k2 == Mod(-c1 * B1 - c2 * A1, N)
      Short(n) == IF n > SplitBound THEN N - n ELSE n
  IN  [k1neg |-> k1 > SplitBound, k1 |-> Short(k1),
       k2neg |-> k2 > SplitBound, k2 |-> Short(k2)]

Splits(s) == s.k1 <= SplitBound /\ s.k2 <= SplitBound

\* The second half is moved by the endomorphism.
Join(s, k1p, k2p) ==
  LET moved == NegateIf(s.k2neg, k2p)
  IN  Add(NegateIf(s.k1neg, k1p), [moved EXCEPT !.x = Mul2(@, Beta)])

MultiplyUnsafe(p, n) ==
  IF n = 0 THEN ZERO
  ELSE IF n \notin 1 .. N - 1 THEN NoPoint
  ELSE IF n = 1 THEN p
  ELSE LET s == SplitScalar(n)
       IN  IF ~Splits(s) THEN NoPoint
           ELSE Join(s, UnsafeLadder(p, s.k1), UnsafeLadder(p, s.k2))

JoinWindows(s, first, second) ==
  NormalizeZ(<<Join(s, first.p, second.p), Add(first.f, second.f)>>)[1]

Multiply(p, n, w, kept) ==
  LET s == SplitScalar(n)
  IN  IF n \notin 1 .. N - 1 \/ ~Splits(s) THEN NoPoint
      ELSE JoinWindows(s, WNafCached(p, s.k1, w, kept),
                          WNafCached(p, s.k2, w, kept \/ w # 1))

\* a times the generator plus b times q; only the generator itself has a
\* window, a key that is equal to it has the default of one.
MultiplyAndAddUnsafe(q, a, b, w, kept) ==
  LET Product(p, n, window) == IF n \in {0, 1} \/ ~Equals(p, BASE)
                               THEN MultiplyUnsafe(p, n) ELSE Multiply(p, n, window, kept)
      NotZero(sum) == IF Is0(sum) THEN NoPoint ELSE sum
  IN  NotZero(Add(Product(BASE, a, w), Product(q, b, 1)))

-----------------------------------------------------------------------------
(* Signatures.                                                             *)

LiftX(x) ==
  LET y == SqrtMod(WeierstrassEquation(x), P)
      even == IF y % 2 # 0 THEN Mod(-y, P) ELSE y
  IN  IF x \notin 1 .. P - 1 \/ y = NoElement THEN NoPoint ELSE Point(x, even, 1)

SchnorrVerify(pub, r, s, challenge, w, kept) ==
  LET Accepts(p, sum) ==
        /\ p # NoPoint /\ IsValidPoint(p)
        /\ r \in 1 .. P - 1
        /\ s \in 1 .. N - 1
        /\ sum # NoPoint
        /\ HasEvenY(sum)
        /\ ToAffine(sum, NoElement).x = r
      Verify(p) == Accepts(p, MultiplyAndAddUnsafe(p, s, Mod(-challenge, N), w, kept))
  IN  Verify(LiftX(pub))

\* The scalar whose point has an even y, and that point's x.
ExtPubKey(d, w, kept) ==
  LET Key(p) == [scalar |-> IF HasEvenY(p) THEN d ELSE Mod(-d, N),
                 x |-> ToAffine(p, NoElement).x]
  IN  Key(Multiply(BASE, d, w, kept))

\* The signature of a key and a nonce; it is verified before it is returned.
SchnorrSign(d, k, challenge, w, kept) ==
  LET Signature(key, nonce) ==
        [pub |-> key.x, r |-> nonce.x, s |-> Mod(nonce.scalar + challenge * key.scalar, N)]
  IN  Signature(ExtPubKey(d, w, kept), ExtPubKey(k, w, kept))

-----------------------------------------------------------------------------
(* The reference: chords and tangents on affine points.                    *)

Infinity == [x |-> 0, y |-> 0]

ChordTangent(a, b) ==
  IF a = Infinity THEN b ELSE IF b = Infinity THEN a
  ELSE IF a.x = b.x /\ (a.y + b.y) % P = 0 THEN Infinity
  ELSE LET Over(n, m) == (n * CHOOSE i \in 1 .. P - 1 : (i * m) % P = 1) % P
           slope == IF a = b THEN Over(3 * a.x * a.x + A, (2 * a.y) % P)
                    ELSE Over((b.y - a.y) % P, (b.x - a.x) % P)
           x == (slope * slope - a.x - b.x) % P
       IN  [x |-> x, y |-> (slope * (a.x - x) - a.y) % P]

Times[n \in Nat, a \in [x : 0 .. P - 1, y : 0 .. P - 1]] ==
  IF n = 0 THEN Infinity ELSE ChordTangent(Times[n - 1, a], a)

\* a point with another representation.
Scaled(a, z) == IF a = Infinity THEN Point(0, z, 0)
                ELSE Point(Mul2(a.x, z), Mul2(a.y, z), z)

(* The formulas without cases agree with chords and tangents, whatever the *)
(* representation; equality sees through it; and every way of multiplying, *)
(* ladder, windows of any width with a fresh or a kept table, split by the *)
(* endomorphism, gives the repeated sum (bundle:893-946, 1181-1355).       *)
MultiplesAreSums(a, b, n, w, kept) ==
  LET p == Scaled(a, 2)  q == Scaled(b, P - 1)
      Affine(r) == ToAffine(r, NoElement)
  IN  /\ Affine(Add(p, q)) = ChordTangent(a, b)
      /\ Affine(Double(p)) = ChordTangent(a, a)
      /\ Affine(Add(p, Negate(p))) = Infinity
      /\ Equals(p, q) <=> a = b
      /\ n \in 1 .. N - 1 =>
           /\ Affine(Multiply(p, n, w, kept)) = Times[n, a]
           /\ Affine(MultiplyUnsafe(p, n)) = Times[n, a]
           /\ Affine(UnsafeLadder(p, n)) = Times[n, a]

(* A signature made with a key is accepted, unless its s came out as zero, *)
(* and one is accepted just when s*G = R + e*P for the points with even y  *)
(* that the key and r stand for (bundle:1866-1920).                        *)
VerificationIsSound(d, k, s, e, w, kept) ==
  LET G == [x |-> Gx, y |-> Gy]
      Even(x) == CHOOSE a \in [x : {x}, y : 0 .. P - 1] :
                   a.y % 2 = 0 /\ (a.y * a.y) % P = WeierstrassEquation(x)
      Signs(t, made) == Times[t, G] = ChordTangent(Even(made.r), Times[e, Even(made.pub)])
      Sound(made) ==
        /\ Signs(made.s, made)
        /\ \A t \in {s, made.s} : SchnorrVerify(made.pub, made.r, t, e, w, kept)
                                   <=> t \in 1 .. N - 1 /\ Signs(t, made)
  IN  Sound(SchnorrSign(d, k, e, w, kept))
=============================================================================
