----------------------------- MODULE SIMDLanes -----------------------------
(***************************************************************************)
(* The data a lane of a SIMD value holds, and the conversions between JS   *)
(* numbers and lanes that simd128.js relies on.                            *)
(*                                                                         *)
(* A lane is a bit pattern of W bits (W = 32 in V8).  TLC's integers are   *)
(* 32-bit, so the model scales a lane down to W = 1 + EBITS + MBITS bits:  *)
(* an int32x4 lane is a W-bit two's-complement integer and a float32x4     *)
(* lane is an IEEE-754 binary number with EBITS exponent and MBITS         *)
(* fraction bits (binary32 has 8 and 23).  Rounding to nearest-even,       *)
(* signed zeros, infinities, NaN and subnormals keep their IEEE meaning.   *)
(*                                                                         *)
(* A JS Number is [cls, sgn, mag]: cls is "fin", "inf" or "nan", sgn is    *)
(* 1 or -1 (so -0 is distinct from +0) and mag the magnitude in Units, the *)
(* smallest positive subnormal of the lane format; every lane value and    *)
(* every number the model uses is a whole number of Units.                 *)
(***************************************************************************)
EXTENDS Integers, Bitwise

CONSTANTS EBITS, MBITS

ASSUME EBITS \in 2..5 /\ MBITS \in 1..4

W == 1 + EBITS + MBITS
Bias == 2^(EBITS - 1) - 1
Unit == 2^(Bias + MBITS - 1)
LaneBits == 0..(2^W - 1)
Lanes == 1..4                          \* x, y, z, w
MaxExp == 2^EBITS - 1                  \* exponent field of Inf and NaN

-----------------------------------------------------------------------------
(* JS Numbers *)

Num(c, s, m) == [cls |-> c, sgn |-> s, mag |-> m]
NaN == Num("nan", 1, 0)
MinusZero == Num("fin", -1, 0)
Infinity(s) == Num("inf", s, 0)

\* The JS number n / d (d divides n * Unit).
Frac(n, d) == Num("fin", IF n < 0 THEN -1 ELSE 1,
                  ((IF n < 0 THEN -n ELSE n) * Unit) \div d)
Int2Num(n) == Frac(n, 1)

IsNaN(n) == n.cls = "nan"
IsZero(n) == n.cls = "fin" /\ n.mag = 0

\* The signed value in Units of a finite number.
Signed(n) == n.sgn * n.mag

\* Numeric order of two non-NaN numbers (+0 and -0 are equal).
NumLess(a, b) ==
  CASE a.cls = "inf" /\ b.cls = "inf" -> a.sgn < b.sgn
    [] a.cls = "inf"                  -> a.sgn = -1
    [] b.cls = "inf"                  -> b.sgn = 1
    [] OTHER                          -> Signed(a) < Signed(b)

-----------------------------------------------------------------------------
(* JS integer conversions, scaled to W bits (ECMA-262 ToInt32, ToUint32). *)

\* ToInteger: truncation toward zero; NaN and the infinities give 0.
TruncInt(n) == IF n.cls = "fin" THEN n.sgn * (n.mag \div Unit) ELSE 0

ToUintW(n) == TruncInt(n) % 2^W

\* Division rounding toward -infinity (b > 0), as `>>` shifts; TLC's \div
\* truncates a negative dividend.
FloorDiv(a, b) == (a - (a % b)) \div b

SignedLane(b) == IF b >= 2^(W - 1) THEN b - 2^W ELSE b
ToIntW(n) == SignedLane(ToUintW(n))

\* The JS number an int32x4 lane reads as.
IntLaneValue(b) == Int2Num(SignedLane(b))

\* The sign bit of a lane, of either kind.
SignOf(b) == b \div 2^(W - 1)

-----------------------------------------------------------------------------
(* The float format of a float32x4 lane. *)

ExpField(b) == (b \div 2^MBITS) % 2^EBITS
FracField(b) == b % 2^MBITS
IsNaNBits(b) == ExpField(b) = MaxExp /\ FracField(b) # 0
CanonicalNaN == MaxExp * 2^MBITS + 2^(MBITS - 1)

\* The JS number a float32x4 lane reads as (Float32x4Get* in the runtime).
FloatLaneValue(b) ==
  LET s == IF SignOf(b) = 1 THEN -1 ELSE 1
      e == ExpField(b)
      f == FracField(b)
  IN  CASE e = MaxExp /\ f # 0 -> NaN
        [] e = MaxExp          -> Infinity(s)
        [] e = 0               -> Num("fin", s, f)
        [] OTHER               -> Num("fin", s, (2^MBITS + f) * 2^(e - 1))

\* The exponent field e >= 1 of the binade that holds the magnitude q.
RECURSIVE BinadeOf(_, _)
BinadeOf(q, e) == IF q < 2^(MBITS + 1) * 2^(e - 1) THEN e ELSE BinadeOf(q, e + 1)

\* <<exponent field, significand>> of q rounded to nearest, ties to even.
RoundMag(q) ==
  IF q < 2^MBITS THEN <<0, q>>
  ELSE LET e   == BinadeOf(q, 1)
           u   == 2^(e - 1)
           sig == q \div u
           rem == q % u
           r   == IF 2 * rem > u \/ (2 * rem = u /\ sig % 2 = 1)
                  THEN sig + 1 ELSE sig
       IN  IF r = 2^(MBITS + 1) THEN <<e + 1, 2^MBITS>> ELSE <<e, r>>

\* The lane a JS number is stored as in a float32x4: DoubleToFloat32.
FloatBits(n) ==
  LET s == IF n.sgn = -1 THEN 2^(W - 1) ELSE 0
      r == RoundMag(n.mag)
  IN  CASE n.cls = "nan"   -> CanonicalNaN
        [] n.cls = "inf"   -> s + MaxExp * 2^MBITS
        [] r[1] >= MaxExp  -> s + MaxExp * 2^MBITS
        [] OTHER           -> s + r[1] * 2^MBITS + (r[2] % 2^MBITS)

\* Rounding of a result that is not a whole number of Units (a product, a
\* quotient, a square root).  The result x >= 0 is given by Cmp(h), the
\* sign of 2x - h, i.e. how x compares with h/2 Units.
InfPattern == MaxExp * 2^MBITS
FiniteTop == InfPattern - 1
LaneMag(k) == FloatLaneValue(k).mag
\* The magnitude the pattern after k would have with an unbounded exponent.
NextMag(k) == IF k < FiniteTop THEN LaneMag(k + 1) ELSE 2 * LaneMag(k) - LaneMag(k - 1)

\* The non-negative lane pattern nearest x, ties to even, past the largest
\* finite value to +Inf.
RoundBy(Cmp(_)) ==
  LET p == CHOOSE k \in 0..FiniteTop :
             Cmp(2 * LaneMag(k)) >= 0 /\ (k = FiniteTop \/ Cmp(2 * LaneMag(k + 1)) < 0)
      c == Cmp(LaneMag(p) + NextMag(p))
  IN  IF c < 0 \/ (c = 0 /\ p % 2 = 0) THEN p ELSE p + 1

Sgn(i) == IF i > 0 THEN 1 ELSE IF i < 0 THEN -1 ELSE 0

\* The lane nearest n / d Units.
RoundRatio(n, d) == RoundBy(LAMBDA h : Sgn(2 * n - h * d))

\* A non-negative pattern with the sign bit set when neg holds.
WithSignBit(neg, k) == IF neg THEN 2^(W - 1) + k ELSE k

\* The lane an int32x4 stores for a JS number: NumberToInt32.
IntBits(n) == ToUintW(n)

=============================================================================
