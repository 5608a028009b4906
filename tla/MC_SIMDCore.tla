---------------------------- MODULE MC_SIMDCore -----------------------------
(***************************************************************************)
(* SIMDCore for TLC with 8-bit lanes (1 sign, 4 exponent, 3 fraction       *)
(* bits).  The lane arguments cover the ways a JS value reaches a lane:    *)
(* a number that float32 rounds (17 -> 16) and int32 keeps, one that       *)
(* int32 wraps (-130 -> 126), -0 and NaN, a numeric string, an object      *)
(* whose valueOf answers and one whose valueOf throws (booleans and        *)
(* undefined take the string's NonNumberToNumber path).  The receivers     *)
(* are raw values and wrappers of both kinds, with negative, -0,           *)
(* signed-NaN, infinite, all-ones and non-flag lanes, and two receivers    *)
(* of neither kind.                                                        *)
(***************************************************************************)
EXTENDS SIMDCore

MCLaneArgs ==
  { NumberV(Int2Num(17)), NumberV(Int2Num(-130)), NumberV(MinusZero),
    NumberV(NaN), StringV("0.5"), ObjectV(Int2Num(-3)), ThrowingObjectV }

MCFloat == Float32x4V(<<FloatBits(Int2Num(-1)), FloatBits(MinusZero),
                        CanonicalNaN + 2^(W - 1), FloatBits(Infinity(1))>>)
MCInt == Int32x4V(<<2^W - 1, 0, 5, 2^(W - 1)>>)

MCReceivers ==
  { MCFloat, MCInt, WrapperV(MCFloat), WrapperV(MCInt),
    NumberV(Int2Num(1)), ObjectV(Int2Num(0)) }

=============================================================================
