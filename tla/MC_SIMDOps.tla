----------------------------- MODULE MC_SIMDOps -----------------------------
(***************************************************************************)
(* SIMDOps for TLC with 6-bit lanes: a float lane has 3 exponent and 2     *)
(* fraction bits (values 1/16 .. 14, Inf, NaN), an int lane is -32 .. 31.  *)
(* Products and quotients of such lanes stay well inside TLC's integers.  *)
(*                                                                         *)
(* The two float vectors pair, lane by lane: an ordinary value with a      *)
(* negative one (1.5, -3: a product that ties, -4.5 -> -4), -0 with +0, a  *)
(* NaN whose sign and payload differ from the canonical NaN with 3, and    *)
(* the largest finite value with itself (sums overflow to Inf).  The int   *)
(* vectors hold all ones, 0, a lane that is no flag (5), the minimum and   *)
(* maximum, and patterns that are NaNs when read as floats (29, 31, 63),   *)
(* so bit casts and select meet non-canonical masks and NaN payloads.      *)
(***************************************************************************)
EXTENDS SIMDOps

MCF1 == Float32x4V(<<FloatBits(Frac(3, 2)), FloatBits(MinusZero), 2^(W - 1) + 29, FiniteTop>>)
MCF2 == Float32x4V(<<FloatBits(Int2Num(-3)), 0, FloatBits(Int2Num(3)), FiniteTop>>)
MCI1 == Int32x4V(<<2^W - 1, 0, 5, 2^(W - 1)>>)
MCI2 == Int32x4V(<<2^(W - 1) - 1, 1, 29, 2^W - 1>>)

MCOperands == {MCF1, MCF2, WrapperV(MCF1), MCI1, MCI2, WrapperV(MCI2), NumberV(Int2Num(1))}

\* Lane arguments: numbers that round, truncate and test false, a string,
\* and an object whose valueOf throws; 9/8 and 5/4 are scalars that are no
\* float lane or give products between two lanes.
MCScalars == {NumberV(Int2Num(3)), NumberV(Frac(-1, 2)), NumberV(Frac(9, 8)),
              NumberV(Frac(5, 4)), NumberV(NaN), NumberV(MinusZero),
              StringV("0.5"), ThrowingObjectV}

\* Shift counts around the lane width W, a negative one and a throwing one.
MCCounts == {NumberV(Int2Num(c)) : c \in {0, 1, W - 1, W, W + 1, -1}} \cup {ThrowingObjectV}

\* Masks at and past both ends of 0..255, the identity 0xE4 and reversal
\* 0x1B, a fraction, a numeric string, and a throwing object.
MCMasks == {NumberV(Int2Num(m)) : m \in {0, 255, 256, -1, 228, 27}}
           \cup {NumberV(Frac(457, 2)), StringV("228"), ThrowingObjectV}
=============================================================================
