---------------------------- MODULE MC_SIMDArray ----------------------------
(***************************************************************************)
(* SIMDArray for TLC with 4-bit lanes (the lanes' contents only have to be *)
(* told apart, lane by lane).  Buffers of 24 bytes (one element and an     *)
(* 8-byte tail, so a view without a length fails the alignment check) and  *)
(* 32 bytes (two elements); byte offsets that are aligned, misaligned,     *)
(* equal to the byte length and throwing; lengths that are absent, fit,   *)
(* overrun and throw.  Array-likes that copy, miss an element, hold a      *)
(* wrapper of one kind, or have a throwing length; a SIMD value as the     *)
(* source (no length).  Two buffers and two views let a float view and    *)
(* an int view alias one buffer at different offsets.                     *)
(***************************************************************************)
EXTENDS SIMDArray

MCF == Float32x4V(<<1, 2, 3, 4>>)
MCI == Int32x4V(<<15, 0, 7, 8>>)
N(i) == NumberV(Int2Num(i))

MCByteLengths == {24, 32}
MCFirstArgs ==
  {N(1), StringV("-2"), MCF,
   ArrayLikeV(N(2), <<MCF>>), ArrayLikeV(N(1), <<WrapperV(MCI)>>),
   ArrayLikeV(ThrowingObjectV, <<>>)}
MCOffsetArgs == {N(0), N(8), N(16), N(32), ThrowingObjectV}
MCLengthArgs == {UndefinedV, N(1), N(2), ThrowingObjectV}
MCIndices == {-1, 0, 1, 2}
MCElements == {MCF, WrapperV(MCI), N(1)}
=============================================================================
