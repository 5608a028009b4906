--------------------------- MODULE MC_SIMDSwizzle ---------------------------
(***************************************************************************)
(* SIMDSwizzle with the 6-bit lanes of MC_SIMDOps.  Every operand has four *)
(* distinct lanes, so a mask that picks a wrong lane shows; a wrapper, an  *)
(* int vector and a number reach the kind checks of each shuffle.  All 256 *)
(* names are tried with every operand (pair).                              *)
(***************************************************************************)
EXTENDS SIMDSwizzle, MC_SIMDOps

MCSwizzleOperands == {MCF1, WrapperV(MCF2), MCI2, NumberV(Int2Num(1))}
=============================================================================
