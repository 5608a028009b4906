----------------------------- MODULE SIMDSwizzle -----------------------------
(***************************************************************************)
(* The Swizzle Mask Codec of simd128.js (SetUpSIMD, lines 735-990): the    *)
(* 256 read-only properties SIMD.XXXX .. SIMD.WWWW, each an 8-bit mask     *)
(* for the shuffles, and the shuffles a client makes with them.            *)
(*                                                                         *)
(* A name is the tuple of lanes its four letters select (X = 1 .. W = 4).  *)
(* The code sets the properties in the order of the names read as base-4   *)
(* numerals, first letter most significant (XXXX, XXXY, .., WWWW), so the  *)
(* constants are the sequences below, in the code's order and values.      *)
(***************************************************************************)
EXTENDS SIMDOps

Names == [1..4 -> Lanes]

\* The position of a name among the property definitions.
NameIndex(n) == (n[1] - 1) * 64 + (n[2] - 1) * 16 + (n[3] - 1) * 4 + (n[4] - 1)

\* Lines 735-862: SIMD.XXXX .. SIMD.YWWW.
SwizzleXY == <<
  \h00, \h40, \h80, \hC0, \h10, \h50, \h90, \hD0, \h20, \h60, \hA0, \hE0, \h30, \h70, \hB0, \hF0,
  \h04, \h44, \h84, \hC4, \h14, \h54, \h94, \hD4, \h24, \h64, \hA4, \hE4, \h34, \h74, \hB4, \hF4,
  \h08, \h48, \h88, \hC8, \h18, \h58, \h98, \hD8, \h28, \h68, \hA8, \hE8, \h38, \h78, \hB8, \hF8,
  \h0C, \h4C, \h8C, \hCC, \h1C, \h5C, \h9C, \hDC, \h2C, \h6C, \hAC, \hEC, \h3C, \h7C, \hBC, \hFC,
  \h01, \h41, \h81, \hC1, \h11, \h51, \h91, \hD1, \h21, \h61, \hA1, \hE1, \h31, \h71, \hB1, \hF1,
  \h05, \h45, \h85, \hC5, \h15, \h55, \h95, \hD5, \h25, \h65, \hA5, \hE5, \h35, \h75, \hB5, \hF5,
  \h09, \h49, \h89, \hC9, \h19, \h59, \h99, \hD9, \h29, \h69, \hA9, \hE9, \h39, \h79, \hB9, \hF9,
  \h0D, \h4D, \h8D, \hCD, \h1D, \h5D, \h9D, \hDD, \h2D, \h6D, \hAD, \hED, \h3D, \h7D, \hBD, \hFD >>

\* Lines 863-990: SIMD.ZXXX .. SIMD.WWWW.
SwizzleZW == <<
  \h02, \h42, \h82, \hC2, \h12, \h52, \h92, \hD2, \h22, \h62, \hA2, \hE2, \h32, \h72, \hB2, \hF2,
  \h06, \h46, \h86, \hC6, \h16, \h56, \h96, \hD6, \h26, \h66, \hA6, \hE6, \h36, \h76, \hB6, \hF6,
  \h0A, \h4A, \h8A, \hCA, \h1A, \h5A, \h9A, \hDA, \h2A, \h6A, \hAA, \hEA, \h3A, \h7A, \hBA, \hFA,
  \h0E, \h4E, \h8E, \hCE, \h1E, \h5E, \h9E, \hDE, \h2E, \h6E, \hAE, \hEE, \h3E, \h7E, \hBE, \hFE,
  \h03, \h43, \h83, \hC3, \h13, \h53, \h93, \hD3, \h23, \h63, \hA3, \hE3, \h33, \h73, \hB3, \hF3,
  \h07, \h47, \h87, \hC7, \h17, \h57, \h97, \hD7, \h27, \h67, \hA7, \hE7, \h37, \h77, \hB7, \hF7,
  \h0B, \h4B, \h8B, \hCB, \h1B, \h5B, \h9B, \hDB, \h2B, \h6B, \hAB, \hEB, \h3B, \h7B, \hBB, \hFB,
  \h0F, \h4F, \h8F, \hCF, \h1F, \h5F, \h9F, \hDF, \h2F, \h6F, \hAF, \hEF, \h3F, \h7F, \hBF, \hFF >>

\* Variant: the property looked up with the letters read last-first.
SIMDMaskReversed(n) ==
  LET k == (n[4] - 1) * 64 + (n[3] - 1) * 16 + (n[2] - 1) * 4 + (n[1] - 1)
  IN  IF k < 128 THEN SwizzleXY[k + 1] ELSE SwizzleZW[k - 127]

\* The value of SIMD[name].
SIMDMask(n) ==
  IF NameIndex(n) < 128 THEN SwizzleXY[NameIndex(n) + 1]
  ELSE SwizzleZW[NameIndex(n) - 127]
-----------------------------------------------------------------------------
(* A client shuffles with the named constants. *)

MaskArg(n) == NumberV(Int2Num(SIMDMask(n)))

\* `SIMD.float32x4.shuffle(t, SIMD.XYZW)` and `SIMD.int32x4.shuffle(...)`.
CallShuffleNamed ==
  \E fn \in {"SIMDShuffle", "SIMDShuffleu32"}, t \in Operands, n \in Names :
    OpInvoke(fn, <<t, MaskArg(n)>>)

\* `SIMD.float32x4.shuffleMix(a, b, SIMD.XYZW)`.
CallShuffleMixNamed ==
  \E a, b \in Operands, n \in Names : OpInvoke("SIMDShuffleMix", <<a, b, MaskArg(n)>>)

SwizzleNext == CallShuffleNamed \/ CallShuffleMixNamed \/ TakeResult

SwizzleSpec == Init /\ [][SwizzleNext]_vars

-----------------------------------------------------------------------------
(* Properties *)

\* The lanes a named shuffle draws from for result lane p.
SourceLanes(p) ==
  CASE call = "SIMDShuffleu32" -> CheckedInt(args[1]).lanes
    [] call = "SIMDShuffleMix" /\ p > 2 -> CheckedFloat(args[2]).lanes
    [] OTHER -> CheckedFloat(args[1]).lanes

\* Every constant SIMD.<name> makes shuffle, shuffleu32 and shuffleMix put,
\* in result lane p, the source lane the p-th letter of the name names
\* (shuffleMix taking z and w from its second operand): the 256 constants
\* of SetUpSIMD encode their names as the shuffles decode masks.
SwizzleNamesSelectLanes ==
  (call # "none" /\ ~IsThrow(ret)) =>
    \A n \in Names :
      MaskArg(n) = args[Len(args)] =>
        ret.lanes = [p \in Lanes |-> SourceLanes(p)[n[p]]]
=============================================================================
