------------------------------ MODULE SIMDOps ------------------------------
(***************************************************************************)
(* The Vector Operation Set of simd128.js (lines 302-729) and the function *)
(* tables SetUpSIMD installs for it (lines 994-1059).                      *)
(*                                                                         *)
(* Every operation coerces its vector operands (TO_FLOAT32x4 / TO_INT32x4 *)
(* unwrap a wrapper, CHECK_* throws TypeError for any other kind), coerces *)
(* its scalar operand, and hands the result to a runtime kernel; the float *)
(* bitwise operations are compositions of the int ones through bit casts;  *)
(* the shifts are computed in JS on the lanes read back as numbers.  The   *)
(* client makes one call per step, as in SIMDCore.                         *)
(***************************************************************************)
EXTENDS SIMDCore, Sequences

CONSTANTS
  Operands,   \* vector operands: raw values, wrappers and foreign values
  Scalars,    \* lane arguments of scale, with*, withFlag*
  Counts,     \* shift counts
  Masks       \* shuffle masks

-----------------------------------------------------------------------------
(* The runtime kernels (%SIMDAdd, ... in the C++ runtime, not in this     *)
(* file), lane by lane, from spec 4.2.  A float kernel rounds its exact    *)
(* IEEE result once to the lane format.                                    *)

FLV(b) == FloatLaneValue(b)
Negated(n) == [n EXCEPT !.sgn = -n.sgn]
IsInf(n) == n.cls = "inf"

NumAdd(a, b) ==
  LET s == Signed(a) + Signed(b) IN
  CASE IsNaN(a) \/ IsNaN(b)                      -> CanonicalNaN
    [] IsInf(a) /\ IsInf(b) /\ a.sgn # b.sgn     -> CanonicalNaN
    [] IsInf(a)                                  -> WithSignBit(a.sgn = -1, InfPattern)
    [] IsInf(b)                                  -> WithSignBit(b.sgn = -1, InfPattern)
    [] s = 0                   -> WithSignBit(a.sgn = -1 /\ b.sgn = -1, 0)
    [] OTHER                   -> WithSignBit(s < 0, RoundRatio(IF s < 0 THEN -s ELSE s, 1))

NumMul(a, b) ==
  LET neg == a.sgn # b.sgn IN
  CASE IsNaN(a) \/ IsNaN(b)                            -> CanonicalNaN
    [] (IsInf(a) /\ IsZero(b)) \/ (IsZero(a) /\ IsInf(b)) -> CanonicalNaN
    [] IsInf(a) \/ IsInf(b)    -> WithSignBit(neg, InfPattern)
    [] OTHER                   -> WithSignBit(neg, RoundRatio(a.mag * b.mag, Unit))

NumDiv(a, b) ==
  LET neg == a.sgn # b.sgn IN
  CASE IsNaN(a) \/ IsNaN(b)                                -> CanonicalNaN
    [] (IsZero(a) /\ IsZero(b)) \/ (IsInf(a) /\ IsInf(b))  -> CanonicalNaN
    [] IsInf(a) \/ IsZero(b)   -> WithSignBit(neg, InfPattern)
    [] IsInf(b)                -> WithSignBit(neg, 0)
    [] OTHER                   -> WithSignBit(neg, RoundRatio(a.mag * Unit, b.mag))

\* sqrt(m Units) is sqrt(m * Unit) Units; 1/sqrt(m Units) is sqrt(Unit^3 / m).
NumSqrt(a) ==
  CASE IsNaN(a) \/ (a.sgn = -1 /\ ~IsZero(a)) -> CanonicalNaN
    [] IsZero(a) \/ IsInf(a)                  -> FloatBits(a)
    [] OTHER -> RoundBy(LAMBDA h : Sgn(4 * a.mag * Unit - h * h))

NumReciprocalSqrt(a) ==
  CASE IsNaN(a) \/ (a.sgn = -1 /\ ~IsZero(a)) -> CanonicalNaN
    [] IsZero(a)                              -> WithSignBit(a.sgn = -1, InfPattern)
    [] IsInf(a)                               -> 0
    [] OTHER -> RoundBy(LAMBDA h : Sgn(4 * Unit * Unit * Unit - h * h * a.mag))

\* The order of min, max and clamp: -0 below +0; NaN is unordered.
FLess(a, b) == NumLess(a, b) \/ (IsZero(a) /\ IsZero(b) /\ a.sgn < b.sgn)

\* One float lane x (and y) under the kernel named k.
FloatKernel(k, x, y) ==
  LET a == FLV(x)  b == FLV(y) IN
  CASE k = "abs"            -> x % 2^(W - 1)
    [] k = "neg"            -> (x + 2^(W - 1)) % 2^W
    [] k = "add"            -> NumAdd(a, b)
    [] k = "sub"            -> NumAdd(a, Negated(b))
    [] k = "mul"            -> NumMul(a, b)
    [] k = "div"            -> NumDiv(a, b)
    [] k = "min"            -> IF IsNaN(a) \/ IsNaN(b) THEN CanonicalNaN
                               ELSE IF FLess(b, a) THEN y ELSE x
    [] k = "max"            -> IF IsNaN(a) \/ IsNaN(b) THEN CanonicalNaN
                               ELSE IF FLess(a, b) THEN y ELSE x
    [] k = "reciprocal"     -> NumDiv(Int2Num(1), a)
    [] k = "reciprocalSqrt" -> NumReciprocalSqrt(a)
    [] k = "sqrt"           -> NumSqrt(a)

\* JS `a < b` and `a == b` on numbers: false when either is NaN.
JsLess(a, b) == ~IsNaN(a) /\ ~IsNaN(b) /\ NumLess(a, b)
JsEq(a, b) == ~IsNaN(a) /\ ~IsNaN(b) /\ ~NumLess(a, b) /\ ~NumLess(b, a)

\* %SIMDClamp: t < lo ? lo : (t > hi ? hi : t), lane by lane.
ClampLane(t, lo, hi) ==
  IF JsLess(FLV(t), FLV(lo)) THEN lo ELSE IF JsLess(FLV(hi), FLV(t)) THEN hi ELSE t

\* A comparison result lane: all ones for true, 0 for false.
TruthLane(p) == IF p THEN 2^W - 1 ELSE 0

\* %SIMDLessThan .. %SIMDGreaterThan on one pair of float lanes.
CompareKernel(k, x, y) ==
  LET a == FLV(x)  b == FLV(y) IN
  TruthLane(CASE k = "lessThan"           -> JsLess(a, b)
              [] k = "lessThanOrEqual"    -> JsLess(a, b) \/ JsEq(a, b)
              [] k = "equal"              -> JsEq(a, b)
              [] k = "notEqual"           -> ~JsEq(a, b)
              [] k = "greaterThanOrEqual" -> JsLess(b, a) \/ JsEq(a, b)
              [] k = "greaterThan"        -> JsLess(b, a))

LaneNot(x) == 2^W - 1 - x

\* The int kernels on one pair of lanes: W-bit wrap-around arithmetic,
\* bitwise logic and unsigned comparison (%SIMDAnd .. %SIMDGreaterThanu32).
IntKernel(k, x, y) ==
  CASE k = "and"         -> x & y
    [] k = "or"          -> x | y
    [] k = "xor"         -> x ^^ y
    [] k = "not"         -> LaneNot(x)
    [] k = "neg"         -> (2^W - x) % 2^W
    [] k = "add"         -> (x + y) % 2^W
    [] k = "sub"         -> (x + 2^W - y) % 2^W
    [] k = "mul"         -> (x * y) % 2^W
    [] k = "equal"       -> TruthLane(x = y)
    [] k = "greaterThan" -> TruthLane(x > y)

\* %SIMDSelect: the bitwise blend (mask & t) | (~mask & f) (spec 4.2).
SelectLane(m, t, f) == (m & t) | (LaneNot(m) & f)

\* The 2-bit selector of output lane i in a shuffle mask (spec 3).
Selector(m, i) == (m \div 4^(i - 1)) % 4

\* The mask a JS value gives under TO_INT32 (masks are not lanes, so no
\* scaling: the values used are far below 2^31).
MaskInt32(v) == TruncInt(ToNumberV(v).num)

\* %SIMDShuffle, %SIMDShuffleu32, %SIMDShuffleMix receive the mask as the
\* caller passed it (lines 404, 414, 426).  A number is read with
\* NumberToInt32; for anything else the runtime either rejects it (-1) or
\* converts it itself.
RuntimeMasks(mask) ==
  IF IS_NUMBER(mask) THEN {MaskInt32(mask)} ELSE {-1, MaskInt32(mask)}

\* The lanes of a shuffle of a (and of b for shuffleMix, which takes x and
\* y from a and z and w from b) by the mask m.
Shuffled(a, b, m) == [i \in Lanes |-> IF i <= 2 THEN a[Selector(m, i) + 1]
                                               ELSE b[Selector(m, i) + 1]]

-----------------------------------------------------------------------------
(* The operations (lines 302-729). *)

\* `t = TO_FLOAT32x4(t); CHECK_FLOAT32x4(t);` and the int32x4 analogue.
CheckedFloat(v) == LET u == Float32x4Unwrap(v) IN IF IS_FLOAT32x4(u) THEN u ELSE Throw("TypeError")
CheckedInt(v) == LET u == Int32x4Unwrap(v) IN IF IS_INT32x4(u) THEN u ELSE Throw("TypeError")

\* TO_UINT32(x): ToNumber, then ToUint32 (kept to the lane width, since the
\* value only ever becomes a lane).
TO_UINT32(v) ==
  LET n == ToNumberV(v) IN IF IsThrow(n) THEN n ELSE NumberV(Int2Num(ToUintW(n.num)))

\* The statements of a call run in order: the first that throws ends it,
\* otherwise Body computes the result from their values.
Do(steps, Body(_)) == IF Raised(steps) THEN FirstRaised(steps) ELSE Body(steps)

\* SIMDAbs, SIMDNeg, SIMDReciprocal, SIMDReciprocalSqrt, SIMDSqrt.
FloatUnary(k, t) ==
  Do(<<CheckedFloat(t)>>,
     LAMBDA s : Float32x4V([i \in Lanes |-> FloatKernel(k, s[1].lanes[i], 0)]))

\* SIMDAdd, SIMDSub, SIMDMul, SIMDDiv, SIMDMin, SIMDMax.
FloatBinary(k, a, b) ==
  Do(<<CheckedFloat(a), CheckedFloat(b)>>,
     LAMBDA s : Float32x4V([i \in Lanes |-> FloatKernel(k, s[1].lanes[i], s[2].lanes[i])]))

SIMDClamp(t, lowerLimit, upperLimit) ==
  Do(<<CheckedFloat(t), CheckedFloat(lowerLimit), CheckedFloat(upperLimit)>>,
     LAMBDA s : Float32x4V([i \in Lanes |->
                  ClampLane(s[1].lanes[i], s[2].lanes[i], s[3].lanes[i])]))

\* The scalar is coerced with ToNumber and passed as the double (line 387);
\* what %SIMDScale does with it is not in this file: the lane product of
\* the double, rounded once, is the reading spec 9 recommends.
SIMDScale(t, s) ==
  Do(<<CheckedFloat(t), ToNumberV(s)>>,
     LAMBDA st : Float32x4V([i \in Lanes |-> NumMul(FLV(st[1].lanes[i]), st[2].num)]))

\* Variant: the upper bound of the mask check off by one.
MaskCheckOffByOne(mask) ==
  LET n == ToNumberV(mask) IN
  CASE IsThrow(n)                                  -> n
    [] MaskInt32(mask) < 0 \/ MaskInt32(mask) > 256 -> Throw("RangeError")
    [] OTHER                                       -> n

\* `var value = TO_INT32(mask); if ((value < 0) || (value > 0xFF)) throw`
MaskCheck(mask) ==
  LET n == ToNumberV(mask) IN
  CASE IsThrow(n)                                  -> n
    [] MaskInt32(mask) < 0 \/ MaskInt32(mask) > 255 -> Throw("RangeError")
    [] OTHER                                       -> n

\* The runtime shuffle on the checked operands, with the raw mask.
ShuffleResults(Make(_), a, b, mask) ==
  {IF m = -1 THEN Throw("RuntimeError") ELSE Make(Shuffled(a, b, m)) : m \in RuntimeMasks(mask)}

SIMDShuffle(t, mask) ==
  LET s == <<CheckedFloat(t), MaskCheck(mask)>> IN
  IF Raised(s) THEN {FirstRaised(s)}
  ELSE ShuffleResults(Float32x4V, s[1].lanes, s[1].lanes, mask)

SIMDShuffleu32(t, mask) ==
  LET s == <<CheckedInt(t), MaskCheck(mask)>> IN
  IF Raised(s) THEN {FirstRaised(s)}
  ELSE ShuffleResults(Int32x4V, s[1].lanes, s[1].lanes, mask)

SIMDShuffleMix(a, b, mask) ==
  LET s == <<CheckedFloat(a), CheckedFloat(b), MaskCheck(mask)>> IN
  IF Raised(s) THEN {FirstRaised(s)}
  ELSE ShuffleResults(Float32x4V, s[1].lanes, s[2].lanes, mask)

\* SIMDWithX .. SIMDWithW: lane i of t replaced by the coerced number.
FloatWith(i, t, x) ==
  Do(<<CheckedFloat(t), ToNumberV(x)>>,
     LAMBDA s : Float32x4V([s[1].lanes EXCEPT ![i] = FloatBits(s[2].num)]))

SIMDToFloat32x4(t) ==
  Do(<<CheckedInt(t)>>,
     LAMBDA s : Float32x4V([i \in Lanes |-> FloatBits(IntLaneValue(s[1].lanes[i]))]))

SIMDBitsToFloat32x4(t) == Do(<<CheckedInt(t)>>, LAMBDA s : Float32x4V(s[1].lanes))

SIMDToInt32x4(t) ==
  Do(<<CheckedFloat(t)>>,
     LAMBDA s : Int32x4V([i \in Lanes |-> IntBits(FLV(s[1].lanes[i]))]))

SIMDBitsToInt32x4(t) == Do(<<CheckedFloat(t)>>, LAMBDA s : Int32x4V(s[1].lanes))

\* SIMDLessThan .. SIMDGreaterThan.
FloatCompare(k, t, other) ==
  Do(<<CheckedFloat(t), CheckedFloat(other)>>,
     LAMBDA s : Int32x4V([i \in Lanes |-> CompareKernel(k, s[1].lanes[i], s[2].lanes[i])]))

\* SIMDNot, SIMDNegu32.
IntUnary(k, t) ==
  Do(<<CheckedInt(t)>>, LAMBDA s : Int32x4V([i \in Lanes |-> IntKernel(k, s[1].lanes[i], 0)]))

\* SIMDAnd, SIMDOr, SIMDXor, SIMDAddu32, SIMDSubu32, SIMDMulu32, and
\* SIMDEqualu32, SIMDGreaterThanu32.
IntBinary(k, a, b) ==
  Do(<<CheckedInt(a), CheckedInt(b)>>,
     LAMBDA s : Int32x4V([i \in Lanes |-> IntKernel(k, s[1].lanes[i], s[2].lanes[i])]))

\* SIMDAndf32, SIMDOrf32, SIMDXorf32: both operands to int32x4 by bit cast,
\* the int operation, and the result back by bit cast.
Float32Bitwise(k, a, b) ==
  Do(<<SIMDBitsToInt32x4(a), SIMDBitsToInt32x4(b)>>,
     LAMBDA s : SIMDBitsToFloat32x4(IntBinary(k, s[1], s[2])))

SIMDNotf32(t) ==
  Do(<<SIMDBitsToInt32x4(t)>>, LAMBDA s : SIMDBitsToFloat32x4(IntUnary("not", s[1])))

\* Variant: the mask checked as a float32x4.
SIMDSelectMaskAsFloat(t, trueValue, falseValue) ==
  Do(<<CheckedFloat(t), CheckedFloat(trueValue), CheckedFloat(falseValue)>>,
     LAMBDA s : Float32x4V([i \in Lanes |->
                  SelectLane(s[1].lanes[i], s[2].lanes[i], s[3].lanes[i])]))

\* Variant: trueValue and falseValue handed to the runtime swapped.
SIMDSelectSwapped(t, trueValue, falseValue) ==
  Do(<<CheckedInt(t), CheckedFloat(trueValue), CheckedFloat(falseValue)>>,
     LAMBDA s : Float32x4V([i \in Lanes |->
                  SelectLane(s[1].lanes[i], s[3].lanes[i], s[2].lanes[i])]))

SIMDSelect(t, trueValue, falseValue) ==
  Do(<<CheckedInt(t), CheckedFloat(trueValue), CheckedFloat(falseValue)>>,
     LAMBDA s : Float32x4V([i \in Lanes |->
                  SelectLane(s[1].lanes[i], s[2].lanes[i], s[3].lanes[i])]))

\* SIMDWithXu32 .. SIMDWithWu32.
IntWith(i, t, x) ==
  Do(<<CheckedInt(t), TO_UINT32(x)>>,
     LAMBDA s : Int32x4V([s[1].lanes EXCEPT ![i] = IntBits(s[2].num)]))

\* Variant: the flag handed over without ToBoolean, so only `true` sets it.
FlagWithUncoerced(i, t, x) ==
  Do(<<CheckedInt(t)>>, LAMBDA s : Int32x4V([s[1].lanes EXCEPT ![i] = TruthLane(x = BooleanV(TRUE))]))

\* SIMDWithFlagX .. SIMDWithFlagW.
FlagWith(i, t, x) ==
  Do(<<CheckedInt(t)>>, LAMBDA s : Int32x4V([s[1].lanes EXCEPT ![i] = TruthLane(ToBoolean(x))]))

SIMDGreaterThanu32(t, other) == IntBinary("greaterThan", t, other)

\* Variant: the operands not swapped.
SIMDLessThanu32NoSwap(t, other) == SIMDGreaterThanu32(t, other)

SIMDLessThanu32(t, other) == SIMDGreaterThanu32(other, t)

\* JS `l << c`, `l >>> c` and `l >> c` for an int32 lane value l and a
\* count c already reduced by the shift operator.  `>>>` makes l unsigned,
\* so its result can exceed the int32 range (line 713).
JsShift(op, l, c) ==
  CASE op = "<<"  -> SignedLane((l * 2^c) % 2^W)
    [] op = ">>>" -> (l % 2^W) \div 2^c
    [] op = ">>"  -> FloorDiv(l, 2^c)

\* The shift operators use ToUint32(s) & 31, the count modulo the lane width.
ShiftCount(n) == TruncInt(n) % W

\* Variant: the shifted numbers stored as they are, without %CreateInt32x4.
ShiftWithoutCreate(op, t, s) ==
  LET st == <<CheckedInt(t), ToNumberV(s)>> IN
  IF Raised(st) THEN {FirstRaised(st)}
  ELSE {Int32x4V([i \in Lanes |->
          JsShift(op, TruncInt(Int32x4GetLane(st[1], i).num), ShiftCount(st[2].num))])}

\* SIMDShiftLeftu32, SIMDShiftRightu32, SIMDShiftRightArithmeticu32: each
\* lane read through the getter (t.x), shifted in JS, and the four numbers
\* handed to %CreateInt32x4.
Shift(op, t, s) ==
  LET st == <<CheckedInt(t), ToNumberV(s)>> IN
  IF Raised(st) THEN {FirstRaised(st)}
  ELSE CreateInt32x4([i \in Lanes |->
         NumberV(Int2Num(JsShift(op, TruncInt(Int32x4GetLane(st[1], i).num),
                                 ShiftCount(st[2].num))))])

-----------------------------------------------------------------------------
(* The function tables of SetUpSIMD (lines 994-1059): the library names   *)
(* a client calls, grouped by the shape of their code.                     *)

FloatUnaryKernel == [SIMDAbs |-> "abs", SIMDNeg |-> "neg", SIMDReciprocal |-> "reciprocal",
                     SIMDReciprocalSqrt |-> "reciprocalSqrt", SIMDSqrt |-> "sqrt"]
FloatBinaryKernel == [SIMDAdd |-> "add", SIMDSub |-> "sub", SIMDMul |-> "mul",
                      SIMDDiv |-> "div", SIMDMin |-> "min", SIMDMax |-> "max"]
\* Variant: greaterThanOrEqual and greaterThan wired to each other's kernel.
FloatCompareKernelSwapped ==
  [SIMDLessThan |-> "lessThan", SIMDLessThanOrEqual |-> "lessThanOrEqual",
   SIMDEqual |-> "equal", SIMDNotEqual |-> "notEqual",
   SIMDGreaterThanOrEqual |-> "greaterThan", SIMDGreaterThan |-> "greaterThanOrEqual"]

FloatCompareKernel == [SIMDLessThan |-> "lessThan", SIMDLessThanOrEqual |-> "lessThanOrEqual",
                       SIMDEqual |-> "equal", SIMDNotEqual |-> "notEqual",
                       SIMDGreaterThanOrEqual |-> "greaterThanOrEqual",
                       SIMDGreaterThan |-> "greaterThan"]
\* Variant: SIMDSubu32 calling the add kernel.
IntBinaryKernelSubAsAdd ==
  [SIMDAnd |-> "and", SIMDOr |-> "or", SIMDXor |-> "xor",
   SIMDAddu32 |-> "add", SIMDSubu32 |-> "add", SIMDMulu32 |-> "mul",
   SIMDEqualu32 |-> "equal", SIMDGreaterThanu32 |-> "greaterThan"]

IntBinaryKernel == [SIMDAnd |-> "and", SIMDOr |-> "or", SIMDXor |-> "xor",
                    SIMDAddu32 |-> "add", SIMDSubu32 |-> "sub", SIMDMulu32 |-> "mul",
                    SIMDEqualu32 |-> "equal", SIMDGreaterThanu32 |-> "greaterThan"]
IntUnaryKernel == [SIMDNot |-> "not", SIMDNegu32 |-> "neg"]
\* Variant: SIMDXorf32 calling SIMDOr.
Float32BitwiseKernelXorAsOr == [SIMDAndf32 |-> "and", SIMDOrf32 |-> "or", SIMDXorf32 |-> "or"]

Float32BitwiseKernel == [SIMDAndf32 |-> "and", SIMDOrf32 |-> "or", SIMDXorf32 |-> "xor"]
\* Variant: shiftRight using the signed `>>`.
ShiftOperatorSigned == [SIMDShiftLeftu32 |-> "<<", SIMDShiftRightu32 |-> ">>",
                        SIMDShiftRightArithmeticu32 |-> ">>"]

ShiftOperator == [SIMDShiftLeftu32 |-> "<<", SIMDShiftRightu32 |-> ">>>",
                  SIMDShiftRightArithmeticu32 |-> ">>"]
Conversions == {"SIMDToFloat32x4", "SIMDBitsToFloat32x4", "SIMDToInt32x4", "SIMDBitsToInt32x4"}
\* withX..withW, withXu32..withWu32, withFlagX..withFlagW: lane index by name.
FloatWithLane == [SIMDWithX |-> 1, SIMDWithY |-> 2, SIMDWithZ |-> 3, SIMDWithW |-> 4]
IntWithLane == [SIMDWithXu32 |-> 1, SIMDWithYu32 |-> 2, SIMDWithZu32 |-> 3, SIMDWithWu32 |-> 4]
FlagWithLane == [SIMDWithFlagX |-> 1, SIMDWithFlagY |-> 2, SIMDWithFlagZ |-> 3,
                 SIMDWithFlagW |-> 4]

\* The outcomes of calling the operation fn on the arguments a.
OpOutcomes(fn, a) ==
  CASE fn \in DOMAIN FloatUnaryKernel    -> {FloatUnary(FloatUnaryKernel[fn], a[1])}
    [] fn \in DOMAIN FloatBinaryKernel   -> {FloatBinary(FloatBinaryKernel[fn], a[1], a[2])}
    [] fn \in DOMAIN FloatCompareKernel  -> {FloatCompare(FloatCompareKernel[fn], a[1], a[2])}
    [] fn \in DOMAIN IntBinaryKernel     -> {IntBinary(IntBinaryKernel[fn], a[1], a[2])}
    [] fn \in DOMAIN IntUnaryKernel      -> {IntUnary(IntUnaryKernel[fn], a[1])}
    [] fn \in DOMAIN Float32BitwiseKernel -> {Float32Bitwise(Float32BitwiseKernel[fn], a[1], a[2])}
    [] fn \in DOMAIN ShiftOperator       -> Shift(ShiftOperator[fn], a[1], a[2])
    [] fn \in DOMAIN FloatWithLane       -> {FloatWith(FloatWithLane[fn], a[1], a[2])}
    [] fn \in DOMAIN IntWithLane         -> {IntWith(IntWithLane[fn], a[1], a[2])}
    [] fn \in DOMAIN FlagWithLane        -> {FlagWith(FlagWithLane[fn], a[1], a[2])}
    [] fn = "SIMDNotf32"                 -> {SIMDNotf32(a[1])}
    [] fn = "SIMDLessThanu32"            -> {SIMDLessThanu32(a[1], a[2])}
    [] fn = "SIMDClamp"                  -> {SIMDClamp(a[1], a[2], a[3])}
    [] fn = "SIMDSelect"                 -> {SIMDSelect(a[1], a[2], a[3])}
    [] fn = "SIMDScale"                  -> {SIMDScale(a[1], a[2])}
    [] fn = "SIMDToFloat32x4"            -> {SIMDToFloat32x4(a[1])}
    [] fn = "SIMDBitsToFloat32x4"        -> {SIMDBitsToFloat32x4(a[1])}
    [] fn = "SIMDToInt32x4"              -> {SIMDToInt32x4(a[1])}
    [] fn = "SIMDBitsToInt32x4"          -> {SIMDBitsToInt32x4(a[1])}
    [] fn = "SIMDShuffle"                -> SIMDShuffle(a[1], a[2])
    [] fn = "SIMDShuffleu32"             -> SIMDShuffleu32(a[1], a[2])
    [] fn = "SIMDShuffleMix"             -> SIMDShuffleMix(a[1], a[2], a[3])

OpInvoke(fn, a) ==
  /\ call = "none"
  /\ call' = fn
  /\ form' = FALSE
  /\ args' = a
  /\ ret' \in OpOutcomes(fn, a)

\* SIMD.float32x4.abs(t), .neg, .reciprocal, .reciprocalSqrt, .sqrt
CallFloatUnary == \E fn \in DOMAIN FloatUnaryKernel, t \in Operands : OpInvoke(fn, <<t>>)
\* SIMD.float32x4.add(a, b), .sub, .mul, .div, .min, .max
CallFloatBinary ==
  \E fn \in DOMAIN FloatBinaryKernel, a, b \in Operands : OpInvoke(fn, <<a, b>>)
CallClamp == \E t, lo, hi \in Operands : OpInvoke("SIMDClamp", <<t, lo, hi>>)
CallScale == \E t \in Operands, s \in Scalars : OpInvoke("SIMDScale", <<t, s>>)
CallFloatCompare ==
  \E fn \in DOMAIN FloatCompareKernel, a, b \in Operands : OpInvoke(fn, <<a, b>>)
\* SIMD.float32x4.and/or/xor/not, through bit casts.
CallFloatBitwise ==
  \/ \E fn \in DOMAIN Float32BitwiseKernel, a, b \in Operands : OpInvoke(fn, <<a, b>>)
  \/ \E t \in Operands : OpInvoke("SIMDNotf32", <<t>>)
\* SIMD.int32x4.and/or/xor/add/sub/mul/equal/greaterThan, not/neg, lessThan.
CallIntBinary ==
  \E fn \in DOMAIN IntBinaryKernel \cup {"SIMDLessThanu32"}, a, b \in Operands :
    OpInvoke(fn, <<a, b>>)
CallIntUnary == \E fn \in DOMAIN IntUnaryKernel, t \in Operands : OpInvoke(fn, <<t>>)
CallConversion == \E fn \in Conversions, t \in Operands : OpInvoke(fn, <<t>>)
CallSelect == \E m, t, f \in Operands : OpInvoke("SIMDSelect", <<m, t, f>>)
CallWith ==
  \E fn \in DOMAIN FloatWithLane \cup DOMAIN IntWithLane \cup DOMAIN FlagWithLane,
     t \in Operands, x \in Scalars : OpInvoke(fn, <<t, x>>)
CallShift == \E fn \in DOMAIN ShiftOperator, t \in Operands, s \in Counts : OpInvoke(fn, <<t, s>>)
CallShuffle ==
  \E fn \in {"SIMDShuffle", "SIMDShuffleu32"}, t \in Operands, m \in Masks :
    OpInvoke(fn, <<t, m>>)
CallShuffleMix == \E a, b \in Operands, m \in Masks : OpInvoke("SIMDShuffleMix", <<a, b, m>>)

OpsNext ==
  \/ CallFloatUnary \/ CallFloatBinary \/ CallClamp \/ CallScale
  \/ CallFloatCompare \/ CallFloatBitwise \/ CallIntBinary \/ CallIntUnary
  \/ CallConversion \/ CallSelect \/ CallWith \/ CallShift
  \/ CallShuffle \/ CallShuffleMix
  \/ TakeResult

OpsSpec == Init /\ [][OpsNext]_vars

-----------------------------------------------------------------------------
(* Properties *)

OpNames ==
  DOMAIN FloatUnaryKernel \cup DOMAIN FloatBinaryKernel \cup DOMAIN FloatCompareKernel
  \cup DOMAIN IntBinaryKernel \cup DOMAIN IntUnaryKernel \cup DOMAIN Float32BitwiseKernel
  \cup DOMAIN ShiftOperator \cup DOMAIN FloatWithLane \cup DOMAIN IntWithLane
  \cup DOMAIN FlagWithLane \cup Conversions
  \cup {"SIMDNotf32", "SIMDLessThanu32", "SIMDClamp", "SIMDSelect", "SIMDScale",
        "SIMDShuffle", "SIMDShuffleu32", "SIMDShuffleMix"}

OpsTypeOK ==
  /\ call \in {"none"} \cup OpNames
  /\ ret.t \in {"float32x4", "int32x4", "throw", "undefined"}
  /\ ret.t \in {"float32x4", "int32x4"} => IsVector(ret)
  /\ ret.t = "throw" => ret.err \in {"TypeError", "RangeError", "Error", "RuntimeError"}

\* Spec 4.2: the vector kind each operand must have ("f", "i"), or "s" for
\* a scalar, and the kind of the result.
OperandKinds(fn) ==
  CASE fn \in DOMAIN FloatUnaryKernel \cup {"SIMDNotf32", "SIMDToInt32x4", "SIMDBitsToInt32x4"}
         -> <<"f">>
    [] fn \in DOMAIN FloatBinaryKernel \cup DOMAIN FloatCompareKernel
              \cup DOMAIN Float32BitwiseKernel -> <<"f", "f">>
    [] fn \in DOMAIN IntBinaryKernel \cup {"SIMDLessThanu32"} -> <<"i", "i">>
    [] fn \in DOMAIN IntUnaryKernel \cup {"SIMDToFloat32x4", "SIMDBitsToFloat32x4"} -> <<"i">>
    [] fn = "SIMDClamp"      -> <<"f", "f", "f">>
    [] fn = "SIMDSelect"     -> <<"i", "f", "f">>
    [] fn = "SIMDShuffleMix" -> <<"f", "f", "s">>
    [] fn \in DOMAIN FloatWithLane \cup {"SIMDScale", "SIMDShuffle"} -> <<"f", "s">>
    [] OTHER                 -> <<"i", "s">>

ResultKind(fn) ==
  IF fn \in DOMAIN FloatCompareKernel \cup DOMAIN IntBinaryKernel \cup DOMAIN IntUnaryKernel
            \cup DOMAIN ShiftOperator \cup DOMAIN IntWithLane \cup DOMAIN FlagWithLane
            \cup {"SIMDLessThanu32", "SIMDToInt32x4", "SIMDBitsToInt32x4", "SIMDShuffleu32"}
  THEN "int32x4" ELSE "float32x4"

Fits(v, k) ==
  /\ k = "f" => IS_FLOAT32x4(Float32x4Unwrap(v))
  /\ k = "i" => IS_INT32x4(Int32x4Unwrap(v))

OperandsFit == \A j \in DOMAIN args : Fits(args[j], OperandKinds(call)[j])

\* Spec 4.2 and 7: every operation, the compositions (float and/or/xor/not,
\* int lessThan) included, throws TypeError exactly when a vector operand is
\* neither of its kind nor a wrapper of it, and otherwise returns a fresh
\* vector of the kind the spec gives (comparisons an int32x4, select a
\* float32x4).
OperandKindsChecked ==
  call \in OpNames =>
    /\ ret = Throw("TypeError") <=> ~OperandsFit
    /\ ~IsThrow(ret) => ret.t = ResultKind(call)

\* The checked operand, for a call whose operands fit.
Arg(j) == IF OperandKinds(call)[j] = "f" THEN Float32x4Unwrap(args[j]) ELSE Int32x4Unwrap(args[j])
\* Lane i of operand j as client code reads it back (args[j].x ..).
ArgLane(j, i) ==
  IF OperandKinds(call)[j] = "f" THEN Float32x4GetLane(args[j], i).num
  ELSE Int32x4GetLane(args[j], i).num

\* The float comparisons (lines 481-527) answer, lane by lane, the JS
\* relational operator on the lanes as read back: all ones when it holds,
\* 0 otherwise; NaN compares false except for notEqual, and -0 equals +0.
FloatComparisonsIEEE ==
  call \in DOMAIN FloatCompareKernel /\ ~IsThrow(ret) =>
    \A i \in Lanes :
      LET a == ArgLane(1, i)  b == ArgLane(2, i)
          ordered == ~IsNaN(a) /\ ~IsNaN(b)
          holds ==
            CASE call = "SIMDLessThan"           -> ordered /\ NumLess(a, b)
              [] call = "SIMDLessThanOrEqual"    -> ordered /\ ~NumLess(b, a)
              [] call = "SIMDEqual"              -> ordered /\ ~NumLess(a, b) /\ ~NumLess(b, a)
              [] call = "SIMDNotEqual"           -> ~ordered \/ NumLess(a, b) \/ NumLess(b, a)
              [] call = "SIMDGreaterThanOrEqual" -> ordered /\ ~NumLess(a, b)
              [] call = "SIMDGreaterThan"        -> ordered /\ NumLess(b, a)
      IN  ret.lanes[i] = IF holds THEN 2^W - 1 ELSE 0

\* Spec 4.2 and 8: the int comparisons compare lanes as unsigned 32-bit
\* numbers, so lessThan(a, b) (line 679, computed as greaterThan(b, a)) is
\* the strict unsigned order of the lanes a client reads back.
UnsignedCompareOrder ==
  call \in {"SIMDLessThanu32", "SIMDEqualu32", "SIMDGreaterThanu32"} /\ ~IsThrow(ret) =>
    \A i \in Lanes :
      LET a == ToUintW(ArgLane(1, i))  b == ToUintW(ArgLane(2, i))
          holds == CASE call = "SIMDLessThanu32"    -> a < b
                     [] call = "SIMDEqualu32"       -> a = b
                     [] call = "SIMDGreaterThanu32" -> a > b
      IN  ret.lanes[i] = IF holds THEN 2^W - 1 ELSE 0

\* Spec 4.2: the shifts are 32-bit logical and arithmetic shifts of each
\* lane's bits, the count taken modulo the lane width as the JS operators
\* do.  The code computes them on numbers: the lane read back signed, `>>>`
\* yielding an unsigned number, and %CreateInt32x4 wrapping it (lines
\* 698-729).
ShiftsAreLaneShifts ==
  call \in DOMAIN ShiftOperator /\ ~IsThrow(ret) =>
    \A i \in Lanes :
      LET b == Arg(1).lanes[i]
          c == ShiftCount(ToNumberV(args[2]).num)
      IN  ret.lanes[i] =
            CASE call = "SIMDShiftLeftu32"  -> (b * 2^c) % 2^W
              [] call = "SIMDShiftRightu32" -> shiftR(b, c)
              [] OTHER -> shiftR(b, c) + SignOf(b) * (2^W - 2^(W - c))

\* Output lane i of a shuffle of a (shuffleMix: x and y from a, z and w
\* from b) by the mask m, bits [2i-1 : 2i-2] selecting the source lane.
ShuffleReference(a, b, m) ==
  [i \in Lanes |-> LET src == IF i <= 2 THEN a ELSE b IN src[(shiftR(m, 2 * (i - 1)) & 3) + 1]]

IsShuffle == call \in {"SIMDShuffle", "SIMDShuffleu32", "SIMDShuffleMix"}
ShuffleMask == args[Len(args)]
ShuffleSources == IF call = "SIMDShuffleMix" THEN <<Arg(1).lanes, Arg(2).lanes>>
                  ELSE <<Arg(1).lanes, Arg(1).lanes>>

\* Spec 4.2 and 8 (mask range): a shuffle of valid vectors by a number mask
\* fails with RangeError exactly when TO_INT32(mask) is outside 0..255
\* (lines 400-403), and otherwise permutes the lanes by its 2-bit fields.
ShuffleMaskDomain ==
  IsShuffle /\ OperandsFit /\ IS_NUMBER(ShuffleMask) =>
    IF MaskInt32(ShuffleMask) < 0 \/ MaskInt32(ShuffleMask) > 255
    THEN ret = Throw("RangeError")
    ELSE ~IsThrow(ret) /\ ret.lanes = ShuffleReference(ShuffleSources[1], ShuffleSources[2],
                                                        MaskInt32(ShuffleMask))

\* Spec 4.2: masks are validated after numeric coercion, so any mask the
\* check accepts selects lanes by its coerced value, whatever its type.
ShuffleUsesCheckedMask ==
  IsShuffle /\ OperandsFit /\ ~IsThrow(MaskCheck(ShuffleMask)) =>
    ~IsThrow(ret) /\ ret.lanes = ShuffleReference(ShuffleSources[1], ShuffleSources[2],
                                                  MaskInt32(ShuffleMask))

\* Spec 4.2: select is the bitwise blend (mask & t) | (~mask & f) for every
\* mask, not only lanes of all ones or zeros; i.e. it agrees with the same
\* blend built by a client from the float bitwise operations and bit casts.
SelectIsBitwiseBlend ==
  call = "SIMDSelect" /\ ~IsThrow(ret) =>
    LET m == SIMDBitsToFloat32x4(args[1])
    IN  ret = Float32Bitwise("or", Float32Bitwise("and", m, args[2]),
                                   Float32Bitwise("and", SIMDNotf32(m), args[3]))

\* The lane a with-operation writes, and whether it replaced lane i.
WithLane(fn) ==
  CASE fn \in DOMAIN FloatWithLane -> FloatWithLane[fn]
    [] fn \in DOMAIN IntWithLane   -> IntWithLane[fn]
    [] OTHER                       -> FlagWithLane[fn]

\* Spec 4.2 (lane update): withX..withW, their u32 and flag forms (lines
\* 429-455, 622-676) keep three lanes bit for bit and replace the fourth by
\* the coerced argument: a float read back as ToNumber rounded to float32,
\* an int as ToInt32, a flag as ToBoolean through flagX..flagW.
WithReplacesOneLane ==
  call \in DOMAIN FloatWithLane \cup DOMAIN IntWithLane \cup DOMAIN FlagWithLane
  /\ ~IsThrow(ret) =>
    LET i == WithLane(call)  x == args[2] IN
    /\ \A j \in Lanes \ {i} : ret.lanes[j] = Arg(1).lanes[j]
    /\ call \in DOMAIN FloatWithLane =>
         Float32x4GetLane(ret, i) = NumberV(FLV(FloatBits(ToNumberV(x).num)))
    /\ call \in DOMAIN IntWithLane =>
         Int32x4GetLane(ret, i) = NumberV(Int2Num(ToIntW(ToNumberV(x).num)))
    /\ call \in DOMAIN FlagWithLane =>
         /\ Int32x4GetFlag(ret, i) = {BooleanV(ToBoolean(x))}
         /\ Int32x4GetLane(ret, i) = NumberV(Int2Num(IF ToBoolean(x) THEN -1 ELSE 0))

\* Spec 4.2: the float and/or/xor/not (lines 559-580) act on the raw lane
\* bits, NaN payloads and signs included, exactly as the int operations.
FloatBitwiseIsIntBitwise ==
  call \in DOMAIN Float32BitwiseKernel \cup {"SIMDNotf32"} /\ ~IsThrow(ret) =>
    \A i \in Lanes :
      LET x == Arg(1).lanes[i]  y == Arg(Len(args)).lanes[i] IN
      ret.lanes[i] = CASE call = "SIMDAndf32" -> x & y
                       [] call = "SIMDOrf32"  -> x | y
                       [] call = "SIMDXorf32" -> x ^^ y
                       [] OTHER               -> 2^W - 1 - x

\* Spec 4.2 and 8 (integer wrap-around): neg, add, sub and mul on int32x4
\* (lines 582-610) give, lane by lane, the ToInt32 of the exact result on
\* the lanes a client reads back.
IntArithWraps ==
  call \in {"SIMDNegu32", "SIMDAddu32", "SIMDSubu32", "SIMDMulu32"} /\ ~IsThrow(ret) =>
    \A i \in Lanes :
      LET a == TruncInt(ArgLane(1, i))  b == TruncInt(ArgLane(Len(args), i))
          exact == CASE call = "SIMDNegu32" -> -a
                     [] call = "SIMDAddu32" -> a + b
                     [] call = "SIMDSubu32" -> a - b
                     [] OTHER               -> a * b
      IN  Int32x4GetLane(ret, i) = NumberV(Int2Num(ToIntW(Int2Num(exact))))

=============================================================================
