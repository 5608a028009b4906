----------------------------- MODULE SIMDCore ------------------------------
(***************************************************************************)
(* The Lane Vector Core of simd128.js (lines 34-298): the float32x4 and    *)
(* int32x4 constructors, zero/splat/bool factories, lane, flag and         *)
(* signMask getters, toString and valueOf, each for a raw SIMD value and   *)
(* for its wrapper object.                                                 *)
(*                                                                         *)
(* The library is synchronous and keeps no state of its own, so the model  *)
(* is a client that calls one library function per step on arguments from *)
(* small sets; call, form (TRUE for a `new` call), args and ret record the *)
(* last call and its outcome, and the properties relate the outcome to     *)
(* the arguments.  A call's outcome is a JS value or a thrown error.       *)
(***************************************************************************)
EXTENDS SIMDLanes, TLC

CONSTANTS
  LaneArgs,    \* JS values passed as lane arguments and splat scalars
  Receivers    \* JS values used as `this` of getters, toString and valueOf

VARIABLES call, form, args, ret
vars == <<call, form, args, ret>>

-----------------------------------------------------------------------------
(* JS values *)

NumberV(n) == [t |-> "number", num |-> n]
StringV(s) == [t |-> "string", str |-> s]
BooleanV(b) == [t |-> "boolean", bool |-> b]
UndefinedV == [t |-> "undefined"]
\* An object whose valueOf returns n, or whose valueOf throws.
ObjectV(n) == [t |-> "object", throws |-> FALSE, num |-> n]
ThrowingObjectV == [t |-> "object", throws |-> TRUE, num |-> NaN]
Float32x4V(l) == [t |-> "float32x4", lanes |-> l]
Int32x4V(l) == [t |-> "int32x4", lanes |-> l]
WrapperV(p) == [t |-> "wrapper", prim |-> p]
\* What toString renders: the kind and the lanes read as numbers.
TextV(k, l) == [t |-> "text", kind |-> k, lanes |-> l]
Throw(e) == [t |-> "throw", err |-> e]
IsThrow(o) == o.t = "throw"
\* An ArrayBuffer, a Float32x4Array or Int32x4Array, and a plain object with
\* a `length` property and the elements elems[1..] at indices 0, 1, ...
ArrayBufferV(b) == [t |-> "arraybuffer", id |-> b]
TypedArrayV(a) == [t |-> "typedarray", id |-> a]
ArrayLikeV(len, elems) == [t |-> "arraylike", length |-> len, elems |-> elems]

\* ToNumber of the string literals the model uses.
StringNumber ==
  ("" :> Int2Num(0)) @@ ("abc" :> NaN) @@ ("-2" :> Int2Num(-2)) @@
  ("228" :> Int2Num(228)) @@ ("0.5" :> Frac(1, 2))

IS_NUMBER(v) == v.t = "number"

\* ECMA-262 ToNumber of a non-number; an object runs its valueOf, which may
\* throw.  A SIMD value or wrapper converts through its non-numeric string.
NonNumberToNumber(v) ==
  CASE v.t = "string"               -> NumberV(StringNumber[v.str])
    [] v.t = "boolean"              -> NumberV(Int2Num(IF v.bool THEN 1 ELSE 0))
    [] v.t = "object" /\ v.throws   -> Throw("Error")
    [] v.t = "object"               -> NumberV(v.num)
    [] OTHER                        -> NumberV(NaN)

\* The cascade `IS_NUMBER(x) ? x : NonNumberToNumber(x)` (TO_NUMBER_INLINE).
ToNumberV(v) == IF IS_NUMBER(v) THEN v ELSE NonNumberToNumber(v)

\* TO_INT32(x): `x >> 0`, ToNumber then ToInt32.
TO_INT32(v) ==
  LET n == ToNumberV(v) IN IF IsThrow(n) THEN n ELSE NumberV(Int2Num(ToIntW(n.num)))

\* ToPositiveInteger(x) of runtime.js: TO_INTEGER (NaN gives 0), and a
\* RangeError below 0; an integer result is a number.  (No infinity reaches
\* it in the models: TruncInt maps them to 0, TO_INTEGER keeps them.)
ToPositiveInteger(v) ==
  LET n == ToNumberV(v)
  IN  CASE IsThrow(n)         -> n
        [] TruncInt(n.num) < 0 -> Throw("RangeError")
        [] OTHER              -> NumberV(Int2Num(TruncInt(n.num)))

ToBoolean(v) ==
  CASE v.t = "number"    -> ~(IsNaN(v.num) \/ IsZero(v.num))
    [] v.t = "string"    -> v.str # ""
    [] v.t = "boolean"   -> v.bool
    [] v.t = "undefined" -> FALSE
    [] OTHER             -> TRUE

\* Statements run in order and the first one that throws ends the call.
Raised(steps) == \E i \in DOMAIN steps : IsThrow(steps[i])
FirstRaised(steps) ==
  steps[CHOOSE i \in DOMAIN steps :
          IsThrow(steps[i]) /\ \A j \in 1..(i - 1) : ~IsThrow(steps[j])]

-----------------------------------------------------------------------------
(* The runtime calls simd128.js makes (not in this file). *)

\* %CreateFloat32x4 stores each number as a float lane.  simd128.js can pass
\* it a non-number (lines 45-46); the runtime then either rejects it or
\* converts it itself, and the model allows both.
CreateFloat32x4(a) ==
  IF \A i \in Lanes : IS_NUMBER(a[i])
  THEN {Float32x4V([i \in Lanes |-> FloatBits(a[i].num)])}
  ELSE {Throw("RuntimeError"),
        Float32x4V([i \in Lanes |-> FloatBits(ToNumberV(a[i]).num)])}

\* Variant: the lane keeps the truncated number without the 2^W wrap.
CreateInt32x4Unwrapped(a) == {Int32x4V([i \in Lanes |-> TruncInt(a[i].num)])}

\* %CreateInt32x4 stores each number argument with NumberToInt32.
CreateInt32x4(a) == {Int32x4V([i \in Lanes |-> IntBits(a[i].num)])}

\* %_IsConstructCall: a `new` call leaves the value in the receiver's
\* wrapper (%_SetValueOf), a plain call returns it.
Box(construct, outs) ==
  {IF construct /\ ~IsThrow(o) THEN WrapperV(o) ELSE o : o \in outs}

\* %Float32x4GetSignMask, %Int32x4GetSignMask: bit i - 1 is the sign of lane i.
SignMask(l) == SignOf(l[1]) + 2 * SignOf(l[2]) + 4 * SignOf(l[3]) + 8 * SignOf(l[4])

\* %Int32x4GetFlagX..W: TRUE for an all-ones lane, FALSE for 0; the answer
\* for another lane is not fixed by this file.
FlagValues(b) == CASE b = 2^W - 1 -> {TRUE} [] b = 0 -> {FALSE} [] OTHER -> BOOLEAN

-----------------------------------------------------------------------------
(* float32x4 (lines 38-141) *)

Float32x4Constructor(construct, x, y, z, w) ==
  LET x1 == ToNumberV(x)                                      \* line 43
      y1 == ToNumberV(y)                                      \* line 44
      x2 == IF IS_NUMBER(z) THEN x1 ELSE NonNumberToNumber(z) \* line 45
      y2 == IF IS_NUMBER(w) THEN y1 ELSE NonNumberToNumber(w) \* line 46
      steps == <<x1, y1, x2, y2>>
  IN  IF Raised(steps) THEN {FirstRaised(steps)}
      ELSE Box(construct, CreateFloat32x4(<<x2, y2, z, w>>))

Float32x4ZeroConstructor(construct) ==
  IF construct
  THEN Float32x4Constructor(TRUE, NumberV(Int2Num(0)), NumberV(Int2Num(0)),
                            NumberV(Int2Num(0)), NumberV(Int2Num(0)))
  ELSE CreateFloat32x4([i \in Lanes |-> NumberV(Int2Num(0))])

Float32x4SplatConstructor(construct, s) ==
  LET s1 == ToNumberV(s) IN
  CASE IsThrow(s1) -> {s1}
    [] construct   -> Float32x4Constructor(TRUE, s1, s1, s1, s1)
    [] OTHER       -> CreateFloat32x4([i \in Lanes |-> s1])

IS_FLOAT32x4(v) == v.t = "float32x4"
IS_FLOAT32x4_WRAPPER(v) == v.t = "wrapper" /\ v.prim.t = "float32x4"

\* `IS_FLOAT32x4_WRAPPER(this) ? %_ValueOf(this) : this`
Float32x4Unwrap(this) == IF IS_FLOAT32x4_WRAPPER(this) THEN this.prim ELSE this

\* Float32x4GetX, GetY, GetZ, GetW: lane i of the receiver.
Float32x4GetLane(this, i) ==
  LET v == Float32x4Unwrap(this) IN
  IF ~IS_FLOAT32x4(v) THEN Throw("TypeError") ELSE NumberV(FloatLaneValue(v.lanes[i]))

Float32x4GetSignMask(this) ==
  LET v == Float32x4Unwrap(this) IN
  IF ~IS_FLOAT32x4(v) THEN Throw("TypeError") ELSE NumberV(Int2Num(SignMask(v.lanes)))

Float32x4ToString(this) ==
  CASE IS_FLOAT32x4_WRAPPER(this) -> TextV("[object Float32x4]", <<>>)
    [] IS_FLOAT32x4(this) ->
         TextV("float32x4", [i \in Lanes |-> FloatLaneValue(this.lanes[i])])
    [] OTHER -> Throw("TypeError")

Float32x4ValueOf(this) ==
  IF ~IS_FLOAT32x4(this) /\ ~IS_FLOAT32x4_WRAPPER(this)
  THEN Throw("TypeError") ELSE Float32x4Unwrap(this)

-----------------------------------------------------------------------------
(* int32x4 (lines 147-296) *)

Int32x4Constructor(construct, x, y, z, w) ==
  LET steps == <<TO_INT32(x), TO_INT32(y), TO_INT32(z), TO_INT32(w)>> IN
  IF Raised(steps) THEN {FirstRaised(steps)}
  ELSE Box(construct, CreateInt32x4(steps))

Int32x4ZeroConstructor(construct) ==
  IF construct
  THEN Int32x4Constructor(TRUE, NumberV(Int2Num(0)), NumberV(Int2Num(0)),
                          NumberV(Int2Num(0)), NumberV(Int2Num(0)))
  ELSE CreateInt32x4([i \in Lanes |-> NumberV(Int2Num(0))])

\* `x ? -1 : 0` for each argument.
\* Variant: a true argument stored as 1 rather than all ones.
BoolLaneAsOne(v) == NumberV(Int2Num(IF ToBoolean(v) THEN 1 ELSE 0))

BoolLane(v) == NumberV(Int2Num(IF ToBoolean(v) THEN -1 ELSE 0))

\* Variant: the `new` path forwards the raw arguments.
Int32x4BoolConstructorRawArgs(construct, x, y, z, w) ==
  IF construct
  THEN Int32x4Constructor(TRUE, x, y, z, w)
  ELSE CreateInt32x4(<<BoolLane(x), BoolLane(y), BoolLane(z), BoolLane(w)>>)

Int32x4BoolConstructor(construct, x, y, z, w) ==
  IF construct
  THEN Int32x4Constructor(TRUE, BoolLane(x), BoolLane(y), BoolLane(z), BoolLane(w))
  ELSE CreateInt32x4(<<BoolLane(x), BoolLane(y), BoolLane(z), BoolLane(w)>>)

\* The plain call hands %CreateInt32x4 the number s unconverted (line 194);
\* only the `new` path goes through TO_INT32.
Int32x4SplatConstructor(construct, s) ==
  LET s1 == ToNumberV(s) IN
  CASE IsThrow(s1) -> {s1}
    [] construct   -> Int32x4Constructor(TRUE, s1, s1, s1, s1)
    [] OTHER       -> CreateInt32x4([i \in Lanes |-> s1])

IS_INT32x4(v) == v.t = "int32x4"
IS_INT32x4_WRAPPER(v) == v.t = "wrapper" /\ v.prim.t = "int32x4"

Int32x4Unwrap(this) == IF IS_INT32x4_WRAPPER(this) THEN this.prim ELSE this

\* Int32x4GetX, GetY, GetZ, GetW.
Int32x4GetLane(this, i) ==
  LET v == Int32x4Unwrap(this) IN
  IF ~IS_INT32x4(v) THEN Throw("TypeError") ELSE NumberV(IntLaneValue(v.lanes[i]))

\* Variant: the receiver check accepts any SIMD value.
Int32x4GetFlagAnySimd(this, i) ==
  LET v == Int32x4Unwrap(this) IN
  IF ~(IS_INT32x4(v) \/ IS_FLOAT32x4(v)) THEN {Throw("TypeError")}
  ELSE {BooleanV(b) : b \in FlagValues(v.lanes[i])}

\* Int32x4GetFlagX, GetFlagY, GetFlagZ, GetFlagW.
Int32x4GetFlag(this, i) ==
  LET v == Int32x4Unwrap(this) IN
  IF ~IS_INT32x4(v) THEN {Throw("TypeError")}
  ELSE {BooleanV(b) : b \in FlagValues(v.lanes[i])}

Int32x4GetSignMask(this) ==
  LET v == Int32x4Unwrap(this) IN
  IF ~IS_INT32x4(v) THEN Throw("TypeError") ELSE NumberV(Int2Num(SignMask(v.lanes)))

Int32x4ToString(this) ==
  CASE IS_INT32x4_WRAPPER(this) -> TextV("[object Int32x4]", <<>>)
    [] IS_INT32x4(this) ->
         TextV("int32x4", [i \in Lanes |-> IntLaneValue(this.lanes[i])])
    [] OTHER -> Throw("TypeError")

Int32x4ValueOf(this) ==
  IF ~IS_INT32x4(this) /\ ~IS_INT32x4_WRAPPER(this)
  THEN Throw("TypeError") ELSE Int32x4Unwrap(this)

-----------------------------------------------------------------------------
(* The client: one library call per step. *)

\* The outcomes of calling fn with construct-flag c on the argument tuple a.
Outcomes(fn, c, a) ==
  CASE fn = "Float32x4Constructor"      -> Float32x4Constructor(c, a[1], a[2], a[3], a[4])
    [] fn = "Float32x4ZeroConstructor"  -> Float32x4ZeroConstructor(c)
    [] fn = "Float32x4SplatConstructor" -> Float32x4SplatConstructor(c, a[1])
    [] fn = "Int32x4Constructor"        -> Int32x4Constructor(c, a[1], a[2], a[3], a[4])
    [] fn = "Int32x4ZeroConstructor"    -> Int32x4ZeroConstructor(c)
    [] fn = "Int32x4BoolConstructor"    -> Int32x4BoolConstructor(c, a[1], a[2], a[3], a[4])
    [] fn = "Int32x4SplatConstructor"   -> Int32x4SplatConstructor(c, a[1])
    [] fn = "Float32x4GetLane"          -> {Float32x4GetLane(a[1], a[2])}
    [] fn = "Float32x4GetSignMask"      -> {Float32x4GetSignMask(a[1])}
    [] fn = "Float32x4ToString"         -> {Float32x4ToString(a[1])}
    [] fn = "Float32x4ValueOf"          -> {Float32x4ValueOf(a[1])}
    [] fn = "Int32x4GetLane"            -> {Int32x4GetLane(a[1], a[2])}
    [] fn = "Int32x4GetFlag"            -> Int32x4GetFlag(a[1], a[2])
    [] fn = "Int32x4GetSignMask"        -> {Int32x4GetSignMask(a[1])}
    [] fn = "Int32x4ToString"           -> {Int32x4ToString(a[1])}
    [] fn = "Int32x4ValueOf"            -> {Int32x4ValueOf(a[1])}

\* A call starts from the idle client (call = "none").
Invoke(fn, c, a) ==
  /\ call = "none"
  /\ call' = fn
  /\ form' = c
  /\ args' = a
  /\ ret' \in Outcomes(fn, c, a)

Constructors == {"Float32x4Constructor", "Float32x4ZeroConstructor",
                 "Float32x4SplatConstructor", "Int32x4Constructor",
                 "Int32x4ZeroConstructor", "Int32x4BoolConstructor",
                 "Int32x4SplatConstructor"}
LaneAccessors == {"Float32x4GetLane", "Int32x4GetLane", "Int32x4GetFlag"}
Accessors == {"Float32x4GetSignMask", "Float32x4ToString", "Float32x4ValueOf",
              "Int32x4GetSignMask", "Int32x4ToString", "Int32x4ValueOf"}

Init ==
  /\ call = "none"
  /\ form = FALSE
  /\ args = <<>>
  /\ ret = UndefinedV

\* `float32x4(x, y, z, w)` and `new float32x4(x, y, z, w)`; likewise below.
CallFloat32x4Constructor ==
  \E c \in BOOLEAN, x, y, z, w \in LaneArgs :
    Invoke("Float32x4Constructor", c, <<x, y, z, w>>)
CallFloat32x4ZeroConstructor ==
  \E c \in BOOLEAN : Invoke("Float32x4ZeroConstructor", c, <<>>)
CallFloat32x4SplatConstructor ==
  \E c \in BOOLEAN, s \in LaneArgs : Invoke("Float32x4SplatConstructor", c, <<s>>)
CallInt32x4Constructor ==
  \E c \in BOOLEAN, x, y, z, w \in LaneArgs :
    Invoke("Int32x4Constructor", c, <<x, y, z, w>>)
CallInt32x4ZeroConstructor ==
  \E c \in BOOLEAN : Invoke("Int32x4ZeroConstructor", c, <<>>)
CallInt32x4BoolConstructor ==
  \E c \in BOOLEAN, x, y, z, w \in LaneArgs :
    Invoke("Int32x4BoolConstructor", c, <<x, y, z, w>>)
CallInt32x4SplatConstructor ==
  \E c \in BOOLEAN, s \in LaneArgs : Invoke("Int32x4SplatConstructor", c, <<s>>)

\* `v.x` .. `v.w` and `v.flagX` .. `v.flagW`.
CallGetLane ==
  \E fn \in LaneAccessors, r \in Receivers, i \in Lanes : Invoke(fn, FALSE, <<r, i>>)

\* `v.signMask`, `v.toString()`, `v.valueOf()`.
CallAccessor == \E fn \in Accessors, r \in Receivers : Invoke(fn, FALSE, <<r>>)

\* The client takes the outcome of its call and is ready for the next one.
TakeResult ==
  /\ call # "none"
  /\ call' = "none"
  /\ form' = FALSE
  /\ args' = <<>>
  /\ ret' = UndefinedV

Next ==
  \/ CallFloat32x4Constructor
  \/ CallFloat32x4ZeroConstructor
  \/ CallFloat32x4SplatConstructor
  \/ CallInt32x4Constructor
  \/ CallInt32x4ZeroConstructor
  \/ CallInt32x4BoolConstructor
  \/ CallInt32x4SplatConstructor
  \/ CallGetLane
  \/ CallAccessor
  \/ TakeResult

Spec == Init /\ [][Next]_vars

-----------------------------------------------------------------------------
(* Properties *)

IsVector(v) == v.t \in {"float32x4", "int32x4"} /\ v.lanes \in [Lanes -> LaneBits]

TypeOK ==
  /\ call \in {"none"} \cup Constructors \cup LaneAccessors \cup Accessors
  /\ form \in BOOLEAN
  /\ ret.t \in {"number", "boolean", "undefined", "float32x4", "int32x4",
              "wrapper", "text", "throw"}
  /\ ret.t \in {"float32x4", "int32x4"} => IsVector(ret)
  /\ ret.t = "wrapper" => IsVector(ret.prim)
  /\ ret.t = "throw" => ret.err \in {"TypeError", "Error", "RuntimeError"}
  /\ form => call \in Constructors

\* A lane of a value as client code reads it back: v.x .. v.w.
ReadBack(v, i) ==
  IF IS_FLOAT32x4(Float32x4Unwrap(v)) THEN Float32x4GetLane(v, i) ELSE Int32x4GetLane(v, i)

\* Spec 4.1: the lane a factory stores for its arguments.  A float lane is
\* ToNumber of its argument rounded to float32, an int lane its ToInt32,
\* a bool lane -1 or 0 by ToBoolean, splat broadcasts and zero is 0.
SpecLane(fn, a, i) ==
  CASE fn = "Float32x4Constructor" ->
         NumberV(FloatLaneValue(FloatBits(ToNumberV(a[i]).num)))
    [] fn = "Float32x4SplatConstructor" ->
         NumberV(FloatLaneValue(FloatBits(ToNumberV(a[1]).num)))
    [] fn = "Int32x4Constructor" -> NumberV(Int2Num(ToIntW(ToNumberV(a[i]).num)))
    [] fn = "Int32x4SplatConstructor" -> NumberV(Int2Num(ToIntW(ToNumberV(a[1]).num)))
    [] fn = "Int32x4BoolConstructor" ->
         NumberV(Int2Num(IF ToBoolean(a[i]) THEN -1 ELSE 0))
    [] OTHER -> NumberV(Int2Num(0))

\* Every argument converts to a number without throwing.
Coercible(fn, a) ==
  fn = "Int32x4BoolConstructor" \/ \A i \in DOMAIN a : ~IsThrow(ToNumberV(a[i]))

\* A factory in fns called, plain or with `new`, on arguments that all
\* convert succeeds, and every lane read back through the getters is the
\* lane spec 4.1 gives for its argument; for bool, flagX..flagW read back
\* the truth of each argument.
LanesReadBack(fns) ==
  call \in fns /\ Coercible(call, args) =>
    /\ ~IsThrow(ret)
    /\ \A i \in Lanes : ReadBack(ret, i) = SpecLane(call, args, i)
    /\ call = "Int32x4BoolConstructor" =>
         \A i \in Lanes : Int32x4GetFlag(ret, i) = {BooleanV(ToBoolean(args[i]))}

\* The float32x4 constructor (lines 42-54) stores each argument's number.
Float32x4ConstructorLanes == LanesReadBack({"Float32x4Constructor"})

\* zero, splat, bool and the int32x4 constructor (lines 56-71, 153-196)
\* store the lanes spec 4.1 gives, on both the plain and the `new` path.
FactoryLanes == LanesReadBack(Constructors \ {"Float32x4Constructor"})

\* Spec 4.1, dual representation: `new C(..)` yields a wrapper of exactly
\* what the plain call `C(..)` returns, and throws what it throws.  The two
\* paths of zero, splat and bool (lines 56-71, 167-196) run different code.
BoxedAgreesWithRaw == form => ret \in Box(TRUE, Outcomes(call, FALSE, args))

AccessorKind(fn) ==
  IF fn \in {"Float32x4GetLane", "Float32x4GetSignMask", "Float32x4ToString",
             "Float32x4ValueOf"}
  THEN "float32x4" ELSE "int32x4"

\* Getters, toString and valueOf (lines 73-118, 198-267) reject with a
\* TypeError any receiver that is neither a value of their own kind nor its
\* wrapper, answer for every other receiver, and answer for a wrapper as
\* for the value inside it (toString excepted: it names the wrapper class).
ReceiverChecked ==
  call \in LaneAccessors \cup Accessors =>
    LET r   == args[1]
        k   == AccessorKind(call)
        own == r.t = k \/ (r.t = "wrapper" /\ r.prim.t = k)
    IN  /\ ~own => ret = Throw("TypeError")
        /\ own => ~IsThrow(ret)
        /\ (own /\ r.t = "wrapper" /\ call \notin {"Float32x4ToString", "Int32x4ToString"})
             => ret \in Outcomes(call, FALSE, [args EXCEPT ![1] = r.prim])
=============================================================================
