# TLA+ models of V8's `simd128.js`

`src/src/simd128.js` is the JavaScript half of V8's experimental SIMD.js
support. It defines the two 128-bit value types, `float32x4` and `int32x4`,
and the operations on them. It also defines `Float32x4Array` and
`Int32x4Array`, typed arrays of these values. The numeric kernels
(`%CreateFloat32x4`, `%SIMDAdd`, …) live in the C++ runtime, which is not
part of this repository's sources. The file only does the JS-visible part:
argument coercion, receiver and kind checks, wrapper/raw dispatch, shuffle
mask validation, shifts, float bitwise ops built from bit reinterpretation,
the table of 256 swizzle constants, and typed-array construction.

## Inventory

| Component | Source lines | State | Operations |
|---|---|---|---|
| Lane Vector Core | 34-298 | none: values are immutable. A value is raw or a wrapper object (`new`) that carries a raw value. | `float32x4(x,y,z,w)`, `.zero`, `.splat`; `int32x4(…)`, `.zero`, `.bool`, `.splat`; getters `x y z w`, `flagX..W`, `signMask`; `toString`, `valueOf` |
| Vector Operation Set | 302-729 | none | float arithmetic, min/max/clamp, reciprocal, sqrt, scale; comparisons; int and float `and/or/xor/not`; int `neg/add/sub/mul`; `select`; `with*`; `withFlag*`; conversions and bit casts; shifts; `shuffle`, `shuffleu32`, `shuffleMix` |
| Swizzle Mask Codec | 731-992 | a read-only table on `SIMD`: 256 names to 8-bit masks | installed once at bootstrap; read by clients and passed to the shuffles |
| Operation installation | 994-1067 | the function tables on `SIMD.float32x4` and `SIMD.int32x4` | bootstrap only |
| Vector Array Storage | 1073-1188 | array buffers, and views over them at a byte offset with a length. Several views may alias one buffer. | construct from a buffer with offset and optional length, from a length, or from an array-like; `getAt(i)`, `setAt(i, v)` |

How the parts interact. Client code builds values with the core
constructors. Every operation first coerces its operands: `TO_FLOAT32x4`
unwraps a wrapper and `CHECK_FLOAT32x4` throws `TypeError` on any other
kind. It then calls a runtime kernel, which returns a fresh raw value. The
shuffles take an 8-bit mask, usually one of the named constants. Array views
hand values to and from the core. `setAt` coerces to the kind of the
prototype it is installed on, not to the kind of its receiver. It then
stores 16 bytes into the shared buffer.

Concurrency and failure. Everything is synchronous and single-threaded.
There are no locks, no messages, no I/O and no retries. So the hard
behaviour is sequential:

* the order of coercions, since `valueOf` is user code and may throw;
* the raw path and the `new` path of every factory, which run different code;
* numeric edges: int32 wrap-around, float32 rounding, -0, NaN and its bit
  payload, shift counts that JS masks mod 32, unsigned results of `>>>`;
* a shuffle mask that is validated after `TO_INT32`, while the runtime is
  handed the unconverted argument;
* the alignment and bounds arithmetic of a view over a buffer;
* views of different kinds aliasing one buffer, so a long sequence of
  `setAt`/`getAt` calls goes through both.

Properties that make each part correct:

* Core: a factory stores each argument's coerced number; `new C(…)` wraps
  exactly what `C(…)` returns; accessors reject foreign receivers and see
  through wrappers.
* Operations: float arithmetic and `scale` round the exact result once, to
  nearest-even; int arithmetic wraps mod 2^32; comparisons follow IEEE
  (NaN compares false except `notEqual`); `lessThan(a,b)` = `greaterThan(b,a)`;
  bit casts round-trip exactly, NaN payloads included; float bitwise ops equal
  int bitwise ops on the bits; `select` is the bitwise blend for every mask;
  a shuffle accepts a mask exactly when `TO_INT32(mask)` is in 0..255 and
  permutes lanes by its 2-bit fields.
* Codec: the 256 constants are exactly the 2-bit encodings of their names.
* Storage: every view lies inside its buffer at a 16-byte-aligned offset, and
  construction accepts exactly the arguments spec §4.4 allows. A value
  written through any view reads back, bit-identical, through every view that
  covers the same bytes. A write never changes an element outside its own
  view's element.

## Modelling choices

* **Scaled lanes.** TLC's integers are 32-bit, so a lane is W = 8 bits. An
  int lane is an 8-bit two's-complement integer. A float lane is an IEEE-754
  binary format with 4 exponent and 3 fraction bits (module `SIMDLanes`).
  Rounding to nearest-even, overflow to infinity, subnormals, ±0 and NaN
  behave as they do in binary32. `ToInt32` wraps mod 2^8, and JS shift counts
  are masked mod 8. A JS number is `[cls, sgn, mag]` with the magnitude in
  units of the smallest subnormal, so every value is exact.
* **JS values** are records: number, string (a few literals with their
  `ToNumber`), boolean, undefined, an object whose `valueOf` answers or
  throws, raw `float32x4`/`int32x4`, a wrapper, rendered text, and a thrown
  error.
* **The client harness.** The library keeps no state. Each SIMD module
  is therefore a client that calls one library function per step, with
  arguments drawn from small constant sets. The variables `call`, `form`
  (TRUE for a `new` call), `args` and `ret` record the call and its outcome.
  `TakeResult` returns the client to idle. Each library function is one action.
  Properties relate `ret` to `args` through the spec's reference semantics,
  or through a second code path such as `new` against a plain call, or a
  getter reading back what a constructor stored.
* **Runtime kernels** are modelled from spec §4 and marked `spec_modelled`.
  Where the file passes the runtime something the spec does not cover (a
  non-number to `%CreateFloat32x4`), the outcome is a nondeterministic choice
  between rejecting and converting. The runtime's `%Int32x4GetFlag*` on a lane
  that is neither 0 nor -1 may answer either boolean.
* Formatting (`toString` text), property attributes (`DONT_ENUM`) and
  bootstrap plumbing (`%SetCode`, `%FunctionSetPrototype`) are left out.

## Modules

| Module | Models | Status |
|---|---|---|
| `SIMDLanes` | lane data: JS numbers, scaled ToInt32/ToUint32, the float lane codec (DoubleToFloat32 with round-to-nearest-even, lane to number) | done |
| `SIMDCore` | Lane Vector Core, lines 34-298: every constructor, factory, getter, `toString`, `valueOf` | done |
| `MC_SIMDCore` | SIMDCore with 8-bit lanes, 7 lane arguments, 6 receivers | done |
| `SIMDOps` | Vector Operation Set, lines 302-729, and the name-to-function tables of `SetUpSIMD` (994-1059); extends SIMDCore | done |
| `MC_SIMDOps` | SIMDOps with 6-bit lanes (3 exponent, 2 fraction bits), 7 operands, 8 scalars, 7 shift counts, 9 masks | done |
| `SIMDSwizzle` | Swizzle Mask Codec, lines 735-990: the 256 constants in the code's order and values, and the shuffles called with each; extends SIMDOps | done |
| `MC_SIMDSwizzle` | SIMDSwizzle with the lanes of MC_SIMDOps and 4 operands with distinct lanes | done |
| `SIMDArrayAbstract` | spec §4.4 as a memory of 16-byte cells: an array is a kind and a sequence of cells, construction by its three paths, `get`/`set` | done |
| `SIMDArray` | Vector Array Storage, lines 1073-1188: the constructor's dispatch and three paths, `getAt`/`setAt`, over word-addressed buffers shared by views; refines SIMDArrayAbstract | done |
| `MC_SIMDArray` | SIMDArray with 4-bit lanes, buffers of 24 and 32 bytes, at most 2 buffers and 2 views | done |

## Runs

| Run | Cfg | Expect | What it shows |
|---|---|---|---|
| `core` | `MC_SIMDCore.cfg` | pass | 15,991 states. Every factory except `float32x4(…)` stores the lanes spec §4.1 gives, on the plain and the `new` path. `new C(…)` wraps exactly what `C(…)` returns. Accessors reject foreign receivers with `TypeError` and answer for a wrapper as for its value. |
| `float_ctor` | `MC_SIMDCore_ctor.cfg` | violation | `float32x4(-0, -0, "0.5", -0)` has x = 0.5. Lines 45-46 store the coerced `z` in `x` and the coerced `w` in `y`, and hand the runtime the uncoerced `z`/`w`. |

Bounds. The seven lane arguments reach every branch of the coercion
cascade. They are a number, a string, an object, and an object that throws.
The numbers cover float32 rounding (17 → 16), int32 wrap-around
(-130 → 126), -0 and NaN. All 7^4 argument tuples of each 4-argument factory,
in both forms, are explored. The six receivers are both kinds, raw and
wrapped, plus two foreign values. Their lanes include -1, -0, a NaN with its
sign bit set, +∞, all-ones, 0, a non-flag value and the int minimum.

### Operation runs

`SIMDOps` groups the operations by the shape of their code: each group is
one action whose operation name is drawn from the install table, so
`CallIntBinary` covers `and`, `or`, `xor`, `add`, `sub`, `mul`, `equal`,
`greaterThan` and `lessThan`. An action first runs the operand checks
(`TO_*` then `CHECK_*`, in the code's order), then the scalar coercions,
then the runtime call. A coercion that throws is the call's result.

| Run | Cfg | Expect | What it shows |
|---|---|---|---|
| `ops` | `MC_SIMDOps.cfg` | pass | 3,404 states. Every operation rejects operands of the wrong kind with `TypeError` and returns its spec result kind (`OperandKindsChecked`). Float comparisons answer false on NaN, except `notEqual`, and treat -0 as +0. `lessThan(a,b)` is the unsigned order. Each shift equals the lane shift by `count mod W`, with `>>>` unsigned. A shuffle accepts exactly the number masks whose int value is in 0..255 and picks lanes by 2-bit fields. `select` is the bitwise blend for any mask. `with*`/`withFlag*` replace one lane and keep the other bits. Float `and/or/xor/not` are the int ops on the bits, NaN payloads included. Int `add/sub/mul/neg` wrap mod 2^W. |
| `shuffle_raw_mask` | `MC_SIMDOps_mask.cfg` | violation | `shuffle(v, "228")` passes the check `TO_INT32(mask)` in 0..255 (line 401), but line 404 hands the runtime the string. If the runtime rejects a non-number, the call throws instead of returning the identity permutation that the checked mask 228 names. |

Bounds of `ops`. A lane is 6 bits here (W = 6), so that a shuffle mask
ranges over all 4 lanes and every lane pattern fits a small table. The
operands are two float vectors and two int vectors, raw or wrapped, plus a
number. Their lanes hold -0, 1.5, the largest finite value, a NaN with its
sign bit set, 0, -1, the int minimum and maximum, and all-ones. The
scalars are 3, -0.5, 9/8, 5/4, NaN, -0, the string "0.5" and an object
that throws. 9/8 and 5/4 give products that lie between two lanes.
Shift counts are 0, 1, W-1, W, W+1 and -1, the edges where JS masks the
count. Masks are 0, 255, 256, -1, 228 (identity), 27 (reverse), 228.5, the
string "228" and a throwing object.

### Swizzle and array runs

| Run | Cfg | Expect | What it shows |
|---|---|---|---|
| `swizzle` | `MC_SIMDSwizzle.cfg` | pass | 6,145 states. For each of the 256 names and every operand, `shuffle`, `shuffleu32` and `shuffleMix` with `SIMD.<name>` put in lane p the source lane that the p-th letter names. `shuffleMix` takes z and w from its second operand (`SwizzleNamesSelectLanes`). This checks the table against the shuffles' 2-bit decoding, not against a second copy of the table. |
| `array` | `MC_SIMDArray.cfg` | pass | 124,195 states. `ArraySpecRefined`: `SIMDArray` implements `SIMDArrayAbstract` (see below). |
| `setat_receiver` | `MC_SIMDArray_receiver.cfg` | violation | `ArraySpecRefined` under `ArraySpecAnyReceiver`. Here the client may also call `setAt` through the other kind's prototype, e.g. `Int32x4Array.prototype.setAt.call(f, 0, v)` on a Float32x4Array `f`. `Int32x4ArraySet` never checks `this` (line 1175). It coerces `v` to int32x4 and throws `TypeError` for a float32x4 `v`. Spec §4.4's `set` coerces to the array's own kind, so it returns normally (storing `v` when `i` is in bounds). TLC finds this in 4 steps, at index -1, where the spec's `set` writes nothing; the `TypeError` happens at every index. |

`SIMDArray` state. `buffers` holds each ArrayBuffer's byte length and its
32-bit words, with one lane per word and x at the lowest address. `views`
holds what `%TypedArrayInitialize` records: kind, buffer, byte offset and
byte length. Views of either kind may share a buffer. The actions are:
* the client's `new ArrayBuffer(n)`;
* the constructor, called with or without `new`;
* `getAt` and `setAt`. `ArraySet` takes the kind of the setter that runs
  as well as the array. The coerced value then meets the element store of
  the array's own kind, which rejects a vector of the other kind.
  `CallSetAt` is `arr.setAt(i, v)`, so the two kinds agree.
  `CallSetAtAnyReceiver` lets them differ; only `setat_receiver` uses it.

The constructor is one action. It runs the code's dispatch on `arg1` and
then the checks of the chosen path, in the code's order. The runtime calls
are modelled from spec §4.4: `%TypedArrayInitialize`, which asserts the
range it is handed, and the indexed load and store, where an out-of-bounds
load gives undefined and an out-of-bounds store does nothing. The array-like
path copies element by element. If a store fails, the constructor throws and
the half-built array is unreachable, so the model keeps none of it.

The refinement. `SIMDArrayAbstract` states §4.4 without byte arithmetic:
* a cell `<<b, s>>` is the 16-byte slot s of buffer b;
* an array is a kind and the sequence of its cells;
* a construction that breaks several of §4.4's conditions may fail with
  any of their errors, because the spec fixes no order.

The mapping has three parts:
* a buffer's regions are its byte length;
* a cell holds the four words of its slot;
* view element k is the cell `byteOffset/16 + k`.

So the property checks that the code's checks accept exactly the spec's
domain. In particular, line 1096 tests `bufferByteLength % 16` where the
spec asks for `(byteLength - offset) % 16`. The two agree only because line
1084 has already rejected a misaligned offset. The property also checks that
`setAt` coerces before it writes, and that a write through a float view reads
back through an int view over the same bytes as the same bits.

Bounds of `array`:
* buffers of 24 bytes (one element plus an 8-byte tail) and 32 bytes (two
  elements);
* offsets 0, 8, 16 and 32, plus a throwing object;
* lengths absent, 1 and 2, plus a throwing object;
* first arguments: the count 1; the string "-2", which gives a RangeError; a
  SIMD value, which counts as an array-like without a length; array-likes
  that copy, that miss an element, that hold a wrapper of one kind, and one
  whose length throws;
* indices -1 to 2;
* at most 2 buffers and 2 views.

Two views are enough for a float view and an int view to alias one buffer.
A third view makes the state space too large for a 5-minute run.

Fairness and liveness. No property is a liveness property. Every library
call is a terminating synchronous function, and the only loop (the array-like
copy) is bounded by a length read once. So the harness needs no fairness.

## Plan

1. *(done)* `SIMDLanes`, `SIMDCore`, runs `core` and `float_ctor`.
2. *(done)* `SIMDOps`, runs `ops` and `shuffle_raw_mask`. Of the items
   first planned, `ShiftLeftIsMul`, `ShiftRightSplit` and `BitsRoundTrip`
   gave way to `ShiftsAreLaneShifts` and `FloatBitwiseIsIntBitwise`, which
   check the same code against the reference shifts and bit operations.
   The plan was:
   * Int ops: `neg/add/sub/mul` wrap mod 2^W. `and/or/xor/not`.
   * `lessThan(a,b)` must equal `greaterThan(b,a)`. Check it against the
     unsigned order the spec names.
   * Shifts at counts 0, W-1, W and W+1, where JS masks the count and `>>>`
     produces an unsigned lane. Properties: `ShiftLeftIsMul` (shiftLeft
     agrees with `mul` by a power of two) and `ShiftRightSplit` (logical and
     arithmetic shift agree on non-negative lanes).
   * Bit casts round-trip exactly, NaN payloads included (`BitsRoundTrip`).
     `and/or/xor/not` on floats equal the int ops on the bits
     (`FloatBitwiseIsIntBitwise`).
   * `select` equals the bitwise blend for every mask, non-canonical ones too.
   * Float comparisons follow IEEE NaN and ±0 rules (`ComparisonsIEEE`).
     `min/max/clamp/abs/neg` are exact on the scaled format. Add/sub/mul
     round once.
   * `with*`/`withFlag*` change one lane and keep the others.
   * Shuffles: `ShuffleMaskDomain`, which is accepted iff 0 ≤ TO_INT32(mask)
     ≤ 255, and a violation run for the unconverted mask that lines 404/414/426
     pass to the runtime.
3. *(done)* `SIMDSwizzle`, run `swizzle`. The planned
   `ConstantsEncodeNames` became `SwizzleNamesSelectLanes`. It checks each
   constant through the shuffles that consume it.
4. *(done)* `SIMDArray` and `SIMDArrayAbstract`, run `array`. The planned
   invariants (`ViewsInBuffer`, `ConstructAcceptsSpecDomain`,
   `AliasedReadsAgree`, `WriteStaysInElement`) are all consequences of the
   refinement `ArraySpecRefined`, which checks them together. Views that lie
   outside their buffer are also stopped by the runtime's assert, so an
   invariant about them alone would hold whatever the code checks.
5. *(dropped)* Float kernel rounding and the `scale` rounding order (spec §9).
   The kernels are runtime functions modelled from the spec, so a property
   comparing them with a second encoding of the spec would hold by
   definition; lines 384-389 only decide that `scale` passes the double.
6. *(done)* The receiver of `getAt`/`setAt`: violation run `setat_receiver`.
7. *(dropped)* Composing storage with the operations adds no check of
   lines 1152-1178 beyond `array`: what it adds (NaN payloads surviving the
   store) is a property of the engine's element store, modelled from spec.
8. Open: `min`/`max`/`clamp` with -0 and NaN. Their kernels are modelled
   from the spec, which does not fix the order of -0 and +0, so a property
   would only restate the model.

## Not modelled

* What the runtime kernels compute (`%SIMDAdd` .. `%SIMDScale`, the
  comparisons, int wrap-around, `%GetSignMask`, the bit casts, the engine's
  element load and store). They are C++ that this file only calls, modelled
  from spec §4 so that the JS around them can be checked. No property
  compares them with a second encoding of the spec, which would hold by
  definition: the `signMask`, float rounding and NaN-store properties of
  earlier versions were removed for that reason.
* Bootstrap plumbing: `%SetCode`, `%FunctionSetPrototype`, property
  attributes, `%SetInlineBuiltinFlag`. These run once, and no call can
  change them. What the install tables decide (which name reaches which
  function, and the prototypes of `getAt`/`setAt`) is modelled as the
  dispatch of `SIMDOps` and `SIMDArray`.
* `toString` text is abstracted to the kind and the lane numbers.
* Typed arrays as the source of another typed array. The model never takes
  the runtime's fast copy (`%TypedArrayInitializeFromArrayLike` returning
  true). Neither the file nor the spec fixes what the runtime's element
  store does with a vector of the other SIMD kind. That store happens in
  the copy loop, and in `setAt` through the other prototype. The model
  takes it to be a `TypeError` (`ElementCoerce`). The `setat_receiver`
  finding does not depend on this choice: the setter's own check throws
  first.
* Infinite and non-integer-string indices, and infinite lengths and offsets.
  `TruncInt` maps infinities to 0, whereas `TO_INTEGER` keeps them.
* Numbers ≥ 2^31: TLC cannot hold them. So `TO_INT32` wrap-around of a
  mask such as 2^32 + 0xE4 is out of reach, and only the scaled lane wrap is
  checked.
