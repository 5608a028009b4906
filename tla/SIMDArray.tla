------------------------------ MODULE SIMDArray ------------------------------
(***************************************************************************)
(* Vector Array Storage of simd128.js (lines 1073-1188): the constructor   *)
(* that TYPED_ARRAY_CONSTRUCTOR expands for Float32x4Array and             *)
(* Int32x4Array, with its three paths, and getAt/setAt.                    *)
(*                                                                         *)
(* State is the ArrayBuffers, as byte lengths and 32-bit words (one lane   *)
(* per word, x at the lowest address), and the typed-array views, as a     *)
(* kind, a buffer, a byte offset and a byte length: what                   *)
(* %TypedArrayInitialize records.  Views over one buffer alias, also       *)
(* across kinds.  The client creates buffers, constructs arrays, and calls *)
(* getAt and setAt, one call per step as in SIMDCore.                      *)
(***************************************************************************)
EXTENDS SIMDCore, Sequences

CONSTANTS
  ByteLengths, FirstArgs, OffsetArgs, LengthArgs, Indices, Elements,
  MaxBuffers,    \* bound on the buffers the client and the constructor create
  MaxViews       \* bound on the arrays constructed

VARIABLES buffers, views
arrayVars == <<call, form, args, ret, buffers, views>>

\* FLOAT32x4OrINT32x4_TYPED_ARRAYS: both kinds have 16-byte elements.
ELEMENT_SIZE == 16
ArrayName == ("float32x4" :> "Float32x4Array") @@ ("int32x4" :> "Int32x4Array")
LaneWords == 4   \* words per element
Kind == DOMAIN ArrayName

IntOf(x) == TruncInt(x.num)

-----------------------------------------------------------------------------
(* The runtime calls (not in this file). *)

\* Variant: one word more than the bytes hold.
NewZeroBufferExtraWord(n) == [byteLength |-> n, words |-> [w \in 0..(n \div 4) |-> 0]]

\* new $ArrayBuffer(n): n zero bytes.
NewZeroBuffer(n) == [byteLength |-> n, words |-> [w \in 0..(n \div 4 - 1) |-> 0]]

\* %TypedArrayInitialize(obj, id, buffer, offset, byteLength): the view;
\* the runtime asserts the range it is handed.
TypedArrayInitialize(kind, bufs, b, offset, byteLength) ==
  IF \/ offset % ELEMENT_SIZE # 0 \/ byteLength % ELEMENT_SIZE # 0
     \/ offset + byteLength > bufs[b].byteLength
  THEN /\ ret' = Throw("IllegalOperation")
       /\ UNCHANGED <<buffers, views>>
  ELSE /\ buffers' = bufs
       /\ views' = Append(views, [kind |-> kind, buffer |-> b,
                                  byteOffset |-> offset, byteLength |-> byteLength])
       /\ ret' = TypedArrayV(Len(views) + 1)

\* The words of element i of view v.
ElementWords(v, i) == v.byteOffset \div 4 + LaneWords * i
InBounds(v, i) == i \in 0..(v.byteLength \div ELEMENT_SIZE - 1)

\* `this[i]` on a typed array: the element, or undefined out of bounds.
ElementLoad(v, i) ==
  IF InBounds(v, i)
  THEN [t |-> v.kind,
        lanes |-> [l \in Lanes |-> buffers[v.buffer].words[ElementWords(v, i) + l - 1]]]
  ELSE UndefinedV

\* `this[i] = u`: the 16 bytes of u, nothing out of bounds.
ElementStore(words, v, i, u) ==
  IF InBounds(v, i)
  THEN [w \in DOMAIN words |->
          IF w - ElementWords(v, i) \in 0..(LaneWords - 1)
          THEN u.lanes[w - ElementWords(v, i) + 1] ELSE words[w]]
  ELSE words

\* The element store of a value of another kind fails as setAt does.
ElementCoerce(kind, x) ==
  LET u == IF IS_FLOAT32x4_WRAPPER(x) \/ IS_INT32x4_WRAPPER(x) THEN x.prim ELSE x
  IN  IF u.t = kind THEN u ELSE Throw("TypeError")

-----------------------------------------------------------------------------
(* The constructor (lines 1079-1143). *)

Raise(e) == /\ ret' = e
            /\ UNCHANGED <<buffers, views>>

\* Variant: without a length the view takes the whole buffer, not the part
\* after the offset.
ConstructByArrayBufferWholeBuffer(kind, b, byteOffset, length) ==
  LET o == ToPositiveInteger(byteOffset)
      l == ToPositiveInteger(length)
      newByteLength == IF length = UndefinedV THEN buffers[b].byteLength - 0
                       ELSE IntOf(l) * ELEMENT_SIZE
  IN  CASE IsThrow(o)                            -> Raise(o)
        [] IntOf(o) % ELEMENT_SIZE # 0           -> Raise(Throw("RangeError"))
        [] IntOf(o) > buffers[b].byteLength      -> Raise(Throw("RangeError"))
        [] length # UndefinedV /\ IsThrow(l)     -> Raise(l)
        [] IntOf(o) + newByteLength > buffers[b].byteLength
                                                 -> Raise(Throw("RangeError"))
        [] OTHER -> TypedArrayInitialize(kind, buffers, b, IntOf(o), newByteLength)

ConstructByArrayBuffer(kind, b, byteOffset, length) ==
  LET o == ToPositiveInteger(byteOffset)
      offset == IntOf(o)
      bufferByteLength == buffers[b].byteLength
      l == ToPositiveInteger(length)
      newByteLength == IF length = UndefinedV THEN bufferByteLength - offset
                       ELSE IntOf(l) * ELEMENT_SIZE
  IN  CASE IsThrow(o)                       -> Raise(o)
        [] offset % ELEMENT_SIZE # 0        -> Raise(Throw("RangeError"))
        [] offset > bufferByteLength        -> Raise(Throw("RangeError"))
        [] length = UndefinedV /\ bufferByteLength % ELEMENT_SIZE # 0
                                            -> Raise(Throw("RangeError"))
        [] length # UndefinedV /\ IsThrow(l) -> Raise(l)
        [] offset + newByteLength > bufferByteLength
                                            -> Raise(Throw("RangeError"))
        [] OTHER -> TypedArrayInitialize(kind, buffers, b, offset, newByteLength)

ConstructByLength(kind, length) ==
  LET l == ToPositiveInteger(length)
      byteLength == IntOf(l) * ELEMENT_SIZE
  IN  IF IsThrow(l) THEN Raise(l)
      ELSE TypedArrayInitialize(kind, Append(buffers, NewZeroBuffer(byteLength)),
                                Len(buffers) + 1, 0, byteLength)

\* %TypedArrayInitializeFromArrayLike allocates l zeroed elements and copies
\* only from a typed array of the same kind, so for these sources the loop
\* `obj[i] = arrayLike[i]` runs; its first failing store is the exception.
\* An array that throws is unreachable, so its buffer is not kept.
ConstructByArrayLike(kind, arrayLike) ==
  LET length == IF arrayLike.t = "arraylike" THEN arrayLike.length ELSE UndefinedV
      l == ToPositiveInteger(length)
      item(i) == IF arrayLike.t = "arraylike" /\ i < Len(arrayLike.elems)
                 THEN arrayLike.elems[i + 1] ELSE UndefinedV
      stored == [i \in 0..(IntOf(l) - 1) |-> ElementCoerce(kind, item(i))]
      byteLength == IntOf(l) * ELEMENT_SIZE
      words == [w \in 0..(IntOf(l) * LaneWords - 1) |->
                  stored[w \div LaneWords].lanes[(w % LaneWords) + 1]]
  IN  CASE IsThrow(l) -> Raise(l)
        [] \E i \in DOMAIN stored : IsThrow(stored[i]) ->
             Raise(stored[CHOOSE i \in DOMAIN stored :
                             IsThrow(stored[i]) /\ \A j \in 0..(i - 1) : ~IsThrow(stored[j])])
        [] OTHER ->
             TypedArrayInitialize(kind,
               Append(buffers, [byteLength |-> byteLength, words |-> words]),
               Len(buffers) + 1, 0, byteLength)

IS_ARRAYBUFFER(v) == v.t = "arraybuffer"

\* NAMEConstructor(arg1, arg2, arg3).
Constructor(kind, construct, arg1, arg2, arg3) ==
  CASE ~construct          -> Raise(Throw("TypeError"))
    [] IS_ARRAYBUFFER(arg1) -> ConstructByArrayBuffer(kind, arg1.id, arg2, arg3)
    [] arg1.t \in {"number", "string", "boolean", "undefined"}
                           -> ConstructByLength(kind, arg1)
    [] OTHER               -> ConstructByArrayLike(kind, arg1)

-----------------------------------------------------------------------------
(* getAt and setAt (lines 1145-1188). *)

\* Float32x4ArrayGet and Int32x4ArrayGet: `return this[i]`.
ArrayGet(a, i) == ElementLoad(views[a], i)

\* Float32x4ArraySet: `v = TO_FLOAT32x4(v); CHECK_FLOAT32x4(v);`, then the
\* store; Int32x4ArraySet likewise.
Float32x4ArraySet(v) == LET u == Float32x4Unwrap(v) IN IF IS_FLOAT32x4(u) THEN u ELSE Throw("TypeError")
Int32x4ArraySet(v) == LET u == Int32x4Unwrap(v) IN IF IS_INT32x4(u) THEN u ELSE Throw("TypeError")

\* SetUpFloat32x4Array and SetUpInt32x4Array install getAt and setAt on
\* each prototype; the setter coerces to its own kind.
SetAtCoercion(kind, v) ==
  IF kind = "float32x4" THEN Float32x4ArraySet(v) ELSE Int32x4ArraySet(v)

\* The setter of the given kind called on view a.  `this` is not checked,
\* so the coerced value meets the element store of the array's own kind.
ArraySet(kind, a, i, v) ==
  LET u == SetAtCoercion(kind, v)
      s == IF IsThrow(u) THEN u ELSE ElementCoerce(views[a].kind, u)
      b == views[a].buffer
  IN  IF IsThrow(s) THEN Raise(s)
      ELSE /\ buffers' = [buffers EXCEPT ![b].words = ElementStore(@, views[a], i, s)]
           /\ ret' = UndefinedV
           /\ UNCHANGED views

-----------------------------------------------------------------------------
(* The client *)

Call(fn, c, a) == /\ call = "none" /\ call' = fn /\ form' = c /\ args' = a

ArrayInit ==
  /\ call = "none" /\ form = FALSE /\ args = <<>> /\ ret = UndefinedV
  /\ buffers = <<>> /\ views = <<>>

\* `new ArrayBuffer(n)` (typedarray.js, not this file).
CallArrayBuffer ==
  \E n \in ByteLengths :
    /\ Len(buffers) < MaxBuffers
    /\ Call("ArrayBuffer", TRUE, <<n>>)
    /\ buffers' = Append(buffers, NewZeroBuffer(n))
    /\ ret' = ArrayBufferV(Len(buffers) + 1)
    /\ UNCHANGED views

\* `new Float32x4Array(arg1, arg2, arg3)` or a call without `new`; the
\* paths that allocate are taken while there is room for a buffer.
CallConstructor ==
  \E kind \in DOMAIN ArrayName, c \in BOOLEAN,
     arg1 \in FirstArgs \cup {ArrayBufferV(b) : b \in DOMAIN buffers},
     arg2 \in OffsetArgs, arg3 \in LengthArgs :
    /\ Len(views) < MaxViews
    /\ IS_ARRAYBUFFER(arg1) \/ Len(buffers) < MaxBuffers
    /\ Call(kind, c, <<arg1, arg2, arg3>>)
    /\ Constructor(kind, c, arg1, arg2, arg3)

CallGetAt ==
  \E a \in DOMAIN views, i \in Indices :
    /\ Call("getAt", FALSE, <<TypedArrayV(a), i>>)
    /\ ret' = ArrayGet(a, i)
    /\ UNCHANGED <<buffers, views>>

\* arr.setAt(i, v): the setter of the array's own prototype.
CallSetAt ==
  \E a \in DOMAIN views, i \in Indices, v \in Elements :
    /\ Call("setAt", FALSE, <<TypedArrayV(a), i, v>>)
    /\ ArraySet(views[a].kind, a, i, v)

\* Float32x4Array.prototype.setAt.call(arr, i, v): either prototype's
\* setter on an array of either kind.
CallSetAtAnyReceiver ==
  \E kind \in Kind, a \in DOMAIN views, i \in Indices, v \in Elements :
    /\ Call("setAt", FALSE, <<TypedArrayV(a), i, v>>)
    /\ ArraySet(kind, a, i, v)

ArrayTakeResult ==
  /\ call # "none"
  /\ call' = "none" /\ form' = FALSE /\ args' = <<>> /\ ret' = UndefinedV
  /\ UNCHANGED <<buffers, views>>

ArrayNext ==
  \/ CallArrayBuffer
  \/ CallConstructor
  \/ CallGetAt
  \/ CallSetAt
  \/ ArrayTakeResult

ArraySpec == ArrayInit /\ [][ArrayNext]_arrayVars

\* A client that also calls the setters through the other prototype.
ArraySpecAnyReceiver == ArrayInit /\ [][ArrayNext \/ CallSetAtAnyReceiver]_arrayVars
-----------------------------------------------------------------------------
(* Properties *)

\* Every buffer has a word for each whole 4 bytes and W-bit lanes in them;
\* every view names a buffer and has a kind.
ArrayTypeOK ==
  /\ \A b \in DOMAIN buffers :
       buffers[b].words \in [0..(buffers[b].byteLength \div 4 - 1) -> LaneBits]
  /\ \A a \in DOMAIN views :
       /\ views[a].kind \in Kind
       /\ views[a].buffer \in DOMAIN buffers
       /\ views[a].byteOffset \in Nat /\ views[a].byteLength \in Nat
  /\ Len(buffers) <= MaxBuffers /\ Len(views) <= MaxViews

\* The refinement mapping: a buffer's cells are its whole 16-byte slots,
\* the lanes of a cell are its four words, and a view's elements are the
\* cells from byteOffset / 16 on.
CellLanes(b, s) == [l \in Lanes |-> buffers[b].words[LaneWords * s + l - 1]]
AllCells == UNION {{<<b, s>> : s \in 0..(buffers[b].byteLength \div ELEMENT_SIZE - 1)} :
                   b \in DOMAIN buffers}

AbsRegions == [b \in DOMAIN buffers |-> buffers[b].byteLength]
AbsMem == [c \in AllCells |-> CellLanes(c[1], c[2])]
AbsArrays == [a \in DOMAIN views |->
               [kind  |-> views[a].kind,
                cells |-> [k \in 1..(views[a].byteLength \div ELEMENT_SIZE) |->
                             <<views[a].buffer, views[a].byteOffset \div ELEMENT_SIZE + k - 1>>]]]

Abs == INSTANCE SIMDArrayAbstract WITH regions <- AbsRegions, mem <- AbsMem, arrays <- AbsArrays

\* The code implements spec 4.4: each constructor call (its path chosen by
\* the first argument, the checks of ConstructByArrayBuffer in their order,
\* the copy of an array-like) fails only with an error the spec allows and
\* otherwise yields an array over exactly the cells the spec names, and
\* getAt/setAt through views of either kind that alias one buffer read and
\* write the shared cells.
ArraySpecRefined == Abs!ASpec
=============================================================================
