------------------------- MODULE SIMDArrayAbstract -------------------------
(***************************************************************************)
(* What spec section 4.4 promises of Float32x4Array and Int32x4Array,      *)
(* without byte arithmetic: memory is a set of 16-byte cells <<b, s>>      *)
(* (slot s of buffer b) each holding the four lanes of one vector, and an  *)
(* array is a kind and the sequence of cells its elements live in.  Two    *)
(* arrays alias exactly where their cell sequences share a cell.           *)
(*                                                                         *)
(* Construction follows the three paths of 4.4 with their RangeError and   *)
(* TypeError conditions; when several conditions fail the spec fixes no    *)
(* order, so the call may fail with any of them.  get(i) reads the cell of *)
(* element i, set(i, v) coerces v to the array's kind and then writes it;  *)
(* an index outside the array reads undefined and writes nothing (the      *)
(* generic typed-array behaviour 4.4 defers to).                           *)
(***************************************************************************)
EXTENDS SIMDCore, Sequences

CONSTANTS
  ByteLengths,   \* byte lengths the client creates ArrayBuffers with
  FirstArgs,     \* JS values passed as a constructor's first argument
  OffsetArgs,    \* byteOffset arguments
  LengthArgs,    \* length arguments (UndefinedV: none given)
  Indices,       \* indices of getAt and setAt
  Elements       \* values stored with setAt

VARIABLES regions, mem, arrays
avars == <<call, form, args, ret, regions, mem, arrays>>

Kinds == {"float32x4", "int32x4"}
Stride == 16
ZeroLanes == [i \in Lanes |-> 0]

\* The cells of a buffer of n bytes: one per whole 16 bytes.
CellsOf(b, n) == {<<b, s>> : s \in 0..(n \div Stride - 1)}

\* v as a value of the given kind, or the TypeError of a failed coercion.
CoerceTo(kind, v) ==
  LET u == IF v.t = "wrapper" /\ v.prim.t = kind THEN v.prim ELSE v
  IN  IF u.t = kind THEN u ELSE Throw("TypeError")

ValueOf(kind, l) == [t |-> kind, lanes |-> l]

\* A new buffer of n bytes whose cells hold lanes[1], lanes[2], ... and then
\* zeros, and an array of the given kind over its first count cells.
Allocate(kind, n, count, lanes) ==
  LET b == Len(regions) + 1
  IN  /\ regions' = Append(regions, n)
      /\ mem' = [c \in DOMAIN mem \cup CellsOf(b, n) |->
                   IF c \in DOMAIN mem THEN mem[c]
                   ELSE IF c[2] < Len(lanes) THEN lanes[c[2] + 1] ELSE ZeroLanes]
      /\ arrays' = Append(arrays, [kind |-> kind,
                                   cells |-> [k \in 1..count |-> <<b, k - 1>>]])
      /\ ret' = TypedArrayV(Len(arrays) + 1)

Begin(fn, c, a) == /\ call = "none" /\ call' = fn /\ form' = c /\ args' = a

Fail(errs) == /\ ret' \in {Throw(e) : e \in errs}
              /\ UNCHANGED <<regions, mem, arrays>>

IsInt(x) == ~IsThrow(x)
IntOf(x) == TruncInt(x.num)
ErrsOf(x) == IF IsThrow(x) THEN {x.err} ELSE {}

\* 4.4 (1): a view of buffer b at byteOffset off with the given length.
FromBuffer(kind, b, off, len) ==
  LET bl == regions[b]
      o  == ToPositiveInteger(off)
      n  == ToPositiveInteger(len)
      given == len # UndefinedV
      errs ==
        ErrsOf(o) \cup (IF given THEN ErrsOf(n) ELSE {}) \cup
        (IF IsInt(o) /\ \/ IntOf(o) % Stride # 0
                        \/ IntOf(o) > bl
                        \/ ~given /\ (bl - IntOf(o)) % Stride # 0
                        \/ given /\ IsInt(n) /\ IntOf(o) + IntOf(n) * Stride > bl
         THEN {"RangeError"} ELSE {})
      count == IF given THEN IntOf(n) ELSE (bl - IntOf(o)) \div Stride
  IN  IF errs # {} THEN Fail(errs)
      ELSE /\ arrays' = Append(arrays, [kind |-> kind,
                          cells |-> [k \in 1..count |-> <<b, IntOf(o) \div Stride + k - 1>>]])
           /\ ret' = TypedArrayV(Len(arrays) + 1)
           /\ UNCHANGED <<regions, mem>>

\* 4.4 (2): a fresh zeroed buffer of count * 16 bytes.
FromCount(kind, len) ==
  LET n == ToPositiveInteger(len)
  IN  IF IsThrow(n) THEN Fail({n.err})
      ELSE Allocate(kind, IntOf(n) * Stride, IntOf(n), <<>>)

\* 4.4 (3): the source's length, then every element coerced like set.
FromArrayLike(kind, src) ==
  LET n == ToPositiveInteger(IF src.t = "arraylike" THEN src.length ELSE UndefinedV)
      elem(k) == IF src.t = "arraylike" /\ k <= Len(src.elems) THEN src.elems[k]
                 ELSE UndefinedV
      vals == [k \in 1..IntOf(n) |-> CoerceTo(kind, elem(k))]
  IN  CASE IsThrow(n)                       -> Fail({n.err})
        [] \E k \in 1..IntOf(n) : IsThrow(vals[k]) -> Fail({"TypeError"})
        [] OTHER -> Allocate(kind, IntOf(n) * Stride, IntOf(n),
                             [k \in 1..IntOf(n) |-> vals[k].lanes])

\* `new Float32x4Array(arg1, arg2, arg3)`: the path is chosen by arg1.
Construct(kind, c, a1, a2, a3) ==
  /\ Begin(kind, c, <<a1, a2, a3>>)
  /\ CASE ~c                     -> Fail({"TypeError"})
       [] a1.t = "arraybuffer"   -> FromBuffer(kind, a1.id, a2, a3)
       [] a1.t \in {"number", "string", "boolean", "undefined"} -> FromCount(kind, a1)
       [] OTHER                  -> FromArrayLike(kind, a1)

Get(a, i) ==
  /\ Begin("getAt", FALSE, <<TypedArrayV(a), i>>)
  /\ ret' = IF i \in 0..(Len(arrays[a].cells) - 1)
            THEN ValueOf(arrays[a].kind, mem[arrays[a].cells[i + 1]])
            ELSE UndefinedV
  /\ UNCHANGED <<regions, mem, arrays>>

Set(a, i, v) ==
  LET u == CoerceTo(arrays[a].kind, v)
  IN  /\ Begin("setAt", FALSE, <<TypedArrayV(a), i, v>>)
      /\ IF IsThrow(u) THEN Fail({u.err})
         ELSE /\ ret' = UndefinedV
              /\ mem' = IF i \in 0..(Len(arrays[a].cells) - 1)
                        THEN [mem EXCEPT ![arrays[a].cells[i + 1]] = u.lanes]
                        ELSE mem
              /\ UNCHANGED <<regions, arrays>>

NewBuffer(n) ==
  /\ Begin("ArrayBuffer", TRUE, <<n>>)
  /\ regions' = Append(regions, n)
  /\ mem' = [c \in DOMAIN mem \cup CellsOf(Len(regions) + 1, n) |->
               IF c \in DOMAIN mem THEN mem[c] ELSE ZeroLanes]
  /\ ret' = ArrayBufferV(Len(regions) + 1)
  /\ UNCHANGED arrays

Done ==
  /\ call # "none"
  /\ call' = "none" /\ form' = FALSE /\ args' = <<>> /\ ret' = UndefinedV
  /\ UNCHANGED <<regions, mem, arrays>>

AInit ==
  /\ call = "none" /\ form = FALSE /\ args = <<>> /\ ret = UndefinedV
  /\ regions = <<>> /\ mem = <<>> /\ arrays = <<>>

ANext ==
  \/ \E n \in ByteLengths : NewBuffer(n)
  \/ \E kind \in Kinds, c \in BOOLEAN, a1 \in FirstArgs \cup {ArrayBufferV(b) : b \in DOMAIN regions},
        a2 \in OffsetArgs, a3 \in LengthArgs : Construct(kind, c, a1, a2, a3)
  \/ \E a \in DOMAIN arrays, i \in Indices : Get(a, i)
  \/ \E a \in DOMAIN arrays, i \in Indices, v \in Elements : Set(a, i, v)
  \/ Done

ASpec == AInit /\ [][ANext]_avars
=============================================================================
