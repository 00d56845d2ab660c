------------------------------ MODULE SclWire ------------------------------
(***************************************************************************)
(* How the secure computation library writes field and ring elements,      *)
(* vectors and matrices as bytes, sends them over a channel and reads them *)
(* (ff.h, z2k.h, vec.h, mat.h, net/channel.h).  A byte has H bits and a    *)
(* machine word two bytes; a type is FF, or Z2k with its k bits.  A matrix *)
(* is its sizes and its entries row after row.                             *)
(***************************************************************************)
EXTENDS SclMath, FiniteSets

CONSTANT MAX_READ_SIZE   \* MAX_VEC_READ_SIZE and MAX_MAT_READ_SIZE
ASSUME ReadSizeAssumption == MAX_READ_SIZE \in 0 .. Word - 1

Byte == 2^H
ToWord(bytes) == bytes[1] + Byte * bytes[2]
BytesOf(word) == <<word % Byte, word \div Byte>>

-----------------------------------------------------------------------------
(* Elements.                                                               *)

FFType == [of |-> "FF"]
Z2kType(k) == [of |-> "Z2k", k |-> k]
ByteSize(ty) == IF ty.of = "FF" THEN 2 ELSE (ty.k - 1) \div H + 1
Equal(ty, a, b) == IF ty.of = "FF" THEN a = b ELSE EqualZ2k(a, b, ty.k)

\* A ring element is normalised when it is written.
WriteZ2k(v, k) == SubSeq(BytesOf(MaskZ2k(v, k)), 1, ByteSize(Z2kType(k)))
\* A whole word is read, whatever follows the element's bytes.
ReadZ2k(src, k) == MaskZ2k(ToWord(src), k)

Write(ty, v) == IF ty.of = "FF" THEN BytesOf(v) ELSE WriteZ2k(v, ty.k)
Read(ty, src) == IF ty.of = "FF" THEN FromBytes(ToWord(src)) ELSE ReadZ2k(src, ty.k)
\* From the bytes the generator returns.
Random(ty, drawn) == Read(ty, drawn)

AddZ2k(a, b) == (a + b) % Word
SubtractZ2k(a, b) == (a - b) % Word
MultiplyZ2k(a, b) == (a * b) % Word
NegateZ2k(a) == (-a) % Word
DivideZ2k(a, b, k) ==
    LET inverse == InvertZ2k(b, k, 2 * H)
    IN IF Threw(inverse) THEN Thrown ELSE Value(MultiplyZ2k(a, inverse.value))
DivideFF(a, b) ==
    LET inverse == InverseModPrimeSimpleType(b)
    IN IF Threw(inverse) THEN Thrown ELSE Value(Multiply61(a, inverse.value))

-----------------------------------------------------------------------------
(* Vectors and matrices.  beyond is what lies in memory behind a buffer.   *)

WriteAll(ty, vs) ==
    LET bytes[i \in 0 .. Len(vs)] == IF i = 0 THEN <<>> ELSE bytes[i - 1] \o Write(ty, vs[i]) IN bytes[Len(vs)]
ReadAll(ty, n, buf, beyond) ==
    LET offset(i) == (i - 1) * ByteSize(ty)
    IN Vec(n, LAMBDA i : Read(ty, SubSeq(buf \o beyond, offset(i) + 1, offset(i) + 2)))

Mat(rows, cols, values) == [rows |-> rows, cols |-> cols, values |-> values]
NewMat(n, m) == IF n = 0 \/ m = 0 THEN Thrown ELSE Value(Mat(n, m, Vec(n * m, LAMBDA i : 0)))
CheckedFromVector(n, m, v) == IF Len(v) # n * m THEN Thrown ELSE Value(Mat(n, m, v))

ReadMat(ty, n, m, buf, beyond) == Mat(n, m, ReadAll(ty, n * m, buf, beyond))
WriteMat(ty, A) == WriteAll(ty, A.values)

VecEquals(ty, u, v) == Len(u) = Len(v) /\ \A i \in 1 .. Len(u) : Equal(ty, u[i], v[i])
MatEquals(ty, A, B) == A.rows = B.rows /\ A.cols = B.cols /\ VecEquals(ty, A.values, B.values)

\* The entries in where are drawn one after the other, the others are 0.
PartialRandom(ty, n, where, drawn) ==
    LET before(i) == Cardinality({j \in where : j < i})
    IN Vec(n, LAMBDA i : IF i \in where THEN Random(ty, drawn[before(i) + 1]) ELSE 0)
VecRandom(ty, n, drawn) == PartialRandom(ty, n, 1 .. n, drawn)
\* One request for all entries.
MatRandom(ty, n, m, buf, beyond) == ReadMat(ty, n, m, buf, beyond)

\* Operations in place check the sizes first.
VecCompatible(u, v) == Len(u) = Len(v)
VecAddInPlace(u, v) == IF VecCompatible(u, v) THEN Value(VecAdd(u, v)) ELSE Thrown
VecSubtractInPlace(u, v) == IF VecCompatible(u, v) THEN Value(VecSubtract(u, v)) ELSE Thrown
VecMultiplyInPlace(u, v) == IF VecCompatible(u, v) THEN Value(VecMultiplyEntryWise(u, v)) ELSE Thrown
MatCompatible(A, B) == A.rows = B.rows /\ A.cols = B.cols
MatAddInPlace(A, B) ==
    IF MatCompatible(A, B) THEN Value([A EXCEPT !.values = VecAdd(@, B.values)]) ELSE Thrown

-----------------------------------------------------------------------------
(* The channel: what is sent is appended to its bytes, what is received is *)
(* taken from their front.  Sizes are words, and their product wraps.      *)

SendBytes(chan, bytes) == chan \o bytes
SendItem(chan, word) == SendBytes(chan, BytesOf(word % Word))
\* An std::vector goes as it lies in memory, whole words and no size.
SendStl(chan, vs) ==
    LET sent[i \in 0 .. Len(vs)] == IF i = 0 THEN chan ELSE SendItem(sent[i - 1], vs[i]) IN sent[Len(vs)]
SendVec(chan, ty, v) == SendBytes(SendItem(chan, Len(v)), WriteAll(ty, v))
SendMat(chan, ty, A) == SendBytes(SendItem(SendItem(chan, A.rows), A.cols), WriteMat(ty, A))

RecvBytes(chan, n) == [chan |-> SubSeq(chan, n + 1, Len(chan)), got |-> SubSeq(chan, 1, n)]
RecvSize(chan) == LET r == RecvBytes(chan, 2) IN [r EXCEPT !.got = ToWord(@)]
RecvStl(chan, n) ==
    LET r == RecvBytes(chan, 2 * n)
    IN [r EXCEPT !.got = Vec(n, LAMBDA i : ToWord(SubSeq(r.got, 2 * i - 1, 2 * i)))]
\* On a throw the sizes are gone from the channel and the entries are not.
RecvVec(chan, ty, beyond) ==
    LET size == RecvSize(chan)
        r == RecvBytes(size.chan, size.got * ByteSize(ty))
    IN IF size.got > MAX_READ_SIZE THEN [size EXCEPT !.got = Thrown]
       ELSE [r EXCEPT !.got = Value(ReadAll(ty, size.got, @, beyond))]
RecvMat(chan, ty, beyond) ==
    LET rows == RecvSize(chan)
        cols == RecvSize(rows.chan)
        total == (rows.got * cols.got) % Word
        r == RecvBytes(cols.chan, total * ByteSize(ty))
    IN IF total > MAX_READ_SIZE THEN [cols EXCEPT !.got = Thrown]
       ELSE [r EXCEPT !.got = Value(ReadMat(ty, rows.got, cols.got, @, beyond))]
=============================================================================
