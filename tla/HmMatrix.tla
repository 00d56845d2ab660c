------------------------------ MODULE HmMatrix ------------------------------
(***************************************************************************)
(* hmmpc's operations on matrices of field elements (Math/gfpMatrix.h).    *)
(* A matrix is a sequence of rows; the code stores it row after row, and   *)
(* an octetStream is the sequence of the elements appended to it.  Index i *)
(* of the code is i + 1 here.                                              *)
(***************************************************************************)
EXTENDS Gfp, Sequences

\* The sequence f(1), ..., f(n), with its elements evaluated once.
Seqn(n, f(_)) ==
    LET v[i \in 0 .. n] == IF i = 0 THEN <<>> ELSE Append(v[i - 1], f(i)) IN v[n]

Rows(m) == Len(m)
Cols(m) == IF m = <<>> THEN 0 ELSE Len(m[1])
Matrix(rows, cols, f(_, _)) == [i \in 1 .. rows |-> [j \in 1 .. cols |-> f(i, j)]]
\* The elements in storage order.
Flat(m) == [k \in 1 .. Rows(m) * Cols(m) |-> m[(k - 1) \div Cols(m) + 1][((k - 1) % Cols(m)) + 1]]
Reshaped(v, rows, cols) == Matrix(rows, cols, LAMBDA i, j : v[(i - 1) * cols + j])
Dot(u, v) ==
    LET sum[i \in 0 .. Len(u)] == IF i = 0 THEN 0 ELSE AddMod(sum[i - 1], MultMod(u[i], v[i]))
    IN sum[Len(u)]

\* pack_rows(matrix, os): block i of the rows, the first one with what the
\* division leaves over; partition_rows computes the same blocks.
\* Mutant: the remainder goes to nobody.
BlockRowsEqual(rows, n, i) ==
    [start |-> (i - 1) * (rows \div n), size |-> rows \div n]
BlockRows(rows, n, i) ==
    LET size  == rows \div n
        first == rows - size * (n - 1)
    IN IF i = 1 THEN [start |-> 0, size |-> first]
       ELSE [start |-> first + size * (i - 2), size |-> size]

PackRows(v, n) ==
    [i \in 1 .. n |-> LET b == BlockRows(Len(v), n, i) IN SubSeq(v, b.start + 1, b.start + b.size)]

\* unpack_rows(matrix, os): block after block; an empty stream leaves its block
\* as it was.
UnpackRows(v, os) ==
    [k \in 1 .. Len(v) |->
        LET start(i) == BlockRows(Len(v), Len(os), i).start
            from == {i \in 1 .. Len(os) : k - start(i) \in 1 .. Len(os[i])}
        IN IF from = {} THEN v[k]
           ELSE LET i == CHOOSE i \in from : \A h \in from : h <= i IN os[i][k - start(i)]]

\* unpack_row: likewise, row by row.
UnpackRow(m, os) == [i \in 1 .. Rows(m) |-> IF os[i] = <<>> THEN m[i] ELSE os[i]]

bits_coeff == Seqn(E, LAMBDA i : 2^(i - 1))

\* shares * bits_coeff: the field element of E bits (all ones make 0).
Solved(bits) == Dot(bits, bits_coeff)
\* trunc_bits: the bits moved down by d places, the places above filled with
\* the sign.
TruncatedBits(rBits, d) == [i \in 1 .. E |-> IF i <= E - d THEN rBits[i + d] ELSE rBits[E]]

\* decompose_bits, least significant bit first.
DecomposeBits(x, length) == [i \in 1 .. length |-> ShiftRight(x, i - 1) % 2]

PrefixMult(v) ==
    LET res[i \in 1 .. Len(v)] ==
            IF i = 1 THEN <<v[1]>> ELSE LET p == res[i - 1] IN Append(p, MultMod(p[i - 1], v[i]))
    IN res[Len(v)]

\* batch_inversion: one inversion of the product of all.
\* Mutant: the prefix products are used one place too late.
BatchInversionShifted(v) ==
    LET n == Len(v)
        prefix == PrefixMult(v)
        \* The inverse of prefix[i].
        inv[i \in 1 .. n] == IF i = n THEN MultiplicativeInverse(prefix[n])
                             ELSE MultMod(inv[i + 1], v[i + 1])
    IN Seqn(n, LAMBDA i : IF i = 1 THEN inv[1] ELSE MultMod(prefix[i], inv[i]))
BatchInversion(v) ==
    LET n == Len(v)
        prefix == PrefixMult(v)
        \* The inverse of prefix[i].
        inv[i \in 1 .. n] == IF i = n THEN MultiplicativeInverse(prefix[n])
                             ELSE MultMod(inv[i + 1], v[i + 1])
    IN Seqn(n, LAMBDA i : IF i = 1 THEN inv[1] ELSE MultMod(prefix[i - 1], inv[i]))

-----------------------------------------------------------------------------
(* Images, one per row, feature after feature, each of height ih and width *)
(* iw; f is the size of the square window, s the stride, p the padding.    *)

\* zeroPad(a, b): b starts out as zeros.
ZeroPad(a, iw, ih, p, din) ==
    LET w == iw + 2 * p
        h == ih + 2 * p
    IN Matrix(Rows(a), w * h * din, LAMBDA i, c :
           LET j == (c - 1) \div (w * h)
               k == ((c - 1) % (w * h)) \div w - p
               l == ((c - 1) % w) - p
           IN IF k \in 0 .. ih - 1 /\ l \in 0 .. iw - 1
              THEN a[i][j * iw * ih + k * iw + l + 1] ELSE 0)

\* The window of feature d at output position (j, k), row by row.
Window(image, iw, ih, s, f, d, j, k) ==
    [x \in 1 .. f * f |->
        image[(d * ih + j * s + (x - 1) \div f) * iw + k * s + ((x - 1) % f) + 1]]

\* convolExtend: one row per image and position, the windows of all features.
ConvolExtend(a, iw, ih, ow, oh, din, s, f) ==
    Matrix(Rows(a) * ow * oh, f * f * din, LAMBDA r, c :
        LET pos == (r - 1) % (ow * oh)
        IN Window(a[(r - 1) \div (ow * oh) + 1], iw, ih, s, f, (c - 1) \div (f * f),
                  pos \div ow, pos % ow)[((c - 1) % (f * f)) + 1])

\* maxpoolExtend: one row per image, feature and position.
MaxpoolExtend(a, iw, ih, ow, oh, din, s, f) ==
    [r \in 1 .. Rows(a) * ow * oh * din |->
        LET rest == (r - 1) % (ow * oh * din)
            pos  == rest % (ow * oh)
        IN Window(a[(r - 1) \div (ow * oh * din) + 1], iw, ih, s, f, rest \div (ow * oh),
                  pos \div ow, pos % ow)]
=============================================================================
