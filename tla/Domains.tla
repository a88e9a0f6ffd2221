------------------------------ MODULE Domains ------------------------------
(***************************************************************************)
(* What zisk_zorch computes over the two evaluation domains of a prove,    *)
(* the subgroup of 2^nb points and the coset of 2^nbe: the low-degree      *)
(* extension of a section and its inverse (commit/trace_commit.py), the    *)
(* zerofiers (quotient/zerofier.py), the split of a quotient               *)
(* (quotient/compute_q.py) and the weights of an opening (evals/lev.py).   *)
(* A section is a sequence of columns.                                     *)
(***************************************************************************)
EXTENDS PrimeField

\* What the transform library gives: values at 1, w, w^2, ...
Ntt(coeffs, w, n) == Tabulated([x \in 1..n |-> Eval(coeffs, Power(w, x - 1))])

Scaled(coeffs, by) == Tabulated([k \in DOMAIN coeffs |-> (coeffs[k] * Power(by, k - 1)) % Prime])

CosetPoints(nb, bb) ==
    Tabulated([x \in 1..2^(nb + bb) |-> (CosetShift * Power(W(nb + bb), x - 1)) % Prime])

-----------------------------------------------------------------------------
(* trace_commit.py                                                         *)

\* Columns per block: what blockBytes holds, at least one, at most all.
BlockCols(extRows, nCols, blockBytes) ==
    Max({ 1, Min({ nCols, blockBytes \div (extRows * 8) }) })

\* One column through the Reed-Solomon code on the coset.
Encoded(column, nb, bb) ==
    Ntt(Scaled(InverseNtt(column, W(nb)), CosetShift), W(nb + bb), 2^(nb + bb))

BlockStarts(nCols, cols) == { j \in 1..nCols : (j - 1) % cols = 0 }

\* extend: the columns a block at a time into a zeroed section.
Extend(section, nb, bb, blockBytes) ==
    LET cols == BlockCols(2^(nb + bb), Len(section), blockBytes)
        starts == BlockStarts(Len(section), cols)
    IN  [c \in DOMAIN section |->
           IF \E j \in starts : c \in j..(j + cols - 1)
           THEN Encoded(section[c], nb, bb)
           ELSE [x \in 1..2^(nb + bb) |-> 0]]

\* unextend: coefficients on the coset, unscaled, cut to the base degree.
Unextend(extended, nb, bb) ==
    [c \in DOMAIN extended |->
       LET coeffs == Scaled(InverseNtt(extended[c], W(nb + bb)), InverseOf[CosetShift])
       IN  Ntt(SubSeq(coeffs, 1, 2^nb), W(nb), 2^nb)]

-----------------------------------------------------------------------------
(* zerofier.py                                                             *)

\* 1 / (x^N - 1): one period of 2^bb values, tiled.
InvZerofier(nb, bb) ==
    LET sn == Power(CosetShift, 2^nb)
        period == Tabulated([j \in 1..2^bb |-> Div(1, Sub((sn * Power(W(bb), j - 1)) % Prime, 1))])
    IN  Tabulated([x \in 1..2^(nb + bb) |-> period[((x - 1) % 2^bb) + 1]])

InvOneRowZerofier(nb, bb, row) ==
    LET zi == InvZerofier(nb, bb)
        coset == CosetPoints(nb, bb)
        root == Power(W(nb), row)
    IN  [x \in DOMAIN coset |-> Div(1, (Sub(coset[x], root) * zi[x]) % Prime)]

\* The product over the first offMin and the last offMax rows.
InvFrameZerofier(nb, bb, offMin, offMax) ==
    LET coset == CosetPoints(nb, bb)
        roots == [i \in 1..offMin |-> Power(W(nb), i - 1)]
                    \o [i \in 1..offMax |-> Power(W(nb), 2^nb - (i - 1) - 1)]
    IN  [x \in DOMAIN coset |->
           ProductOf([r \in DOMAIN roots |-> Sub(coset[x], roots[r])])]

-----------------------------------------------------------------------------
(* compute_q.py: one lane of the quotient as qDeg columns of degree < N.   *)

\* shift^(-pN): what the transform on the coset left in chunk p.
ChunkScale(p, nb) == Power(Power(InverseOf[CosetShift], 2^nb), p)

ComputeQ(lane, nb, nbe, qDeg) ==
    LET coeffs == InverseNtt(lane, W(nbe))
        chunk(p) == [k \in 1..2^nb |-> (coeffs[p * 2^nb + k] * ChunkScale(p, nb)) % Prime]
    IN  [p \in 1..qDeg |-> Ntt(chunk(p - 1), W(nbe), 2^nbe)]

-----------------------------------------------------------------------------
(* lev.py and deep/fri_polynomial.py                                       *)

\* w^p, p possibly negative.
RootPower(nb, p) == IF p >= 0 THEN Power(W(nb), p) ELSE InverseOf[Power(W(nb), -p)]

\* Mutant: the opening point is not taken back from the coset.
GShiftOnCoset(nb, p) == RootPower(nb, p)

GShift(nb, p) == (RootPower(nb, p) * InverseOf[CosetShift]) % Prime

\* One column of LEv: the closed form of the inverse transform of 1, g, g^2, ...
ComputeLev(xi, p, nb) ==
    LET g == (xi * GShift(nb, p)) % Prime
        num == Sub(Power(g, 2^nb), 1)
        wInv == InverseOf[W(nb)]
    IN  [j \in 1..2^nb |->
           Div(Div(num, Sub((g * Power(wInv, j - 1)) % Prime, 1)), 2^nb)]

\* The opening library: the weights against every stride-th row of a column.
OpenColumn(column, lev, stride) ==
    SumOf([k \in DOMAIN lev |-> (lev[k] * column[(k - 1) * stride + 1]) % Prime])

OodPoint(z, p, nb) == (z * RootPower(nb, p)) % Prime
=============================================================================
