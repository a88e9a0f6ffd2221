---------------------------- MODULE PrimeField ----------------------------
(***************************************************************************)
(* A prime field in place of Goldilocks and its cubic extension, with a    *)
(* tower of two-adic roots of unity and a coset shift: the constants of    *)
(* zisk_zorch/fri/fold.py, and what the field libraries compute over them. *)
(***************************************************************************)
EXTENDS Integers, Sequences, SequencesExt

CONSTANTS Prime,       \* the modulus
          TwoAdicity,  \* log2 of the order of the root
          TwoAdicRoot, \* a root of unity of that order
          CosetShift   \* the LDE coset generator

F == 0..(Prime - 1)

Power(x, n) == FoldFunction(LAMBDA a, b : (a * b) % Prime, 1, [i \in 1..n |-> x])

\* x^(p - 1) = 1, so x^(p - 2) inverts x.
InverseOf == [x \in F \ {0} |-> Power(x, Prime - 2)]

ASSUME FieldAssumption ==
    /\ Prime \in Nat \ {0, 1}
    /\ \A x \in F \ {0} : (x * InverseOf[x]) % Prime = 1
    /\ CosetShift \in F \ {0}
    /\ Power(TwoAdicRoot, 2^TwoAdicity) = 1
    /\ Power(TwoAdicRoot, 2^(TwoAdicity - 1)) # 1

\* A sequence, every element of it computed once.
Tabulated(seq) == seq \o << >>

Sub(a, b) == (a + Prime - b) % Prime
Div(a, b) == (a * InverseOf[b]) % Prime
SumOf(seq) == FoldLeft(LAMBDA a, b : (a + b) % Prime, 0, seq)
ProductOf(seq) == FoldLeft(LAMBDA a, b : (a * b) % Prime, 1, seq)

\* W[bits], the root of order 2^bits.
W(bits) == Power(TwoAdicRoot, 2^(TwoAdicity - bits))

\* A polynomial by its coefficients, lowest first, at x.
Eval(coeffs, x) == FoldRight(LAMBDA c, acc : (acc * x + c) % Prime, coeffs, 0)

\* The value at x of the polynomial of degree < Len(ys) through the points.
Lagrange(xs, ys, x) ==
    SumOf([j \in DOMAIN ys |->
        (ys[j] * ProductOf([m \in DOMAIN xs |->
            IF m = j THEN 1 ELSE Div(Sub(x, xs[m]), Sub(xs[j], xs[m]))])) % Prime])

\* The coefficients of the polynomial with these values at 1, w, w^2, ...
InverseNtt(values, w) ==
    LET n == Len(values)
        powers == Tabulated([k \in 1..n |-> Power(InverseOf[w], k - 1)])
    IN  Tabulated([m \in 1..n |->
           Div(SumOf([j \in 1..n |-> (values[j] * powers[(((j - 1) * (m - 1)) % n) + 1]) % Prime]),
               n % Prime)])
=============================================================================
