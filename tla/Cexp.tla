------------------------------- MODULE Cexp -------------------------------
(***************************************************************************)
(* The interpreter of a proving key's straight-line expression code        *)
(* (quotient/cexp_ref.py), on which every stage of a prove rests: over all *)
(* the rows of a domain or over a window of them, with the size of the     *)
(* temporaries a window keeps alive, by which the windows are sized.       *)
(*                                                                         *)
(* A value is a sequence: one element for a scalar, one a row otherwise.   *)
(***************************************************************************)
EXTENDS Domains, FiniteSets

\* The rows argument of an evaluation of the whole domain.
AllRows == <<>>

\* Cyclic, as fnp.roll.
Roll(col, k) ==
    Tabulated([x \in DOMAIN col |-> col[((x - 1 + Len(col) - (k % Len(col))) % Len(col)) + 1]])

\* _column: rolled whole, or gathered at the rows, numbered from 0.
Column(col, prime, extend, rows) ==
    IF rows = AllRows THEN Roll(col, -(prime * extend))
    ELSE [x \in DOMAIN rows |-> col[((rows[x] + prime * extend + Len(col)) % Len(col)) + 1]]

ColumnTypes == { "cm", "const", "custom", "Zi" }
ScalarTypes == { "number", "public", "challenge", "airvalue", "airgroupvalue", "proofvalue" }

\* _operand: an operand's type, its id and, for a column, its rotation.
Operand(s, env, tmp, extend, rows) ==
    CASE s.type = "tmp" -> tmp[s.id]
      [] s.type = "number" -> << s.id >>
      [] s.type \in ScalarTypes \ { "number" } -> << env[s.type][s.id] >>
      [] s.type = "Zi" -> Column(env.Zi[s.id], 0, extend, rows)
      [] s.type \in ColumnTypes \ { "Zi" } -> Column(env[s.type][s.id], s.prime, extend, rows)

Arith(op, a, b) == CASE op = "add" -> (a + b) % Prime
                     [] op = "sub" -> Sub(a, b)
                     [] op = "mul" -> (a * b) % Prime

At(v, x) == IF Len(v) = 1 THEN v[1] ELSE v[x]

\* Elementwise, a scalar against every row.
Apply(op, a, b) ==
    Tabulated([x \in 1..Max({ Len(a), Len(b) }) |-> Arith(op, At(a, x), At(b, x))])

NoValue == <<>>

\* run_block: the value of the q dest, or of the last op.
RunBlock(code, env, extend, rows) ==
    LET step(st, op) ==
          LET v == Apply(op.op, Operand(op.src[1], env, st.tmp, extend, rows),
                                Operand(op.src[2], env, st.tmp, extend, rows))
          IN  [tmp |-> IF op.dest.type = "tmp" THEN (op.dest.id :> v) @@ st.tmp ELSE st.tmp,
               q |-> IF op.dest.type = "q" THEN v ELSE st.q,
               result |-> v]
        end == FoldLeft(step, [tmp |-> <<>>, q |-> NoValue, result |-> NoValue], code)
    IN  IF end.q # NoValue THEN end.q ELSE end.result

-----------------------------------------------------------------------------
(* live_bytes_per_row                                                      *)

ElemBytes == 8

\* Every scalar class is cubic, the numbers and the publics included.
ScalarShape == [dim |-> 3, row |-> FALSE]

\* An operand's extension degree and whether it varies by row.
Shape(s, shapes, columnDim) ==
    IF s.type = "tmp" THEN shapes[s.id]
    ELSE IF s.type = "cm" THEN [dim |-> columnDim[s.id], row |-> TRUE]
    ELSE IF s.type \in ColumnTypes THEN [dim |-> 1, row |-> TRUE]
    ELSE ScalarShape

ResultShape(a, b) == [dim |-> IF 3 \in { a.dim, b.dim } THEN 3 ELSE 1, row |-> a.row \/ b.row]

ReadsTmp(op, t) == \E n \in 1..2 : op.src[n].type = "tmp" /\ op.src[n].id = t

\* The ops after which a temporary is still read.
LiveAfter(code, t, at) == \E n \in (at + 1)..Len(code) : ReadsTmp(code[n], t)

LiveBytesPerRow(code, columnDim) ==
    LET step(st, n) ==
          LET op == code[n]
              result == ResultShape(Shape(op.src[1], st.shapes, columnDim),
                                    Shape(op.src[2], st.shapes, columnDim))
              isTmp == op.dest.type = "tmp"
              shapes == IF isTmp THEN (op.dest.id :> result) @@ st.shapes ELSE st.shapes
              live == { t \in st.live \cup (IF isTmp THEN { op.dest.id } ELSE {}) :
                          LiveAfter(code, t, n) }
              bytes == FoldSet(LAMBDA t, sum : sum + ElemBytes * shapes[t].dim, 0,
                               { t \in live : shapes[t].row })
          IN  [shapes |-> shapes, live |-> live, peak |-> Max({ st.peak, bytes })]
    IN  FoldLeft(step, [shapes |-> <<>>, live |-> {}, peak |-> 0], [n \in DOMAIN code |-> n]).peak

-----------------------------------------------------------------------------
\* The fold of a composite: the first constraint at the highest power.
Horner(cols, vc) ==
    FoldLeft(LAMBDA acc, col : Apply("add", Apply("mul", acc, << vc >>), col), << 0 >>, cols)

\* A composite over the zerofier of every row.
Composite(cols, env, nb, bb) == Apply("mul", Horner(cols, env.challenge[3]), InvZerofier(nb, bb))

\* What is raised instead of a column.
RefusedQuotient == << <<"refused">> >>

\* evaluate_from_constraints: every constraint's own block, folded, if all of
\* them hold on every row.
EvaluateFromConstraints(constraints, env, nb, bb) ==
    IF \E k \in DOMAIN constraints : constraints[k].boundary # "everyRow" THEN RefusedQuotient
    ELSE Composite([k \in DOMAIN constraints |->
                      RunBlock(constraints[k].code, env, 2^bb, AllRows)],
                   env, nb, bb)
=============================================================================
