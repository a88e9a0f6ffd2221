------------------------------- MODULE LogUp -------------------------------
(***************************************************************************)
(* The LogUp bus argument of an AIR (logup/bus.py), the std_sum            *)
(* constraints re-authored from its interactions (quotient/reauthor.py),   *)
(* and the stage-2 section that the proving key's hints ask for            *)
(* (harness/pil2_prover.py): what a prover commits and exports, and the    *)
(* quotient that binds it.                                                 *)
(*                                                                         *)
(* An interaction is sent or received on a bus, with values and a          *)
(* multiplicity that are virtual columns over a row of the trace.          *)
(***************************************************************************)
EXTENDS Cexp

CONSTANTS LookupBuses  \* the buses whose multiplicity is the literal 1

\* The chip has no trace of fixed columns.
NoPrep == <<>>

\* _row_source: a preprocessed column indexes its own trace ...
RowSource(preprocessed, row, prep) == IF preprocessed THEN prep ELSE row

\* ... and is refused if there is none.
Readable(vpc, prep) ==
    prep = NoPrep =>
        \A t \in DOMAIN vpc.terms : \A k \in 1..(Len(vpc.terms[t]) - 1) : ~vpc.terms[t][k][2]

\* eval_pair_col at one row: the constant, the weighted columns and products.
\* A term is << <<column, whether preprocessed>>, ... , weight >>.
EvalPairCol(vpc, row, prep) ==
    LET read(c) == RowSource(c[2], row, prep)[c[1]]
        product(term) == ProductOf([k \in 1..(Len(term) - 1) |-> read(term[k])])
    IN  (vpc.constant
           + SumOf([k \in DOMAIN vpc.terms |->
                      (product(vpc.terms[k]) * Last(vpc.terms[k])) % Prime])) % Prime

\* denominator: an explicit tuple, its first value at the highest power.
Denominator(tuple, alpha, gamma) ==
    (FoldLeft(LAMBDA den, v : (den * alpha + v) % Prime, 0, tuple) + gamma) % Prime

\* _gsum_e as an explicit tuple: the values reversed, the bus id last.
TupleOfInteraction(it, row, prep) ==
    Append(Reverse([k \in DOMAIN it.values |-> EvalPairCol(it.values[k], row, prep)]), it.bus)

\* denominators, at one row.
DenominatorOf(it, row, prep, alpha, gamma) ==
    Denominator(TupleOfInteraction(it, row, prep), alpha, gamma)

\* denominators: a column an interaction, over the rows of a trace.
Denominators(interactions, rows, prep, alpha, gamma) ==
    IF \E k \in DOMAIN interactions : \E v \in ToSet(interactions[k].values) : ~Readable(v, prep)
    THEN RefusedQuotient
    ELSE [k \in DOMAIN interactions |-> Tabulated([x \in DOMAIN rows |->
            DenominatorOf(interactions[k], rows[x], IF prep = NoPrep THEN NoPrep ELSE prep[x],
                          alpha, gamma)])]

\* _signed_multiplicity of a row, with no preprocessed trace: a lookup counts
\* once, a send counts against.
SignedMultiplicity(it, row) ==
    LET mul == IF it.bus \in LookupBuses THEN 1 ELSE EvalPairCol(it.multiplicity, row, NoPrep)
    IN  IF it.send THEN Sub(0, mul) ELSE mul

\* Every interaction of Binary counts once.
UnitMultiplicity(it) == IF it.send THEN Sub(0, 1) ELSE 1

\* grand_sum: the running sum of every row's local term.
GrandSum(numerators, denominators) ==
    LET rows == DOMAIN numerators[1]
        local(x) == SumOf([k \in DOMAIN numerators |-> Div(numerators[k][x], denominators[k][x])])
    IN  Tabulated([x \in rows |-> SumOf([y \in 1..x |-> local(y)])])

GsumResult(gsum) == Last(gsum)

-----------------------------------------------------------------------------
(* The std_sum constraints, cleared of their denominators, at one row.     *)

\* _im_constraint: im * prod d - sum over k of m_k * prod of the others.
ImConstraint(im, group, d, m) ==
    LET others(k) == ProductOf([j \in DOMAIN group |-> IF j = k THEN 1 ELSE d[group[j]]])
    IN  Sub((im * ProductOf([j \in DOMAIN group |-> d[group[j]]])) % Prime,
            SumOf([k \in DOMAIN group |-> (m[group[k]] * others(k)) % Prime]))

\* Mutant: the running sum is not restarted on the first row.
GsumTransitionNoRestart(gsum, prev, l1, sumIm, gate) ==
    (Sub(Sub(gsum, prev), sumIm) * gate + 1) % Prime

\* The gate's interaction, a lookup sent, has no column of its own.
GsumTransition(gsum, prev, l1, sumIm, gate) ==
    (Sub(Sub(gsum, (prev * Sub(1, l1)) % Prime), sumIm) * gate + 1) % Prime

\* The last row is where the next is the first; what was added to the export
\* directly is not in the column.
GsumBoundary(l1Next, result, gsum, direct) == (l1Next * Sub(Sub(result, gsum), direct)) % Prime

\* The im and gsum constraints of an AIR whose columns are the n1 of stage 1,
\* gsum, then the ims: `air` has the interactions, the groups that share an im
\* column and the gate.
StdSum(air, n1, env, d, m, extend) ==
    LET rows == DOMAIN env.cm[1]
        l1 == env.const[1]
        gsum == env.cm[n1 + 1]
        prev == Roll(gsum, extend)
        im(g) == env.cm[n1 + 1 + g]
        at(cols, x) == [k \in DOMAIN cols |-> cols[k][x]]
    IN  [g \in DOMAIN air.groups |->
           [x \in rows |-> ImConstraint(im(g)[x], air.groups[g], at(d, x), at(m, x))]]
        \o << [x \in rows |->
               GsumTransition(gsum[x], prev[x], l1[x],
                              SumOf([g \in DOMAIN air.groups |-> im(g)[x]]), d[air.gate][x])] >>

Boundary(n1, env, direct, extend) ==
    LET next == Roll(env.const[1], -extend)
    IN  [x \in DOMAIN next |->
           GsumBoundary(next[x], env.airgroupvalue[1], env.cm[n1 + 1][x], direct)]

\* base_trace: the stage-1 columns, row by row.
BaseTrace(env, n1) == Tabulated([x \in DOMAIN env.cm[1] |-> [c \in 1..n1 |-> env.cm[c][x]]])

\* reauthor_binary_quotient: the row-local constraints (written by hand there,
\* as blocks here), the std_sum ones of its pairs, and a bus term on one row
\* that has no column: a constant tuple, over which the first air value is the
\* second, which goes into the export directly.
ReauthorBinaryQuotient(air, rowLocal, n1, env, nb, bb) ==
    LET trace == BaseTrace(env, n1)
        d == Denominators(air.interactions, trace, NoPrep, env.challenge[1], env.challenge[2])
        m == [k \in DOMAIN air.interactions |->
                [x \in DOMAIN trace |-> UnitMultiplicity(air.interactions[k])]]
        direct == Denominator(air.direct, env.challenge[1], env.challenge[2])
        imDirect == << Sub((env.airvalue[2] * direct) % Prime, Sub(0, env.airvalue[1])) >>
    IN  IF d = RefusedQuotient THEN d
        ELSE Composite([k \in DOMAIN rowLocal |-> RunBlock(rowLocal[k], env, 2^bb, AllRows)]
                         \o StdSum(air, n1, env, d, m, 2^bb)
                         \o << imDirect, Boundary(n1, env, env.airvalue[2], 2^bb) >>,
                       env, nb, bb)

\* reauthor_arith_quotient: the row-local constraints' own blocks, the std_sum
\* ones of groups of any size, and nothing direct.
ReauthorArithQuotient(air, rowLocal, n1, env, nb, bb) ==
    LET trace == BaseTrace(env, n1)
        d == Denominators(air.interactions, trace, NoPrep, env.challenge[1], env.challenge[2])
        m == [k \in DOMAIN air.interactions |->
                Tabulated([x \in DOMAIN trace |-> SignedMultiplicity(air.interactions[k], trace[x])])]
        refused == \E k \in DOMAIN air.interactions :
                      /\ air.interactions[k].bus \notin LookupBuses
                      /\ ~Readable(air.interactions[k].multiplicity, NoPrep)
    IN  IF d = RefusedQuotient \/ refused THEN RefusedQuotient
        ELSE Composite([k \in DOMAIN rowLocal |-> RunBlock(rowLocal[k], env, 2^bb, AllRows)]
                         \o StdSum(air, n1, env, d, m, 2^bb) \o << Boundary(n1, env, 0, 2^bb) >>,
                       env, nb, bb)

-----------------------------------------------------------------------------
(* The stage-2 section from the key's hints, over the base domain.  A hint *)
(* value is a column, an expression by its code, an air value or a number. *)

\* _hint_column
HintColumn(v, env, n) ==
    CASE v.op = "cm" -> env.cm[v.id]
      [] v.op = "tmp" -> RunBlock(v.code, env, 1, AllRows)
      [] v.op = "number" -> [x \in 1..n |-> v.id]

\* _hint_scalar: an expression at its first row.
HintScalar(v, env) ==
    CASE v.op = "tmp" -> RunBlock(v.code, env, 1, AllRows)[1]
      [] v.op = "airvalue" -> env.airvalue[v.id]
      [] v.op = "number" -> v.id

Over(a, b) == Tabulated([x \in 1..Max({ Len(a), Len(b) }) |-> Div(At(a, x), At(b, x))])

Writes(env, column, values) == [env EXCEPT !.cm = (column :> values) @@ @]

\* The im_col hints, then the im_airval ones: each reads what those before it wrote.
ImColumns(hints, env, n) ==
    FoldLeft(LAMBDA e, h : Writes(e, h.reference, Over(HintColumn(h.numerator, e, n),
                                                       HintColumn(h.denominator, e, n))),
             env, hints)

ImAirvals(hints, env) ==
    FoldLeft(LAMBDA e, h : [e EXCEPT !.airvalue[h.reference] =
                              Div(HintScalar(h.numerator, e), HintScalar(h.denominator, e))],
             env, hints)

IsNumber(v, number) == v.op = "number" /\ v.id = number

\* _direct_value
DirectValue(v, env) ==
    CASE v.op = "tmp" -> RunBlock(v.code, env, 1, AllRows)[1]
      [] v.op = "airvalue" -> env.airvalue[v.id]

\* Mutant: the direct term over the literal 1 whatever its denominator is.
DirectTermUndivided(run, env) ==
    IF IsNumber(run.numeratorDirect, 0) THEN 0 ELSE DirectValue(run.numeratorDirect, env)

\* _direct_term: what is added to the export only, if anything.
DirectTerm(run, env) ==
    IF IsNumber(run.numeratorDirect, 0) THEN 0
    ELSE IF IsNumber(run.denominatorDirect, 1) THEN DirectValue(run.numeratorDirect, env)
    ELSE Div(DirectValue(run.numeratorDirect, env), DirectValue(run.denominatorDirect, env))

GrandProduct(terms) == Tabulated([x \in DOMAIN terms |-> ProductOf(SubSeq(terms, 1, x))])

\* The running column: a sum for the bus, a product for a permutation.
RunColumn(run, env, n) ==
    IF run.isSum
    THEN GrandSum(<< HintColumn(run.numeratorAir, env, n) >>, << HintColumn(run.denominatorAir, env, n) >>)
    ELSE GrandProduct(IF IsNumber(run.denominatorAir, 1) THEN HintColumn(run.numeratorAir, env, n)
                      ELSE Over(HintColumn(run.numeratorAir, env, n),
                                HintColumn(run.denominatorAir, env, n)))

\* The intermediate polynomials, which may read every other column.
ImPols(pols, env) ==
    FoldLeft(LAMBDA e, p : Writes(e, p.id, RunBlock(p.code, e, 1, AllRows)), env, pols)

\* What the running column exports, with the air values it may take in.
ResultOf(key, hinted, run) ==
    IF key.run.isSum THEN << (GsumResult(run) + DirectTerm(key.run, hinted)) % Prime >> ELSE NoValue

\* The section, by the environment that the hints leave and the running column.
SectionOf(key, hinted, run) ==
    LET whole == ImPols(key.imPols, Writes(hinted, key.run.reference, run))
    IN  [columns |-> Tabulated([k \in DOMAIN key.columns |-> whole.cm[key.columns[k]]]),
         result |-> ResultOf(key, hinted, run),
         airvalues |-> hinted.airvalue]

RefusedStage == [refused |-> TRUE]

Hinted(key, hinted, n) ==
    IF ~key.run.isSum /\ ~IsNumber(key.run.numeratorDirect, 1) THEN RefusedStage
    ELSE SectionOf(key, hinted, RunColumn(key.run, hinted, n))

\* _logup_columns: the hints' columns, then their air values, and from them
\* the running column with its export.  No direct term of a product is known.
Stage2Columns(key, env, n) ==
    Hinted(key, ImAirvals(key.airvalHints, ImColumns(key.imHints, env, n)), n)
=============================================================================
