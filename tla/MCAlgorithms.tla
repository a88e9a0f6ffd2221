---------------------------- MODULE MCAlgorithms ----------------------------
(***************************************************************************)
(* The pure algorithms against what they promise, over small inputs: an    *)
(* input is drawn, and every invariant is about the inputs of its kind.    *)
(* Or the input is a witness calculator of Recursion, that is asked for    *)
(* traces in any order.                                                    *)
(***************************************************************************)
EXTENDS LogUp, WireProof, Recursion, TLC

MCNb == 2
MCBb == 2

\* --- AIRs of two columns, a and b.
Term(c, w) == << <<c, FALSE>>, w >>
Column1(c) == [constant |-> 0, terms |-> << Term(c, 1) >>]
Constant(v) == [constant |-> v, terms |-> << >>]

\* As Arith: multiplicities in columns, groups of different sizes.
MCArith ==
    [interactions |->
       << [send |-> TRUE, bus |-> 30, values |-> << Column1(1) >>, multiplicity |-> Column1(2)],
          [send |-> TRUE, bus |-> 50,
           values |-> << [constant |-> 3, terms |-> << << <<1, FALSE>>, <<2, FALSE>>, 1 >> >>],
                         Column1(1) >>,
           multiplicity |-> Column1(2)],
          [send |-> FALSE, bus |-> 50, values |-> << Column1(2), Constant(7) >>,
           multiplicity |-> Column1(1)],
          [send |-> TRUE, bus |-> 30, values |-> << Column1(2) >>, multiplicity |-> Column1(1)] >>,
     groups |-> << << 2, 3 >>, << 4 >> >>,
     gate |-> 1]

\* As Binary: everything counts once, pairs, and a term on one row.
MCBinary ==
    [interactions |-> MCArith.interactions \o
       << [send |-> FALSE, bus |-> 50, values |-> << Column1(1), Constant(4) >>,
           multiplicity |-> Column1(1)] >>,
     groups |-> << << 2, 3 >>, << 4, 5 >> >>,
     gate |-> 1,
     direct |-> << 10, 50 >>]

\* A tuple that reads a fixed column, at the index of another in the trace.
Clocked ==
    [send |-> TRUE, bus |-> 50,
     values |-> << Column1(2), [constant |-> 0, terms |-> << << <<1, TRUE>>, 1 >> >>] >>,
     multiplicity |-> Column1(1)]

\* --- The code of their proving keys.
Op(op, dest, a, b) == [op |-> op, dest |-> [type |-> "tmp", id |-> dest], src |-> << a, b >>]
T(n) == [type |-> "tmp", id |-> n]
N(v) == [type |-> "number", id |-> v]
Cm(c) == [type |-> "cm", id |-> c, prime |-> 0]
CmPrev(c) == [type |-> "cm", id |-> c, prime |-> -1]
Fixed(c) == [type |-> "const", id |-> c, prime |-> 0]
FixedNext(c) == [type |-> "const", id |-> c, prime |-> 1]
Alpha == [type |-> "challenge", id |-> 1]
Gamma == [type |-> "challenge", id |-> 2]
AirValue(k) == [type |-> "airvalue", id |-> k]
Result == [type |-> "airgroupvalue", id |-> 1]

BooleanCode == << Op("sub", 1, N(1), Cm(2)), Op("mul", 2, Cm(2), T(1)) >>

\* The denominators: 7 and 12 of the first group, 3 and 7 of the second, 3 of
\* the gate and of the term on one row.
Group1 ==
    << Op("mul", 1, Cm(1), Cm(2)), Op("add", 2, T(1), N(3)), Op("mul", 3, Cm(1), Alpha),
       Op("add", 4, T(3), T(2)), Op("mul", 5, T(4), Alpha), Op("add", 6, T(5), N(50)),
       Op("add", 7, T(6), Gamma),
       Op("mul", 8, N(7), Alpha), Op("add", 9, T(8), Cm(2)), Op("mul", 10, T(9), Alpha),
       Op("add", 11, T(10), N(50)), Op("add", 12, T(11), Gamma) >>
Single2 == << Op("mul", 1, Cm(2), Alpha), Op("add", 2, T(1), N(30)), Op("add", 3, T(2), Gamma) >>
Group2 ==
    Single2 \o << Op("add", 4, N(0), Cm(1)), Op("mul", 5, N(4), Alpha), Op("add", 6, T(5), T(4)),
                  Op("mul", 7, T(6), Alpha), Op("add", 8, T(7), N(50)), Op("add", 9, T(8), Gamma) >>
Gate == << Op("mul", 1, Cm(1), Alpha), Op("add", 2, T(1), N(30)), Op("add", 3, T(2), Gamma) >>
Direct == << Op("mul", 1, N(10), Alpha), Op("add", 2, T(1), N(50)), Op("add", 3, T(2), Gamma) >>
ClockedCode ==
    << Op("mul", 1, Fixed(2), Alpha), Op("add", 2, T(1), Cm(2)), Op("mul", 3, T(2), Alpha),
       Op("add", 4, T(3), N(50)), Op("add", 5, T(4), Gamma) >>

Everywhere(codes) == [k \in DOMAIN codes |-> [code |-> codes[k], boundary |-> "everyRow"]]

ArithIm1 == Group1 \o
    << Op("mul", 13, T(7), T(12)), Op("mul", 14, Cm(4), T(13)),
       Op("mul", 15, Cm(2), T(12)), Op("mul", 16, Cm(1), T(7)), Op("sub", 17, T(16), T(15)),
       Op("sub", 18, T(14), T(17)) >>
ArithIm2 == Single2 \o << Op("mul", 4, Cm(5), T(3)), Op("add", 5, T(4), N(1)) >>
BinaryIm1 == Group1 \o
    << Op("mul", 13, T(7), T(12)), Op("mul", 14, Cm(4), T(13)), Op("sub", 15, T(7), T(12)),
       Op("sub", 16, T(14), T(15)) >>
BinaryIm2 == Group2 \o
    << Op("mul", 10, T(3), T(9)), Op("mul", 11, Cm(5), T(10)), Op("sub", 12, T(3), T(9)),
       Op("sub", 13, T(11), T(12)) >>

TransitionCode == Gate \o
    << Op("sub", 4, N(1), Fixed(1)), Op("mul", 5, CmPrev(3), T(4)), Op("sub", 6, Cm(3), T(5)),
       Op("add", 7, Cm(4), Cm(5)), Op("sub", 8, T(6), T(7)),
       Op("mul", 9, T(8), T(3)), Op("add", 10, T(9), N(1)) >>

ImDirectCode == Direct \o
    << Op("mul", 4, AirValue(2), T(3)), Op("sub", 5, N(0), AirValue(1)), Op("sub", 6, T(4), T(5)) >>

ArithBoundary == << Op("sub", 1, Result, Cm(3)), Op("mul", 2, FixedNext(1), T(1)) >>
BinaryBoundary == << Op("sub", 1, Result, Cm(3)), Op("sub", 2, T(1), AirValue(2)),
                     Op("mul", 3, FixedNext(1), T(2)) >>
\* The export takes an air value over the term's denominator in.
MainBoundary == Direct \o
    << Op("sub", 4, Result, Cm(3)), Op("mul", 5, T(4), T(3)), Op("sub", 6, T(5), AirValue(1)),
       Op("mul", 7, FixedNext(1), T(6)) >>

\* --- Its hints.
NumberHint(v) == [op |-> "number", id |-> v]
CmHint(c) == [op |-> "cm", id |-> c]
AirValueHint(k) == [op |-> "airvalue", id |-> k]
CodeHint(code) == [op |-> "tmp", code |-> code]
Hint(reference, numerator, denominator) ==
    [reference |-> reference, numerator |-> numerator, denominator |-> denominator]

Im1Hint(numerator) ==
    Hint(4, CodeHint(Group1 \o numerator), CodeHint(Group1 \o << Op("mul", 13, T(7), T(12)) >>))
ArithHints ==
    << Im1Hint(<< Op("mul", 13, Cm(2), T(12)), Op("mul", 14, Cm(1), T(7)), Op("sub", 15, T(14), T(13)) >>),
       Hint(5, NumberHint(Prime - 1), CodeHint(Single2)) >>
BinaryHints ==
    << Im1Hint(<< Op("sub", 13, T(7), T(12)) >>),
       Hint(5, CodeHint(Group2 \o << Op("sub", 10, T(3), T(9)) >>),
               CodeHint(Group2 \o << Op("mul", 10, T(3), T(9)) >>)) >>
DirectHint == Hint(2, CodeHint(<< Op("sub", 1, N(0), AirValue(1)) >>), CodeHint(Direct))

\* The running sum reads the im columns.
SumHint(numeratorDirect, denominatorDirect) ==
    [isSum |-> TRUE, reference |-> 3,
     numeratorAir |-> CodeHint(Gate \o << Op("add", 4, Cm(4), Cm(5)), Op("mul", 5, T(4), T(3)),
                                          Op("sub", 6, T(5), N(1)) >>),
     denominatorAir |-> CodeHint(Gate),
     numeratorDirect |-> numeratorDirect, denominatorDirect |-> denominatorDirect]

SumKey(codes, imHints, airvalHints, run) ==
    [constraints |-> Everywhere(<< BooleanCode >> \o codes), imHints |-> imHints,
     airvalHints |-> airvalHints, run |-> run, imPols |-> << >>, columns |-> << 3, 4, 5 >>]

\* A permutation's running product, over b, and a polynomial that reads it.
ImPolCode == << Op("add", 1, Cm(2), Gamma), Op("mul", 2, Cm(3), T(1)) >>
ProductHint(numerator, denominator, direct) ==
    [isSum |-> FALSE, reference |-> 3, numeratorAir |-> numerator, denominatorAir |-> denominator,
     numeratorDirect |-> NumberHint(direct), denominatorDirect |-> NumberHint(1)]
PlusGamma(c) == << Op("add", 1, Cm(c), Gamma) >>
ProductCodes ==
    << ImPolCode \o << Op("sub", 3, Cm(4), T(2)) >>,
       << Op("sub", 1, N(1), Fixed(1)), Op("mul", 2, CmPrev(3), T(1)), Op("add", 3, T(2), Fixed(1)),
          Op("add", 4, Cm(1), Gamma), Op("mul", 5, T(3), T(4)), Op("sub", 6, Cm(4), T(5)) >>,
       << Op("sub", 1, Cm(3), N(1)), Op("mul", 2, FixedNext(1), T(1)) >> >>
QuotientColumnCode ==
    << Op("add", 1, Cm(2), Gamma), Op("mul", 2, Cm(5), T(1)), Op("add", 3, Cm(1), Gamma),
       Op("sub", 4, T(2), T(3)) >>
ProductKey(codes, imHints, run, columns) ==
    [constraints |-> Everywhere(codes), imHints |-> imHints, airvalHints |-> << >>, run |-> run,
     imPols |-> << [id |-> 4, code |-> ImPolCode] >>, columns |-> columns]

ProductAirs == { "circuit", "circuitIm" }

\* Arith, Binary, Main, whose direct term is an expression, and circuits of the
\* recursion that write the quotient of the product as a column or do not.
AirKeys ==
    [arith |-> SumKey(<< ArithIm1, ArithIm2, TransitionCode, ArithBoundary >>,
                      ArithHints, << >>, SumHint(NumberHint(0), NumberHint(1))),
     binary |-> SumKey(<< BinaryIm1, BinaryIm2, TransitionCode, ImDirectCode, BinaryBoundary >>,
                       BinaryHints, << DirectHint >>, SumHint(AirValueHint(2), NumberHint(1))),
     main |-> SumKey(<< ArithIm1, ArithIm2, TransitionCode, MainBoundary >>, ArithHints, << >>,
                     SumHint(CodeHint(<< Op("add", 1, N(0), AirValue(1)) >>), CodeHint(Direct))),
     circuit |-> ProductKey(ProductCodes, << >>,
                            ProductHint(CodeHint(PlusGamma(1)), CodeHint(PlusGamma(2)), 1),
                            << 3, 4 >>),
     circuitIm |-> ProductKey(ProductCodes \o << QuotientColumnCode >>,
                              << Hint(5, CodeHint(PlusGamma(1)), CodeHint(PlusGamma(2))) >>,
                              ProductHint(CmHint(5), NumberHint(1), 1), << 3, 4, 5 >>),
     direct |-> ProductKey(ProductCodes, << >>,
                           ProductHint(CodeHint(PlusGamma(1)), CodeHint(PlusGamma(2)), 0),
                           << 3, 4 >>)]

\* --- Witnesses, true or with a cell, a column, an air value, the export, or
\* both of these off, under challenges that leave every denominator its inverse.
L1 == << 1, 0, 0, 0 >>
Clock == << 1, 0, 1, 0 >>
NoTamper == "none"
TampersOf(air) ==
    { NoTamper, "im", "gsum", "row" }
        \cup (IF air \in { "arith", "binary", "main" } THEN { "result" } ELSE {})
        \cup (IF air \in { "binary", "main" } THEN { "airvalue", "both" } ELSE {})

SumWitnesses ==
    { w \in UNION { [kind : {"logup"}, air : {air},
                     a : { <<0, 5, 1, 2>>, <<9, 9, 0, 1>>, <<3, 1, 4, 1>> },
                     b : { <<0, 1, 1, 0>>, <<1, 1, 1, 1>> },
                     alpha : { 11, 40 }, gamma : { 8, 23 }, tamper : TampersOf(air)] :
                      air \in { "arith", "binary", "main" } } :
        /\ Denominator(MCBinary.direct, w.alpha, w.gamma) # 0
        /\ \A x \in 1..4, k \in DOMAIN MCBinary.interactions :
              DenominatorOf(MCBinary.interactions[k], << w.a[x], w.b[x] >>, NoPrep, w.alpha, w.gamma) # 0 }

ProductWitnesses ==
    UNION { [kind : {"logup"}, air : {air},
             a : { <<0, 5, 1, 2>>, <<9, 9, 0, 1>> }, b : { <<5, 2, 0, 1>>, <<1, 9, 9, 0>>, <<9, 0, 0, 1>> },
             alpha : {11}, gamma : { 8, 23 }, tamper : TampersOf(air)] :
              air \in { "circuit", "circuitIm", "direct" } }

Witnesses == SumWitnesses \cup ProductWitnesses

OffByOne(col) == [col EXCEPT ![3] = (@ + 1) % Prime]

\* The environment of the base domain, and the section of stage 2 over it.
BaseEnv(w) ==
    LET b == IF w.tamper = "row" THEN [w.b EXCEPT ![2] = @ + 1] ELSE w.b
    IN  [cm |-> << w.a, b >>, const |-> << L1, Clock >>, challenge |-> << w.alpha, w.gamma >>,
         airvalue |-> << 7, 0 >>]
Stage2Of(w) == Stage2Columns(AirKeys[w.air], BaseEnv(w), 4)

\* The environment of its extended domain.  The air value that is off is the
\* one the direct term is, or is made of.
EnvOf(w, stage2) ==
    LET cols == [c \in DOMAIN stage2.columns |->
                   IF (w.tamper = "gsum" /\ c = 1) \/ (w.tamper = "im" /\ c = 2)
                   THEN OffByOne(stage2.columns[c]) ELSE stage2.columns[c]]
        blockBytes == 2 * 2^(MCNb + MCBb) * 8
        off(v, tampers) == (v + (IF w.tamper \in tampers THEN 1 ELSE 0)) % Prime
        k == IF w.air = "main" THEN 1 ELSE 2
    IN  [cm |-> Tabulated(Extend(<< w.a, w.b >> \o cols, MCNb, MCBb, blockBytes)),
         const |-> Tabulated(Extend(<< L1, Clock >>, MCNb, MCBb, blockBytes)),
         challenge |-> << w.alpha, w.gamma, 31 >>,
         airvalue |-> [stage2.airvalues EXCEPT ![k] = off(@, { "airvalue", "both" })],
         airgroupvalue |-> [r \in DOMAIN stage2.result |-> off(stage2.result[r], { "result", "both" })]]

\* Whether the quotient is the three polynomials of a section.
Splits(q) ==
    LET nbe == MCNb + MCBb
        chunks == ComputeQ(q, MCNb, nbe, 3)
        xs == CosetPoints(MCNb, MCBb)
    IN \A x \in 1..2^nbe :
          SumOf([p \in DOMAIN chunks |->
                   (chunks[p][x] * Power(xs[x], (p - 1) * 2^MCNb)) % Prime]) = q[x]

-----------------------------------------------------------------------------
\* --- Sections to extend and zerofiers.
Sections(nb) == { << c, d, c >> : c, d \in { [x \in 1..2^nb |-> (x * x + 3) % Prime],
                                             [x \in 1..2^nb |-> (5 * x) % Prime] } }

Ldes == UNION { [kind : {"lde"}, nb : {nb}, bb : {bb}, section : Sections(nb), block : 1..3] :
                  nb \in 1..2, bb \in 1..2 }

Zerofiers == { z \in [kind : {"zerofier"}, nb : 1..3, bb : 1..2, offMin : 0..3, offMax : 0..3] :
                 z.offMin + z.offMax < 2^z.nb }

\* --- Code to evaluate by windows.
Codes == UNION { { c.code : c \in ToSet(AirKeys[air].constraints) } :
                   air \in { "arith", "binary", "main", "circuitIm" } }
Windowed == [kind : {"windows"}, code : Codes, n : 1..8, count : 1..9]

ColumnDimOf == [c \in 1..5 |-> IF c \in {3, 4, 5} THEN 3 ELSE 1]

WindowEnv(n) ==
    LET col(k) == [x \in 1..n |-> (k * x + x * x) % Prime]
    IN  [cm |-> [c \in 1..5 |-> col(c)], const |-> [c \in 1..2 |-> col(c + 5)],
         challenge |-> << 11, 8, 31 >>, airgroupvalue |-> << 4 >>, airvalue |-> << 7, 2 >>]

Whole(v, n) == [x \in 1..n |-> At(v, x)]

\* The temporaries alive after an op, cubic when anything cubic is in them,
\* a row's when a column is.
Sources(code, t) ==
    LET from[n \in DOMAIN code] ==
          UNION { IF code[n].src[k].type = "tmp" THEN from[code[n].src[k].id]
                  ELSE { code[n].src[k] } : k \in 1..2 }
    IN  from[t]

CubicSource(s) == s.type \in ScalarTypes \/ (s.type = "cm" /\ ColumnDimOf[s.id] = 3)

BytesAfter(code, n) ==
    LET alive == { t \in 1..n : \E k \in (n + 1)..Len(code) : ReadsTmp(code[k], t) }
        bytes(t) == IF \A s \in Sources(code, t) : s.type \in ScalarTypes THEN 0
                    ELSE IF \E s \in Sources(code, t) : CubicSource(s) THEN 24 ELSE 8
    IN  FoldSet(LAMBDA t, sum : sum + bytes(t), 0, alive)

\* --- Buffers.
ValueMaps == [kind : {"values"}, stages : UNION { [1..k -> 1..3] : k \in 0..3 }]
CubicsOf(stages) == [i \in DOMAIN stages |->
                       IF stages[i] = 1 THEN << i, 0, 0 >> ELSE << 10 * i, 10 * i + 1, 10 * i + 2 >>]
Packed(stages) ==
    FlattenSeq([i \in DOMAIN stages |-> SubSeq(CubicsOf(stages)[i], 1, IF stages[i] = 1 THEN 1 ELSE 3)])

EvMaps == [kind : {"evmap"}, isBase : UNION { [1..k -> BOOLEAN] : k \in 1..4 }]

Tilings == [kind : {"tiles"}, blocks : 1..3, cols : 1..5]

\* The tiles written one after the other.
Tiled(rows, cols) ==
    FlattenSeq([g \in 1..CeilDiv(cols, TileCols) |->
        FlattenSeq([b \in 1..(rows \div TileRows) |->
            FlattenSeq([c \in 1..Min({ TileCols, cols - (g - 1) * TileCols }) |->
                [r \in 1..TileRows |-> << (b - 1) * TileRows + r, (g - 1) * TileCols + c >>]])])])

Descriptors == { << >> } \cup
    { [k \in 1..n |-> [name |-> k, index |-> ix[k], width |-> w[k]]] : 
        n \in {2}, ix \in { f \in [1..2 -> 0..2] : f[1] # f[2] }, w \in [1..2 -> 1..2] }
    \cup { [k \in 1..3 |-> [name |-> k, index |-> ix[k], width |-> 1]] :
             ix \in { f \in [1..3 -> 0..3] : \A a, b \in 1..3 : a # b => f[a] # f[b] } }
Flaws == { "none", "count", "wide", "size", "missing", "height", "combined" }
Chips == [kind : {"chip"}, cols : Descriptors, nPrep : 0..3, n : {5, 6}, flaw : Flaws]

\* A clock set every third row, three of whose rows in five or six are summed.
ClockOf(n) == [x \in 1..n |-> IF (x - 1) % 3 = 0 THEN 1 ELSE 0]

\* Column 1 is derived, 2 and 3 are the key's, which has them in another order.
FixedColumn(name, n) ==
    CASE name = 1 -> [x \in 1..n |-> Cardinality({ y \in 1..n :
                        ClockOf(n)[y] = 1 /\ (x - y + n) % n \in 1..3 })]
      [] name = 2 -> ClockOf(n)
      [] name = 3 -> [x \in 1..n |-> 3 * x]

L1Name == << "__L1__" >>

KeyOf(n, flaw) ==
    LET pol(name) == [name |-> name, dim |-> IF flaw = "wide" /\ name = L1Name THEN 3 ELSE 1]
        named == IF flaw = "missing" THEN << L1Name, <<"Air", 2>> >>
                                     ELSE << L1Name, <<"Air", 3>>, <<"Air", 2>> >>
        value(name, x) == IF name = L1Name THEN 100 + x ELSE FixedColumn(name[2], n)[x]
        words == FlattenSeq([x \in 1..n |-> [k \in DOMAIN named |-> value(named[k], x)]])
    IN  [constPols |-> [k \in DOMAIN named |-> pol(named[k])],
         nConstants |-> IF flaw = "count" THEN 2 * Len(named) ELSE Len(named),
         rows |-> n,
         words |-> IF flaw = "size" THEN Tail(words) ELSE words]

MainOf(n, flaw) ==
    LET column == [x \in 1..(IF flaw = "height" THEN n - 1 ELSE n) |-> 50 + x]
    IN  IF flaw = "combined" THEN << column, column >> ELSE << column >>

\* --- Wire proofs, children of a node, and envelopes.
Keys == [airgroup : { <<2>>, <<1, 2>> }, airValues : { <<>>, <<1>> }, nStages : {2},
         nEvals : {2}, nConstants : {1, 2}, customs : { <<>>, <<2>> }, sections : { <<1, 2, 3>> },
         steps : { <<3>>, <<3, 1>>, <<5, 3, 2>> }, arityBits : {1, 2}, llv : {0, 1}, nQueries : {1, 2}]
Wires == [kind : {"wire"}, si : Keys]

Children == { NoChild } \cup { << h, p >> : h \in { <<1>>, <<2, 3>> },
                                            p \in { <<4>>, <<WordMod + 1, 5>> } }
Nodes == [kind : {"node"}, segments : [1..3 -> Children], prefix : { <<>>, <<6, 7>> }]

BasicOf(k) == [airgroupvalue |-> << k, (k * k) % WordMod, 3 >>, contribution |-> << (2 * k) % WordMod >>]
Subtrees == [kind : {"subtree"}, left : 1..2, right : 1..2]

EnvelopeWords == { 0, 1, ByteBase - 6, ByteBase - 5, ByteBase - 1, ByteBase, ByteBase^2 - 1,
                   ByteBase^2, ByteBase^4 - 1, ByteBase^4, ByteBase^8 - 1 }
Envelopes == [kind : {"bin"}, trailer : { <<>>, <<5>>, <<0, 7>> },
              words : { << >> } \cup [1..1 -> EnvelopeWords] \cup [1..2 -> EnvelopeWords]
                      \cup [1..3 -> { 0, ByteBase - 5, ByteBase^2 }] ]

Inputs == << Witnesses, Ldes, Zerofiers, Windowed, ValueMaps, EvMaps, Tilings, Chips,
             Wires, Nodes, Subtrees, Envelopes >>

\* --- Calculators of circuits with two cells and up to three adds, each of any
\* two cells, its own and later ones included, placed in two rows of three or
\* three rows of two.
Adds == { << a, b, 2, 3 >> : a, b \in 0..4 }
AddLists == UNION { [1..k -> Adds] : k \in 0..2 }
            \cup { << << a, b, 1, 1 >>, << c, 2, 2, 1 >>, << d, 3, 1, 2 >> >> : a, b, c, d \in 0..4 }

\* The cells round and round, from the first or from the last.
Placements(n) == { [k \in 1..6 |-> (k - 1) % n], [k \in 1..6 |-> n - 1 - ((k - 1) % n)] }

Circuit(adds, rows, smap) == [size |-> 2, adds |-> adds, rows |-> rows, smap |-> smap]
MCCircuits ==
    UNION { { Circuit(adds, rows, smap) : smap \in Placements(2 + Len(adds)), rows \in {2, 3} } :
              adds \in AddLists }

VARIABLE input

Nothing == [kind |-> "none"]
Calculator == [kind |-> "calculator"]

\* Beside an input of another kind stands one calculator that nobody asks.
Init == /\ CalcInit
        /\ \/ input = Calculator
           \/ input = Nothing /\ circuit = Circuit(<< >>, 2, [k \in 1..6 |-> (k - 1) % 2])
Next == \/ input = Nothing /\ (\E k \in DOMAIN Inputs : input' \in Inputs[k]) /\ UNCHANGED calcVars
        \/ input = Calculator /\ CalcNext /\ UNCHANGED input
Spec == Init /\ [][Next]_<<input, calcVars>>

-----------------------------------------------------------------------------
Quotient(w, env) == EvaluateFromConstraints(AirKeys[w.air].constraints, env, MCNb, MCBb)

Reauthored(w, air, env) ==
    IF w.air = "binary" THEN ReauthorBinaryQuotient(air, << BooleanCode >>, 2, env, MCNb, MCBb)
                        ELSE ReauthorArithQuotient(air, << BooleanCode >>, 2, env, MCNb, MCBb)

AirOf(w) == IF w.air = "binary" THEN MCBinary ELSE MCArith

\* A tuple reads a fixed column where the key's code does.
ClockedIsTheKeys(w, env) ==
    LET fixed == [x \in DOMAIN env.const[2] |-> << env.const[2][x] >>]
    IN  Denominators(<< Clocked >>, BaseTrace(env, 2), fixed, w.alpha, w.gamma)
          = << RunBlock(ClockedCode, env, 2^MCBb, AllRows) >>

\* The quotient re-authored from a chip's interactions, as Arith's or as Binary's
\* with its term on one row, is at every point the one the proving key's own
\* constraint code gives, whatever the witness; a tuple reads a fixed column
\* where the key's code does, and is refused without a trace of them; and the
\* code of constraints of which one does not hold on every row is not folded.
ReauthoredIs(w, env) ==
    /\ Reauthored(w, AirOf(w), env) = Quotient(w, env)
    /\ ClockedIsTheKeys(w, env)
    /\ Reauthored(w, [AirOf(w) EXCEPT !.interactions[1] = Clocked], env) = RefusedQuotient
    /\ EvaluateFromConstraints([AirKeys[w.air].constraints EXCEPT ![1].boundary = "firstRow"],
                               env, MCNb, MCBb) = RefusedQuotient

ReauthoredQuotientIsTheKeys ==
    input.kind = "logup" /\ input.air \in { "arith", "binary" } =>
        ReauthoredIs(input, EnvOf(input, Stage2Of(input)))

\* The bus of a trace, summed from its interactions, with the multiplicities
\* the re-authoring gives them.
BusSum(w) ==
    LET air == AirOf(w)
        row(x) == << w.a[x], w.b[x] >>
        multiplicity(it, x) == IF w.air = "binary" THEN UnitMultiplicity(it)
                                                   ELSE SignedMultiplicity(it, row(x))
    IN  SumOf([x \in 1..4 |-> SumOf([k \in DOMAIN air.interactions |->
              Div(multiplicity(air.interactions[k], x),
                  DenominatorOf(air.interactions[k], row(x), NoPrep, w.alpha, w.gamma))])])

\* The term on one row, in Main the air value's and in Binary against it.
DirectOf(w) ==
    LET over(value) == Div(value, Denominator(MCBinary.direct, w.alpha, w.gamma))
    IN  CASE w.air = "arith" -> 0 [] w.air = "main" -> over(7) [] w.air = "binary" -> over(Prime - 7)

IsPermutation(a, b) ==
    \A v \in F : Cardinality({ x \in 1..4 : a[x] = v }) = Cardinality({ x \in 1..4 : b[x] = v })

True(w) == w.tamper = NoTamper /\ (w.air \in ProductAirs => IsPermutation(w.a, w.b))

Binds(w, stage2) ==
    /\ IF w.air \in ProductAirs THEN stage2.result = NoValue
       ELSE w.tamper = "row" \/ stage2.result = << (BusSum(w) + DirectOf(w)) % Prime >>
    /\ Splits(Quotient(w, EnvOf(w, stage2))) <=> True(w)

\* The section that stage 2 commits and what it exports bind the trace: the
\* quotient splits into columns of the base degree exactly when no cell, column,
\* air value or export is off, not even an export and its direct term together,
\* and, under a running product, when one column is the other rearranged; the
\* export of a sum is the trace's interactions and the direct term, and none of
\* them in the column.  A product with a direct term is refused.
StageTwoBindsTheTrace ==
    input.kind = "logup" =>
        IF input.air = "direct" THEN Stage2Of(input) = RefusedStage
        ELSE Binds(input, Stage2Of(input))

-----------------------------------------------------------------------------
Subgroup(nb) == Tabulated([x \in 1..2^nb |-> Power(W(nb), x - 1)])

\* The rows of the base domain where the column of this extension is not zero.
NonZeroRows(extended, nb, bb) ==
    LET base == Tabulated(Unextend(<< extended >>, nb, bb)[1])
    IN  { x \in 1..2^nb : base[x] # 0 }

\* A section extended a block at a time, whatever the budget of a block, is
\* every column's interpolant on the coset, and unextending it gives the section
\* back; the inverse zerofier of a row is the polynomial that vanishes on every
\* other row, and the one of a frame vanishes on the frame's rows alone.
ExtensionsInterpolate ==
    /\ input.kind = "lde" =>
           LET nb == input.nb
               bb == input.bb
               extended == Tabulated(Extend(input.section, nb, bb, input.block * 2^(nb + bb) * 8))
               base == Subgroup(nb)
               coset == CosetPoints(nb, bb)
           IN  /\ \A c \in DOMAIN extended, x \in DOMAIN coset :
                     extended[c][x] = Lagrange(base, input.section[c], coset[x])
               /\ Unextend(extended, nb, bb) = input.section
    /\ input.kind = "zerofier" =>
           LET nb == input.nb
               bb == input.bb
           IN  /\ NonZeroRows(InvOneRowZerofier(nb, bb, input.offMin % 2^nb), nb, bb)
                    = { (input.offMin % 2^nb) + 1 }
               /\ NonZeroRows(InvFrameZerofier(nb, bb, input.offMin, input.offMax), nb, bb)
                    = (input.offMin + 1)..(2^nb - input.offMax)

\* Expression code run over the windows of a domain, the last one short and
\* every rotation wrapping at the domain's ends and not the window's, gives the
\* rows it gives run over the whole; and the bytes a window is sized by are the
\* most its temporaries hold between two operations.
WindowsAgreeWithTheWhole ==
    input.kind = "windows" =>
        LET env == WindowEnv(input.n)
            windows == RowWindows(input.n, input.count)
            rowsOf(w) == [j \in 1..(w[2] - w[1]) |-> w[1] + j - 1]
            part(w) == LET v == RunBlock(input.code, env, 1, rowsOf(w))
                       IN  [j \in DOMAIN rowsOf(w) |-> At(v, j)]
        IN  /\ FlattenSeq([k \in DOMAIN windows |-> part(windows[k])])
                 = Whole(RunBlock(input.code, env, 1, AllRows), input.n)
            /\ Len(windows) <= input.count
            /\ LiveBytesPerRow(input.code, ColumnDimOf)
                 = Max({ BytesAfter(input.code, k) : k \in 0..Len(input.code) })

-----------------------------------------------------------------------------
\* What pil2 packs is read back: every value of a packed section as its cubic,
\* the openings of base columns and of the others in the order of the evMap, a
\* tiled dump as the matrix it was written from, and a chip's trace with its fixed
\* columns at their own index whatever the key's order, unless the descriptors
\* do not tile the index space, the key's file is not what its starkinfo says,
\* or the main trace has another shape.
BuffersReadBack ==
    /\ input.kind = "values" =>
           LET words == Packed(input.stages)
               cubics == CubicsOf(input.stages)
               of(stage) == SelectSeq([i \in DOMAIN cubics |-> i], LAMBDA i : input.stages[i] = stage)
           IN  /\ ValuesEnv(words, input.stages) = cubics
               /\ Values3(words, input.stages) = FlattenSeq(cubics)
               /\ Stage1Values(words, input.stages)
                    = [j \in DOMAIN of(1) |-> cubics[of(1)[j]][1]]
               /\ Stage2Absorbed(words, input.stages)
                    = FlattenSeq([j \in DOMAIN of(2) |-> cubics[of(2)[j]]])
               /\ \A stage \in 1..3 : StageChallengeIds(input.stages, stage) = of(stage)
    /\ input.kind = "evmap" =>
           LET places == [i \in DOMAIN input.isBase |-> i]
           IN  OpenEvMap(input.isBase, places) = places
    /\ input.kind = "tiles" =>
           LET rows == input.blocks * TileRows
           IN  Untile(Tiled(rows, input.cols), rows, input.cols)
                 = [r \in 1..rows |-> [c \in 1..input.cols |-> << r, c >>]]
    /\ input.kind = "chip" =>
           LET names == PreprocessedNames(input.cols, input.nPrep)
               at(slot) == { k \in DOMAIN input.cols :
                               input.cols[k].index = slot /\ input.cols[k].width = 1 }
               tiles == /\ Len(input.cols) = input.nPrep
                        /\ \A slot \in 0..(input.nPrep - 1) : Cardinality(at(slot)) = 1
               derived == (1 :> [base |-> 2, lo |-> 1, hi |-> 3])
               prep == ChipPreprocessed(names, "Air", KeyOf(input.n, input.flaw), derived)
               main == MainOf(input.n, input.flaw)
               flawed == input.nPrep > 0 /\
                            \/ input.flaw \in { "count", "wide", "size", "height" }
                            \/ input.flaw = "missing" /\ 3 \in ToSet(names)
           IN  IF ~tiles THEN names = RefusedColumns
               ELSE /\ \A slot \in 0..(input.nPrep - 1) :
                          \A k \in at(slot) : names[slot + 1] = input.cols[k].name
                    /\ FullTrace(1, main, prep)
                         = IF flawed \/ input.flaw = "combined" THEN RefusedColumns
                           ELSE [k \in DOMAIN names |-> FixedColumn(names[k], input.n)] \o main

-----------------------------------------------------------------------------
\* What a prove writes is read back: the layout of a wire proof has no words
\* over and every section where the verifier's parse looks, with a last level of
\* the cap's words; every child of a node at its fixed place, zeros for one that
\* is absent; the head of a subtree the sum of its parts'; and a proof.bin cut
\* anywhere inside the proof refused, never decoded to a shorter one.
ProofsReadBack ==
    /\ input.kind = "wire" =>
           LET si == input.si
               buf == SerializeProof(si)
               parsed == ParseProof(si, buf)
           IN  /\ parsed.consumed = Len(buf)
               /\ parsed.airgroup = Section(<<"airgroup", 0>>, 3 * Len(si.airgroup))
               /\ \A s \in 1..(si.nStages + 1) : parsed.roots[s] = Section(<<"root", s>>, Digest)
               /\ parsed.evals = Section(<<"evals", 0>>, 3 * si.nEvals)
               /\ \A k \in DOMAIN si.steps :
                     LastLevelAt(si.steps[k], si) = NSiblings(si.steps[k], si)
    /\ input.kind = "node" =>
           LET out == NodeZkin(input.prefix, input.segments)
               present == { k \in 1..3 : input.segments[k] # NoChild }
               width(k) == Len(input.segments[k][1] \o input.segments[k][2])
           IN  IF present = {} \/ \E j, k \in present : width(j) # width(k)
               THEN out = RefusedZkin
               ELSE LET w == width(CHOOSE k \in present : TRUE)
                    IN  /\ Len(out) = Len(input.prefix) + 3 * w
                        /\ \A k \in 1..3, x \in 1..w :
                              out[Len(input.prefix) + (k - 1) * w + x]
                                = IF k \notin present THEN 0
                                  ELSE (input.segments[k][1] \o input.segments[k][2])[x] % WordMod
    /\ input.kind = "subtree" =>
           LET lefts == [k \in 1..input.left |-> BasicOf(k)]
               rights == [k \in 1..input.right |-> BasicOf(k + 2)]
               head(basics) == SubtreeHead(basics, << 0, 0 >>)
           IN  head(lefts \o rights)
                 = [k \in 1..7 |-> (head(lefts)[k] + head(rights)[k]) % WordMod]
    /\ input.kind = "bin" =>
           LET proof == Encode(input.words, << >>)
               buf == Encode(input.words, input.trailer)
           IN  /\ Decode(buf) = [ok |-> TRUE, words |-> input.words, trailer |-> input.trailer]
               /\ \A cut \in 0..(Len(proof) - 1) : ~Decode(SubSeq(buf, 1, cut)).ok

-----------------------------------------------------------------------------
\* The quotient of a chip is the key's own, over sections extended by blocks and
\* expressions run by windows.
QuotientsAreTheKeys ==
    ReauthoredQuotientIsTheKeys /\ ExtensionsInterpolate /\ WindowsAgreeWithTheWhole

\* What pil2 packs, and what a prove writes, is read back whole or refused.
WhatIsPackedReadsBack == BuffersReadBack /\ ProofsReadBack
=============================================================================
