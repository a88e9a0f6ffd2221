-------------------------------- MODULE Fri --------------------------------
(***************************************************************************)
(* FRI as zisk_zorch/fri proves and verifies it: the codeword folded down  *)
(* the layer schedule (fold.py, seam.py, prover.py), the grinding and the  *)
(* query draw (queries.py), and the verifier that replays the transcript,  *)
(* opens every layer, folds every opened group and tests the degree of the *)
(* final polynomial (verifier.py).                                         *)
(*                                                                         *)
(* A tree's root is the rows it commits to.  The transcript is an oracle:  *)
(* what it squeezes depends on everything absorbed, and is chosen freely   *)
(* for the prover's absorbs and, as "other" values, for any others.        *)
(***************************************************************************)
EXTENDS PrimeField, FiniteSets

CONSTANTS
    Schedules,  \* triples <<steps, n_bits, pow_bits>>
    Polynomials,\* the FRI polynomials, by coefficients
    Betas,      \* the values a challenge may take
    Draws,      \* the query positions a grinded seed may give
    WordBits, Counters, \* grinding: the width of an image, the nonces searched
    Image(_, _) \* the first lane of the grinding permutation

ASSUME FriAssumption ==
    /\ WordBits \in Nat /\ WordBits % 2 = 0
    /\ \A s \in Schedules : s[3] \in 1..(WordBits - 1)
    /\ Betas # {} /\ Betas \subseteq F /\ Draws # {}
    /\ Counters \in Nat \ {0} /\ Counters <= Prime
    /\ \A c \in F, n \in 0..(Counters - 1) : Image(c, n) \in 0..(2^WordBits - 1)

VARIABLES
    steps, nBits, powBits, \* the schedule
    poly,              \* the polynomial whose codeword is folded
    betas, seed, draw, \* what the oracle gives along the prover's absorbs
    other, otherDraw,  \* and along any other
    pc,
    codeword,          \* FoldState: the running codeword
    layers,            \* the rows of the layers committed so far
    log,               \* what the prover absorbed
    proof,
    verdict

friVars == <<steps, nBits, powBits, poly, betas, seed, draw, other, otherDraw, pc, codeword, layers, log,
          proof, verdict>>

-----------------------------------------------------------------------------
(* fold.py, over codewords as sequences.                                   *)

\* SHIFT^(2^(nBitsExt - prevBits)): the coset shift of a layer.
ShiftEffOf(bitsExt, prevBits) == Power(CosetShift, 2^(bitsExt - prevBits))

\* The points of every group: point j of group g is s_g * (w^curN)^j.
CosetDomain(bitsExt, prevBits, curBits) ==
    [g \in 1..2^curBits |-> [j \in 1..2^(prevBits - curBits) |->
        (ShiftEffOf(bitsExt, prevBits) * Power(W(prevBits), (g - 1) + (j - 1) * 2^curBits)) % Prime]]

CosetInvSeeds(bitsExt, prevBits) ==
    << InverseOf[ShiftEffOf(bitsExt, prevBits)], InverseOf[W(prevBits)] >>

\* Group g of a codeword: the entries its fold reads.
Group(pol, curBits, g) ==
    [j \in 1..(Len(pol) \div 2^curBits) |-> pol[(j - 1) * 2^curBits + g]]

\* fold: each group interpolated on the subgroup, rescaled by s_g^-1 and
\* evaluated at the challenge.
Fold(pol, beta, bitsExt, prevBits, curBits) ==
    LET seeds == CosetInvSeeds(bitsExt, prevBits)
        sInv(g) == (seeds[1] * Power(seeds[2], g - 1)) % Prime
        coeffs(g) == InverseNtt(Group(pol, curBits, g), Power(W(prevBits), 2^curBits))
    IN  [g \in 1..2^curBits |->
           Eval([m \in DOMAIN coeffs(g) |-> (coeffs(g)[m] * Power(sInv(g), m - 1)) % Prime], beta)]

\* verify_fold: one queried group, through the points of its coset.
VerifyFold(values, beta, bitsExt, prevBits, curBits, idx) ==
    Lagrange(CosetDomain(bitsExt, prevBits, curBits)[idx + 1], values, beta)

-----------------------------------------------------------------------------
(* seam.py: Pil2FriCode.                                                   *)

\* __post_init__: the schedules the code takes.
ValidSteps(s) == /\ Len(s) >= 1
                 /\ \A i \in DOMAIN s : s[i] \in 0..TwoAdicity
                 /\ \A i, j \in DOMAIN s : i < j => s[i] > s[j]

NumRounds == Len(steps) - 1

\* The layer of a codeword is where its log size stands in the schedule.
LevelOf(length) == CHOOSE i \in DOMAIN steps : 2^steps[i] = length

FoldGroup(pol, beta) ==
    LET i == LevelOf(Len(pol)) IN Fold(pol, beta, steps[1], steps[i], steps[i + 1])

GroupLeaves(pol) ==
    LET i == LevelOf(Len(pol)) IN [g \in 1..2^steps[i + 1] |-> Group(pol, steps[i + 1], g)]

GroupLayerPositions(positions, i) ==
    [q \in DOMAIN positions |-> positions[q] % 2^steps[i + 1]]

\* The interpolation of the final polynomial on the plain subgroup vanishes
\* from the degree bound on.
CheckFinal(final) ==
    LET lastBits == steps[Len(steps)]
        blowup   == steps[1] - nBits
        init     == IF blowup > lastBits THEN 0 ELSE 2^(lastBits - blowup)
        coeffs   == InverseNtt(final, W(lastBits))
    IN  \A m \in DOMAIN coeffs : m > init => coeffs[m] = 0

-----------------------------------------------------------------------------
(* queries.py.                                                             *)

GrindLevel == 2^(WordBits - powBits)
Hit(challenge, nonce) == Image(challenge, nonce) < GrindLevel

\* Mutant: the low half is compared with the bits of the high one.
CheckHalvesSwapped(image) ==
    LET half == WordBits \div 2
        hi == image \div 2^half
        lo == image % 2^half
    IN  IF powBits <= half THEN lo < 2^(half - powBits)
                           ELSE hi = 0 /\ lo < 2^(WordBits - powBits)

\* The traced predicate compares the halves of the image.
CheckHalves(image) ==
    LET half == WordBits \div 2
        hi == image \div 2^half
        lo == image % 2^half
    IN  IF powBits <= half THEN hi < 2^(half - powBits)
                           ELSE hi = 0 /\ lo < 2^(WordBits - powBits)

\* grind_search: the lowest hit, 0 when the counters run out.
GrindSearch(challenge) ==
    LET hits == { n \in 0..(Counters - 1) : CheckHalves(Image(challenge, n)) }
    IN  IF hits = {} THEN 0 ELSE CHOOSE n \in hits : \A m \in hits : n <= m

GrindIsValid(challenge, nonce) == nonce \in F /\ Hit(challenge, nonce)

\* The oracle: the prover's value after the prover's absorbs.
BetaAfter(absorbed, i) == IF absorbed = SubSeq(log, 1, Len(absorbed)) THEN betas[i] ELSE other
SeedAfter(absorbed) == IF absorbed = log THEN seed ELSE other
QueryPositionsFor(challenge, nonce) ==
    IF challenge = seed /\ nonce = GrindSearch(seed) THEN draw ELSE otherDraw

-----------------------------------------------------------------------------
(* The prover.                                                             *)

NoProof == [head |-> <<>>, roots |-> <<>>, final |-> <<>>, nonce |-> 0, openings |-> <<>>, altered |-> "no"]

\* The codeword: the polynomial over the shifted coset of 2^nBitsExt points.
Codeword(coeffs, bits) ==
    [x \in 1..2^bits |-> Eval(coeffs, (CosetShift * Power(W(bits), x - 1)) % Prime)]

FoldInit ==
    /\ \E s \in Schedules : steps = s[1] /\ nBits = s[2] /\ powBits = s[3]
    /\ ValidSteps(steps)
    /\ poly \in { p \in Polynomials : Len(p) <= 2^steps[1] }
    /\ betas \in [1..NumRounds -> Betas]
    /\ seed \in Betas /\ other \in Betas
    /\ draw \in Draws /\ otherDraw \in Draws
    /\ pc = "fold"
    /\ codeword = Codeword(poly, steps[1])
    /\ layers = <<>> /\ log = <<>>
    /\ proof = NoProof
    /\ verdict = "none"

Oracle == <<steps, nBits, powBits, poly, betas, seed, draw, other, otherDraw>>

\* One round: commit the rows of the next fold, absorb the root, squeeze, fold.
Round ==
    /\ pc = "fold"
    /\ Len(layers) < NumRounds
    /\ LET leaves == GroupLeaves(codeword)
       IN  /\ layers' = Append(layers, leaves)
           /\ log' = Append(log, leaves)
           /\ codeword' = FoldGroup(codeword, betas[Len(layers) + 1])
    /\ UNCHANGED <<Oracle, pc, proof, verdict>>

\* prove_queries: every layer's row at every query, a query's layers together.
ProveQueries(queries) ==
    [q \in DOMAIN queries |->
       [i \in 1..NumRounds |-> layers[i][GroupLayerPositions(queries, i)[q] + 1]]]

\* sample_query_positions: absorb the final polynomial, grind, draw; then open
\* every layer at every position.  An exhausted search is an error.
SampleAndOpen ==
    /\ pc = "fold"
    /\ Len(layers) = NumRounds
    /\ log' = Append(log, codeword)
    /\ LET nonce == GrindSearch(seed)
       IN  IF ~GrindIsValid(seed, nonce)
           THEN pc' = "failed" /\ UNCHANGED proof
           ELSE /\ pc' = "proved"
                /\ proof' = [NoProof EXCEPT
                     !.head = SubSeq(log, 1, Len(log) - NumRounds),
                     !.roots = layers, !.final = codeword, !.nonce = nonce,
                     !.openings = ProveQueries(draw)]
    /\ UNCHANGED <<Oracle, codeword, layers, verdict>>

\* One value of the proof changes on its way.
Changed(seq, i) == [seq EXCEPT ![i] = (@ + 1) % Prime]
Alter ==
    /\ pc = "proved"
    /\ proof.altered = "no"
    /\ \/ \E i \in DOMAIN proof.final :
            proof' = [proof EXCEPT !.final = Changed(@, i), !.altered = "final"]
       \/ \E i \in DOMAIN proof.roots :
            proof' = [proof EXCEPT !.roots = [@ EXCEPT ![i] = <<>>], !.altered = "root"]
       \/ \E n \in 0..(Counters - 1) \ { proof.nonce } :
            proof' = [proof EXCEPT !.nonce = n, !.altered = "nonce"]
       \/ \E q \in DOMAIN proof.openings : \E i \in DOMAIN proof.openings[q] :
            \E j \in DOMAIN proof.openings[q][i] :
              proof' = [proof EXCEPT !.openings[q][i] = Changed(@, j), !.altered = "opening"]
    /\ UNCHANGED <<Oracle, pc, codeword, layers, log, verdict>>

-----------------------------------------------------------------------------
(* The verifier.                                                           *)

\* verify_group_proof: the row is the one the root commits to.
GroupProofHolds(root, idx, row) == idx + 1 \in DOMAIN root /\ root[idx + 1] = row

QueryLayersHold(roots, final, openings, positions, replayed) ==
    /\ \A i \in 1..NumRounds : \A q \in DOMAIN positions :
          LET at == GroupLayerPositions(positions, i)[q]
              row == openings[q][i]
              folded == VerifyFold(row, replayed[i], steps[1], steps[i], steps[i + 1], at)
          IN  /\ GroupProofHolds(roots[i], at, row)
              /\ IF i = NumRounds THEN folded = final[at + 1]
                 ELSE folded = openings[q][i + 1][(at \div 2^steps[i + 2]) + 1]
    /\ CheckFinal(final)

\* The replay: a challenge for every root, the grind before any position.
Challenge == SeedAfter(proof.head \o proof.roots \o <<proof.final>>)
Positions == QueryPositionsFor(Challenge, proof.nonce)

FriHolds ==
    LET replayed == [i \in 1..NumRounds |-> BetaAfter(proof.head \o SubSeq(proof.roots, 1, i), i)]
    IN  /\ GrindIsValid(Challenge, proof.nonce)
        /\ QueryLayersHold(proof.roots, proof.final, proof.openings, Positions, replayed)

Verify ==
    /\ pc = "proved"
    /\ proof.head = <<>>
    /\ verdict' = IF FriHolds THEN "accepted" ELSE "rejected"
    /\ pc' = "verified"
    /\ UNCHANGED <<Oracle, codeword, layers, log, proof>>

FriNext == Round \/ SampleAndOpen \/ Alter \/ Verify

FriSpec == FoldInit /\ [][FriNext]_friVars

-----------------------------------------------------------------------------
(* Properties.                                                             *)

FriTypeOK ==
    /\ pc \in { "fold", "proved", "failed", "verified" }
    /\ codeword \in Seq(F)
    /\ codeword # <<>> => Len(codeword) = 2^steps[Len(layers) + 1]
    /\ \A i \in DOMAIN layers : Len(layers[i]) = 2^steps[i + 1]
    /\ verdict \in { "none", "accepted", "rejected", "refused" }

\* f(X) = the sum of X^j f_j(X^k), and folding by beta is the sum of
\* beta^j f_j: the polynomial each layer's codeword stands for.
FoldedPoly(coeffs, beta, k) ==
    [m \in 1..((Len(coeffs) + k - 1) \div k) |->
        SumOf([j \in 1..k |->
            IF (m - 1) * k + j \in DOMAIN coeffs
            THEN (coeffs[(m - 1) * k + j] * Power(beta, j - 1)) % Prime ELSE 0])]

LayerPoly(i) ==
    FoldLeft(LAMBDA p, r : FoldedPoly(p, betas[r], 2^(steps[r] - steps[r + 1])), poly,
             [r \in 1..i |-> r])

\* Every layer's codeword is the folded polynomial over that layer's coset,
\* so a fold neither leaves the code nor moves to another coset.
CodewordsAreTheFoldedPolynomial ==
    codeword # <<>> =>
    LET i == Len(layers)
        bits == steps[i + 1]
    IN  codeword = [x \in 1..2^bits |->
            Eval(LayerPoly(i), (ShiftEffOf(steps[1], bits) * Power(W(bits), x - 1)) % Prime)]

\* A proof nobody touched is accepted exactly when what the polynomial folded
\* to has a degree below the bound, whatever was squeezed and drawn.
ProofsAreAcceptedByDegree ==
    pc = "verified" /\ proof.altered = "no" /\ proof.head = <<>> =>
        LET bound == 2^(steps[Len(steps)] - (steps[1] - nBits))
            final == LayerPoly(NumRounds)
        IN  verdict = "accepted" <=> \A m \in DOMAIN final : m > bound => final[m] = 0

\* A proof of a low-degree polynomial with one value changed is rejected; the
\* nonce alone may change to another one that passes the grind.
AlteredProofsAreRejected ==
    verdict = "accepted" =>
        \/ proof.altered = "no"
        \/ proof.altered = "nonce" /\ GrindIsValid(seed, proof.nonce)

\* The search ends on the smallest nonce the verifier's check accepts, and
\* fails only when there is none.
GrindsToTheSmallestNonce ==
    LET valid == { n \in 0..(Counters - 1) : GrindIsValid(seed, n) }
    IN  /\ pc = "failed" => valid = {}
        /\ pc = "proved" /\ proof.altered = "no" =>
             proof.nonce \in valid /\ \A n \in valid : proof.nonce <= n
=============================================================================
