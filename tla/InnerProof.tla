---------------------------- MODULE InnerProof ----------------------------
(***************************************************************************)
(* The inner proof of zisk_zorch/prover.py and verifier.py: the trace is   *)
(* committed and bound, the quotient stage folds its constraints by alpha  *)
(* and divides by the zerofier (quotient/), the opening stage opens every  *)
(* column at z, batches them into the DEEP codeword and hands it to FRI    *)
(* (opening/, deep/), and the verifier replays the same transcript without *)
(* the trace.  Fri's own prover and verifier are the last steps.           *)
(*                                                                         *)
(* A column of the quotient is one field element: the cubic extension is   *)
(* the field itself, so z is taken off the coset and off the subgroup.     *)
(***************************************************************************)
EXTENDS Fri, Domains

CONSTANTS
    Traces,          \* sections of 2^nBits rows, by columns
    EvalFn(_),       \* the AIR: the constraints of one row
    BlockBytes,      \* LDE_BLOCK_BYTES
    InnerSchedules,  \* <<n_bits, blowup_bits, fold_bits, final_bits, pow_bits>>
    InnerOracles     \* alpha, z, vf, betas, seed, other, draw, otherDraw

ASSUME InnerAssumption ==
    /\ \A s \in InnerSchedules : s[5] \in 1..(WordBits - 1)
    /\ \A o \in InnerOracles : o.seed \in F

VARIABLES
    trace,    \* the witness, <<>> when FRI runs on its own
    echo,     \* echo_deep: FRI over the quotient, nothing opened
    drawn,    \* alpha, z, vf: what the stages squeeze
    stage,    \* the next stage of the composite
    ext,      \* the trace commitment: the extended columns
    quotient, \* its codeword
    evals,    \* the openings at z
    opened    \* the rows of the two trees in the proof, by query

innerVars == <<trace, echo, drawn, stage, ext, quotient, evals, opened>>
allVars == <<friVars, innerVars>>

-----------------------------------------------------------------------------
(* prover.py                                                               *)

\* _fold_steps: down by foldBits while above finalBits, then finalBits.
FoldSteps(bitsExt, foldBits, finalBits) ==
    [i \in 1..((bitsExt - finalBits + foldBits - 1) \div foldBits) |->
        bitsExt - (i - 1) * foldBits] \o <<finalBits>>

Rows(columns) == [x \in DOMAIN columns[1] |-> [c \in DOMAIN columns |-> columns[c][x]]]

InnerInit ==
    \E s \in InnerSchedules, o \in InnerOracles :
      /\ nBits = s[1] /\ powBits = s[5]
      /\ steps = FoldSteps(s[1] + s[2], s[3], s[4])
      /\ drawn = <<o.alpha, o.z, o.vf>>
      /\ betas = [i \in 1..NumRounds |-> o.betas[i]]
      /\ seed = o.seed /\ other = o.other /\ draw = o.draw /\ otherDraw = o.otherDraw
      /\ trace \in { t \in Traces : Len(t[1]) = 2^nBits }
      /\ echo \in BOOLEAN
      /\ stage = "commit"
      /\ poly = <<>> /\ codeword = <<>>
      /\ pc = "fold" /\ layers = <<>> /\ log = <<>> /\ proof = NoProof /\ verdict = "none"
      /\ ext = <<>> /\ quotient = <<>> /\ evals = <<>> /\ opened = <<>>

FriInit ==
    /\ FoldInit
    /\ trace = <<>> /\ echo = FALSE /\ drawn = <<0, 0, 0>> /\ stage = "fri"
    /\ ext = <<>> /\ quotient = <<>> /\ evals = <<>> /\ opened = <<>>

BlowupBits == steps[1] - nBits

CommitTrace(section) == Extend(section, nBits, BlowupBits, BlockBytes)

\* The commitment of the trace, bound to the transcript.
Commit ==
    /\ stage = "commit"
    /\ ext' = CommitTrace(trace)
    /\ log' = <<Rows(ext')>>
    /\ stage' = "quotient"
    /\ UNCHANGED <<Oracle, pc, codeword, layers, proof, verdict, trace, echo, drawn,
                   quotient, evals, opened>>

\* The constraints of a row folded by the powers of alpha.
Composite(row, alpha) ==
    LET cs == EvalFn(row) IN SumOf([k \in DOMAIN cs |-> (Power(alpha, k - 1) * cs[k]) % Prime])

\* QuotientProver.prove: alpha, the division, the commitment and its root.
Quotient ==
    /\ stage = "quotient"
    /\ LET zi == InvZerofier(nBits, BlowupBits)
           rows == Rows(ext)
       IN  quotient' = [x \in DOMAIN rows |-> (Composite(rows[x], drawn[1]) * zi[x]) % Prime]
    /\ log' = Append(log, quotient')
    /\ stage' = "deep"
    /\ UNCHANGED <<Oracle, pc, codeword, layers, proof, verdict, trace, echo, drawn,
                   ext, evals, opened>>

-----------------------------------------------------------------------------
(* The opening stage.                                                      *)

\* deep_composition: the batched quotients of every column at its point.
DeepAt(row, openings, z, vf, x) ==
    SumOf([m \in DOMAIN row |-> (Power(vf, m - 1) * Div(Sub(row[m], openings[m]), Sub(x, z))) % Prime])

Columns == Append(ext, quotient)

\* The coefficients behind a codeword on the coset.
CoefficientsOf(word) ==
    Scaled(InverseNtt(word, W(steps[1])), InverseOf[CosetShift])

\* deep_fri_polynomial: z, the openings, vf, the composition.
Deep ==
    /\ stage = "deep" /\ ~echo
    /\ LET z == drawn[2]
           rows == Rows(Columns)
           lev == ComputeLev(z, 0, nBits)
           xi == OodPoint(z, 0, nBits)
       IN  /\ evals' = [m \in DOMAIN Columns |-> OpenColumn(Columns[m], lev, 2^BlowupBits)]
           /\ codeword' = [x \in DOMAIN rows |->
                             DeepAt(rows[x], evals', xi, drawn[3], CosetPoints(nBits, BlowupBits)[x])]
    /\ log' = Append(log, evals')
    /\ poly' = CoefficientsOf(codeword')
    /\ stage' = "fri"
    /\ UNCHANGED <<steps, nBits, powBits, betas, seed, draw, other, otherDraw, pc, layers, proof,
                   verdict, trace, echo, drawn, ext, quotient, opened>>

\* EchoOpening: FRI over the quotient itself.
EchoDeep ==
    /\ stage = "deep" /\ echo
    /\ codeword' = quotient
    /\ poly' = CoefficientsOf(quotient)
    /\ stage' = "fri"
    /\ UNCHANGED <<steps, nBits, powBits, betas, seed, draw, other, otherDraw, pc, layers, log,
                   proof, verdict, trace, echo, drawn, ext, quotient, evals, opened>>

FriRound == stage = "fri" /\ Round /\ UNCHANGED innerVars

\* The queries, and the rows of both trees at each of them.
Query ==
    /\ stage = "fri"
    /\ SampleAndOpen
    /\ opened' = IF trace # <<>> /\ pc' = "proved"
                 THEN [q \in DOMAIN draw |->
                         LET at == (draw[q] % 2^steps[1]) + 1
                         IN  [trace |-> Rows(ext)[at], quotient |-> quotient[at]]]
                 ELSE opened
    /\ UNCHANGED <<trace, echo, drawn, stage, ext, quotient, evals>>

-----------------------------------------------------------------------------
(* What may change on the way, and the verifier.                           *)

AlterFri == Alter /\ UNCHANGED innerVars

AlterHead ==
    /\ pc = "proved" /\ proof.altered = "no" /\ trace # <<>> /\ ~echo
    /\ \/ \E i \in {1, 2} : proof' = [proof EXCEPT !.head[i] = <<>>, !.altered = "head"]
       \/ \E m \in DOMAIN evals :
            proof' = [proof EXCEPT !.head[3] = Changed(@, m), !.altered = "evals"]
    /\ UNCHANGED <<Oracle, pc, codeword, layers, log, verdict, innerVars>>

AlterOpened ==
    /\ pc = "proved" /\ proof.altered = "no" /\ trace # <<>> /\ ~echo
    /\ proof' = [proof EXCEPT !.altered = "opened"]
    /\ \E q \in DOMAIN opened :
         \/ opened' = [opened EXCEPT ![q].quotient = (@ + 1) % Prime]
         \/ \E c \in DOMAIN opened[q].trace : opened' = [opened EXCEPT ![q].trace = Changed(@, c)]
    /\ UNCHANGED <<Oracle, pc, codeword, layers, log, verdict, trace, echo, drawn, stage, ext,
                   quotient, evals>>

\* The oracle for the three squeezes before FRI.
DrawnAfter(n) == IF SubSeq(proof.head, 1, n) = SubSeq(log, 1, n) THEN drawn[n] ELSE other

\* Mutant: the opened quotient is not multiplied back by the zerofier.
ConstraintHoldsAtZNoZerofier(openings, alpha, z) ==
    LET n == Len(openings) - 1
    IN  Composite(SubSeq(openings, 1, n), alpha) = openings[n + 1]

\* _check_constraint_at_z.
ConstraintHoldsAtZ(openings, alpha, z) ==
    LET n == Len(openings) - 1
    IN  Composite(SubSeq(openings, 1, n), alpha)
          = (openings[n + 1] * Sub(Power(z, 2^nBits), 1)) % Prime

\* _check_queries: both rows under their roots, and the composition rebuilt
\* from them equal to the element of FRI's first group.
QueriesHold(openings, z, vf, positions) ==
    \A q \in DOMAIN positions :
      LET at == positions[q] % 2^steps[1]
          row == Append(opened[q].trace, opened[q].quotient)
          rebuilt == DeepAt(row, openings, OodPoint(z, 0, nBits), vf,
                            CosetPoints(nBits, BlowupBits)[at + 1])
      IN  /\ GroupProofHolds(proof.head[1], at, opened[q].trace)
          /\ GroupProofHolds(proof.head[2], at, opened[q].quotient)
          /\ rebuilt = proof.openings[q][1][(at \div 2^steps[2]) + 1]

VerifyFri == Verify /\ UNCHANGED innerVars

\* OpeningVerifier.verify, over the openings and the challenges of the stages;
\* it refuses a proof that opens nothing.
OpeningVerdict(openings, alpha, z, vf) ==
    IF echo THEN "refused"
    ELSE IF /\ GrindIsValid(Challenge, proof.nonce)
            /\ ConstraintHoldsAtZ(openings, alpha, z)
            /\ QueriesHold(openings, z, vf, Positions)
            /\ FriHolds
    THEN "accepted" ELSE "rejected"

\* The trace root, the quotient stage and the opening stage, replayed.
InnerVerify ==
    /\ pc = "proved" /\ trace # <<>>
    /\ verdict' = OpeningVerdict(proof.head[3], DrawnAfter(1), DrawnAfter(2), DrawnAfter(3))
    /\ pc' = "verified"
    /\ UNCHANGED <<Oracle, codeword, layers, log, proof, innerVars>>

AllInit == InnerInit \/ FriInit
AllNext == \/ Commit \/ Quotient \/ Deep \/ EchoDeep
           \/ FriRound \/ Query \/ AlterFri \/ AlterHead \/ AlterOpened
           \/ VerifyFri \/ InnerVerify

InnerSpec == AllInit /\ [][AllNext]_allVars

-----------------------------------------------------------------------------
(* Properties.                                                             *)

\* The columns of a trace satisfy the AIR on every row.
Satisfied == \A x \in 1..2^nBits : \A k \in DOMAIN EvalFn(Rows(trace)[x]) : EvalFn(Rows(trace)[x])[k] = 0

\* The fold by alpha vanishes on every row.
FoldVanishes == \A x \in 1..2^nBits : Composite(Rows(trace)[x], drawn[1]) = 0

\* Shapes of what the stages hand to each other.
InnerTypeOK ==
    /\ FriTypeOK
    /\ stage \in { "commit", "quotient", "deep", "fri" }
    /\ ValidSteps(steps)
    /\ stage # "commit" /\ trace # <<>> => Len(ext) = Len(trace) /\ Len(Rows(ext)) = 2^steps[1]
    /\ quotient # <<>> => Len(quotient) = 2^steps[1]
    /\ evals # <<>> => Len(evals) = Len(trace) + 1

\* The value at x of the polynomial of degree < N a column of the trace gives.
TracePolyAt(column, x) ==
    Lagrange([i \in 1..2^nBits |-> Power(W(nBits), i - 1)], column, x)

\* What is opened is the value of the trace's own polynomials at z, and, when
\* the fold vanishes on every row, a quotient that multiplies back to the
\* fold at z: the extension, the zerofier, the weights of the opening and the
\* point of the composition agree on one domain and one shift.
OpeningsAreTheTraceAtZ ==
    evals # <<>> =>
        LET n == Len(trace)
            z == drawn[2]
        IN  /\ \A c \in 1..n : evals[c] = TracePolyAt(trace[c], z)
            /\ FoldVanishes => ConstraintHoldsAtZ(evals, drawn[1], z)

\* The DEEP codeword of a trace whose fold vanishes has a degree below N, so
\* FRI can fold it; EchoOpening's codeword too.
DeepCodewordHasLowDegree ==
    stage = "fri" /\ trace # <<>> /\ FoldVanishes =>
        \A m \in DOMAIN poly : m > 2^nBits => poly[m] = 0

\* The proof of a satisfying trace is accepted whatever was squeezed, that of
\* a trace whose fold does not vanish is rejected, and a proof that opens
\* nothing is refused.
InnerProofsAreAcceptedWhenTrue ==
    pc = "verified" /\ proof.altered = "no" /\ trace # <<>> =>
        IF echo THEN verdict = "refused"
        ELSE /\ Satisfied => verdict = "accepted"
             /\ verdict = "accepted" => FoldVanishes

-----------------------------------------------------------------------------
(* What GrindsToTheSmallestNonce rests on (module TranscriptProofs).       *)

\* What the prover grinds at, and what it leaves: the search's nonce in a
\* proof, or a search that found none.
GrindInv ==
    /\ powBits \in 1..(WordBits - 1)
    /\ seed \in F
    /\ "altered" \in DOMAIN proof /\ "nonce" \in DOMAIN proof
    /\ pc = "failed" => ~GrindIsValid(seed, GrindSearch(seed))
    /\ pc = "proved" /\ proof.altered = "no" =>
          /\ proof.nonce = GrindSearch(seed)
          /\ GrindIsValid(seed, GrindSearch(seed))
=============================================================================
