--------------------------- MODULE MCInnerProof ---------------------------
(* The field of 17 elements and an extended domain of 8 points: FRI on its *)
(* own over polynomials below and above the degree bound, and the inner    *)
(* proof of traces of 2 and 4 rows that satisfy the AIR or miss it in one  *)
(* row or one constraint.                                                  *)
EXTENDS InnerProof

MCSchedules == { << <<3, 2, 1>>, 2, 2>>, << <<3, 1>>, 2, 3>>, << <<3, 2>>, 1, 3>>, << <<3>>, 2, 2>> }
MCPolynomials == { <<5, 1>>, <<3, 0, 7, 16>>, <<2, 4, 0, 9, 0, 6>> }
MCDraws == { <<0, 5>>, <<6, 3>> }
MCImage(challenge, nonce) == (challenge * 5 + nonce * 7 + 9) % 16

\* A product and a gated copy, over three columns.
MCEvalFn(row) == << Sub((row[1] * row[2]) % Prime, row[3]), (row[1] * Sub(row[2], 2)) % Prime >>
MCTraces == { << <<3, 0, 5, 16>>, <<2, 7, 2, 2>>, <<6, 0, 10, 15>> >>,
              << <<3, 0, 5, 16>>, <<2, 7, 2, 2>>, <<6, 0, 10, 14>> >>,
              << <<3, 1, 5, 16>>, <<2, 7, 2, 2>>, <<6, 7, 10, 15>> >>,
              << <<4, 0>>, <<2, 9>>, <<8, 0>> >>,
              << <<4, 1>>, <<2, 9>>, <<8, 9>> >> }
MCInnerSchedules == { <<2, 1, 1, 1, 2>>, <<2, 1, 2, 1, 2>>, <<1, 2, 1, 2, 3>> }
MCOracles ==
    { [alpha |-> a, z |-> z, vf |-> v, betas |-> b, seed |-> 0, other |-> o,
       draw |-> d, otherDraw |-> <<1, 2>>] :
        a \in {3, 11}, z \in {2, 15}, v \in {5, 7}, b \in { <<4, 11>>, <<0, 6>> },
        o \in {8}, d \in { <<0, 5>>, <<6, 3>> } }

-----------------------------------------------------------------------------
\* What every stage hands on is one polynomial's: the openings are the trace's
\* own values at z, the DEEP codeword of a true trace has the degree FRI can
\* fold, and every layer is the folded polynomial over that layer's coset.
StagesHandOnPolynomials ==
    /\ InnerTypeOK
    /\ OpeningsAreTheTraceAtZ
    /\ DeepCodewordHasLowDegree
    /\ CodewordsAreTheFoldedPolynomial

\* An untouched proof is accepted exactly when what it claims is true, and one
\* with a value changed never is.
ProofsAreAcceptedWhenTrue ==
    /\ InnerProofsAreAcceptedWhenTrue
    /\ ProofsAreAcceptedByDegree
    /\ AlteredProofsAreRejected
=============================================================================
