---------------------------- MODULE Continuation ----------------------------
(***************************************************************************)
(* Main's continuation predicate (constraints/continuation.py): the direct *)
(* bus updates of a segment and the global ones that close every cycle.    *)
(* An update is a signed tuple of its bus; a grand sum is balanced when    *)
(* every tuple's signs cancel, which is when the sum of the fractions      *)
(* vanishes for generic alpha and gamma.                                   *)
(***************************************************************************)
EXTENDS Integers, Sequences, FiniteSets, SequencesExt

CONSTANTS Regs,      \* REGS_IN_MAIN
          NRows,     \* 2^n_bits, the rows of a segment
          RangeEnd,  \* the end of a reload window, 2^24
          BootAddr, EndPcAddr

ASSUME ContinuationAssumption ==
    /\ Regs \in Nat \ {0} /\ NRows \in Nat \ {0} /\ RangeEnd \in Nat
    /\ BootAddr # EndPcAddr

MainContinuationId == 1000
MemoryId == 10
RegRangeId == 102
SegmentRangeId == 103
Zeros == <<0, 0>>

Update(bus, values, numerator) == [bus |-> bus, values |-> values, numerator |-> numerator]

\* from_named: register-major, limb-minor.
RegValue(words, r) == << words[2 * (r - 1) + 1], words[2 * r] >>

FromNamed(named) ==
    [segment |-> named.main_segment, last |-> named.main_last_segment,
     initialPc |-> named.segment_initial_pc, nextPc |-> named.segment_next_pc,
     previousC |-> named.segment_previous_c, lastC |-> named.segment_last_c,
     regValue |-> [r \in 1..Regs |-> RegValue(named.last_reg_value, r)],
     regStep |-> named.last_reg_mem_step]

MainNextSegment(av) == (av.segment + 1) * (1 - av.last)

\* The reserved slot of the segment's last row.
BoundaryMemStep(av) == 1 + 4 * ((av.segment + 1) * NRows - 1) + 4 - 1

ContinuationAssumes(av) ==
    Update(MainContinuationId, << av.segment, 0, av.initialPc >> \o av.previousC, -1)

ContinuationProves(av) ==
    Update(MainContinuationId, << MainNextSegment(av), av.last, av.nextPc >> \o av.lastC, 1)

\* Mutant: the last segment re-issues too.
ReissueSignAlways(av) == -1

\* The boundary re-issue is gated off in the last segment.
ReissueSign(av) == -(1 - av.last)

\* interactions: three updates a register, then the segment's own.
Interactions(av) ==
    FlattenSeq([r \in 1..Regs |->
        << Update(RegRangeId, << BoundaryMemStep(av) - av.regStep[r] - 1 >>, -1),
           Update(MemoryId, << r, av.regStep[r] >> \o av.regValue[r], 1),
           Update(MemoryId, << r, BoundaryMemStep(av) >> \o av.regValue[r], ReissueSign(av)) >>])
    \o << ContinuationAssumes(av), ContinuationProves(av),
          Update(SegmentRangeId, << av.segment >>, -1) >>

GlobalUpdates ==
    << Update(MainContinuationId, << 0, 0, BootAddr >> \o Zeros, 1),
       Update(MainContinuationId, << 0, 1, EndPcAddr >> \o Zeros, -1) >>
    \o [r \in 1..Regs |-> Update(MemoryId, << r, 0 >> \o Zeros, -1)]

-----------------------------------------------------------------------------
(* The balance of a sequence of updates.  The range tables prove every     *)
(* value of their range as often as it is assumed, so a range update is    *)
(* balanced when its value is in range.                                    *)

RangeUpdate(u) == u.bus \in { RegRangeId, SegmentRangeId }

Balance(updates, bus, values) ==
    FoldLeft(LAMBDA n, u : IF u.bus = bus /\ u.values = values THEN n + u.numerator ELSE n,
             0, updates)

Balanced(updates) ==
    \A k \in DOMAIN updates :
        IF RangeUpdate(updates[k]) THEN updates[k].values[1] \in 0..(RangeEnd - 1)
        ELSE Balance(updates, updates[k].bus, updates[k].values) = 0
=============================================================================
