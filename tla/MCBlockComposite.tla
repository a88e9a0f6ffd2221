-------------------------- MODULE MCBlockComposite --------------------------
(* Executions of one or two Main segments of two rows over two registers,  *)
(* with the Binary instance that proves their operations; and what could   *)
(* be handed in instead of one.                                            *)
EXTENDS BlockComposite

MCBoot == 10
MCEnd == 14

\* A row accesses a register, leaving a value in it, or asks Binary.
Operation == << >>
Access(r, v) == << r, v >>

Patterns == { << Operation, Operation >>, << Access(1, <<1, 0>>), Operation >>,
              << Access(2, <<2, 3>>), Access(2, <<4, 1>>) >> }

Executions == UNION { [1..n -> Patterns] : n \in 1..2 }

Rows(e) == Len(e) * NRows
Row(e, n) == e[((n - 1) \div NRows) + 1][((n - 1) % NRows) + 1]
Step(n) == 1 + 4 * (n - 1)

\* The step and the value of register r before row n: of its last access, or
\* of the re-issue at the boundary the row follows.
RegBefore(e, r, n) ==
    LET at[m \in 1..(Rows(e) + 1)] ==
          IF m = 1 THEN << 0, Zeros >>
          ELSE LET after == IF Row(e, m - 1) # Operation /\ Row(e, m - 1)[1] = r
                            THEN << Step(m - 1), Row(e, m - 1)[2] >> ELSE at[m - 1]
               IN IF (m - 1) % NRows = 0 /\ m <= Rows(e)
                  THEN << Step(m - 1) + 3, after[2] >> ELSE after
    IN at[n]

\* And after it, before any re-issue.
RegAfter(e, r, n) ==
    IF Row(e, n) # Operation /\ Row(e, n)[1] = r THEN << Step(n), Row(e, n)[2] >>
    ELSE RegBefore(e, r, n)

BinaryId == 5

RowUpdates(e, n) ==
    IF Row(e, n) = Operation THEN << Update(BinaryId, << n >>, -1) >>
    ELSE LET r == Row(e, n)[1]
             access(numerator, at) == Update(MemoryId, << r, at[1] >> \o at[2], numerator)
         IN << access(1, RegBefore(e, r, n)), access(-1, RegAfter(e, r, n)) >>

Main(e, s) ==
    LET last == s * NRows
        end(r) == RegAfter(e, r, last)
    IN [instance |-> <<"Main", s>>, family |-> "Main",
        trace |-> <<"Main", e, s>>,
        airvalues |-> [main_segment |-> s - 1,
                       main_last_segment |-> IF s = Len(e) THEN 1 ELSE 0,
                       segment_initial_pc |-> IF s = 1 THEN MCBoot ELSE MCBoot + 1,
                       segment_next_pc |-> IF s = Len(e) THEN MCEnd ELSE MCBoot + 1,
                       segment_previous_c |-> IF s = 1 THEN Zeros ELSE <<7, 8>>,
                       segment_last_c |-> IF s = Len(e) THEN Zeros ELSE <<7, 8>>,
                       last_reg_value |-> end(1)[2] \o end(2)[2],
                       last_reg_mem_step |-> << end(1)[1], end(2)[1] >>]]

\* The Binary instance proves every operation, when there is one.
Operations(e) == SelectSeq([n \in 1..Rows(e) |-> n], LAMBDA n : Row(e, n) = Operation)

Binary(e) == [instance |-> <<"Binary", 1>>, family |-> "Binary",
              trace |-> <<"Binary", e>>,
              airvalues |-> << >>]

Honest(e) == [s \in 1..Len(e) |-> Main(e, s)]
             \o (IF Operations(e) = << >> THEN << >> ELSE << Binary(e) >>)

MCUpdates(trace) ==
    LET e == trace[2]
    IN IF trace[1] = "Main"
       THEN FlattenSeq([row \in 1..NRows |-> RowUpdates(e, (trace[3] - 1) * NRows + row)])
       ELSE [k \in DOMAIN Operations(e) |-> Update(BinaryId, << Operations(e)[k] >>, 1)]

\* The same instances, ungrouped by family.
Ungrouped(b) == << b[Len(b)] >> \o SubSeq(b, 1, Len(b) - 1)
Split(b) == IF Len(b) < 3 THEN b ELSE << b[1], b[3], b[2] >>

Altered(b, k, name, v) == [b EXCEPT ![k].airvalues = [@ EXCEPT ![name] = v]]

\* An instance left out or in twice, and each air value of Main off.
Tampered(e) ==
    LET b == Honest(e)
        av(k) == b[k].airvalues
        altered(name, v(_)) == { Altered(b, k, name, v(k)) : k \in DOMAIN e }
    IN { RemoveAt(b, k) : k \in DOMAIN b }
       \cup { Append(b, [b[k] EXCEPT !.instance = <<"twice", k>>]) : k \in DOMAIN b }
       \cup altered("last_reg_value", LAMBDA k : [av(k).last_reg_value EXCEPT ![3] = @ + 1])
       \cup altered("last_reg_mem_step", LAMBDA k : [av(k).last_reg_mem_step EXCEPT ![1] = @ + 1])
       \cup altered("last_reg_mem_step",
                    LAMBDA k : [av(k).last_reg_mem_step EXCEPT ![2] = Step(k * NRows) + 3])
       \cup altered("segment_next_pc", LAMBDA k : 99)
       \cup altered("segment_previous_c", LAMBDA k : <<9, 9>>)
       \cup altered("main_last_segment", LAMBDA k : 1 - av(k).main_last_segment)
       \cup altered("main_segment", LAMBDA k : av(k).main_segment + 1)

Truthful == { Honest(e) : e \in Executions } 
            \cup { Ungrouped(Honest(e)) : e \in Executions }
            \cup { Split(Honest(e)) : e \in Executions }

MCBlocks == (Truthful \cup UNION { Tampered(e) : e \in Executions }) \ { << >> }

MCVerkey(family) == <<"vk", family>>

-----------------------------------------------------------------------------
\* The sum of every airgroup value and the global updates cancels exactly
\* for the blocks that are one whole execution, in whichever order.
BlockBalancesIffWhole ==
    pc = "done" => (Balanced(values) <=> sources \in Truthful)
=============================================================================
