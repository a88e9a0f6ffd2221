-------------------------- MODULE Pil2InnerProver --------------------------
(***************************************************************************)
(* Pil2InnerProver of zisk_zorch/harness/pil2_prover.py: the same proof by  *)
(* the roles of the byte-match harness.  Each role reduces the claim it is *)
(* given to the next one; prove_stages is a generator that yields after    *)
(* every role, and its caller may let it go at any of them.  The same      *)
(* prover, with the key's sections on the device, then proves again.       *)
(***************************************************************************)
EXTENDS Replay

VARIABLES
    air,        \* the key of this prover
    emit_wire,  \* it opens every tree for the wire
    proves,     \* proves begun
    stage,      \* what prove_stages yielded last; "none" outside of a prove
    claim,      \* the claim the next role is given
    ran, log, wire

vars == <<air, emit_wire, proves, stage, claim, ran, log, wire>>

-----------------------------------------------------------------------------
\* device_sections: the key's sections, and the zerofier and coset.
KeyRan ==
    LET host == [n \in BaseNames(air) |-> Host(n)]
    IN  { Called(air, Run(p), host) : p \in SetupNames(air) }

BaseSections == [n \in BaseNames(air) \cup Scalars |-> Host(n)]
ExtSections == [n \in { <<"const_ext">> } \cup Named("custom_ext", Ids(air)) |-> SectionOut(n)]

Outs(run) == [n \in Programs(air)[run[1]].out |-> Out(run, n)]

\* The challenges a claim carries, by the last stage squeezed.
Carried(c) == <<"challenges">> :> ChallengesUpTo(c.challenges)

\* squeeze_stage_challenges: every challenge of the stage, in the map's order.
SqueezeStage(n) == Squeeze(StageIds(n))

\* commit of StageOneWitness's trace.
TraceCommit ==
    /\ stage = "none"
    /\ proves < MaxProves
    /\ proves' = proves + 1
    /\ LET filled == IF air.witness
                     THEN { Called(air, Run(<<"witness_calc">>), BaseSections @@ <<"trace">> :> Host(<<"trace">>)) }
                     ELSE {}
           commit == Called(air, Run(<<"commit1">>), <<"trace">> :> Trace(air))
       IN  ran' = KeyRan \cup filled \cup { commit }
    /\ claim' = [trace |-> Trace(air), sections |-> Outs(Run(<<"commit1">>)), challenges |-> 0]
    /\ stage' = "trace_commit"
    /\ log' = <<>>
    /\ wire' = <<>>
    /\ UNCHANGED <<air, emit_wire>>

\* Mutant: root1 rides inside the seed of the recursion's schedule too.
SeededWithoutRoot ==
    IF air.recursive
    THEN << Put(Out(Run(<<"const_setup">>), <<"const_root">>)) >>
           \o (IF air.publics THEN << Absorb(air, Host(<<"publics">>)) >> ELSE <<>>)
    ELSE << Put(Host(<<"global_challenge">>)) >>

Seeded ==
    IF air.recursive
    THEN << Put(Out(Run(<<"const_setup">>), <<"const_root">>)) >>
           \o (IF air.publics THEN << Absorb(air, Host(<<"publics">>)) >> ELSE <<>>)
           \o << Put(claim.sections[<<"root1">>]) >>
    ELSE << Put(Host(<<"global_challenge">>)) >>

LogUpWitness ==
    /\ stage = "trace_commit"
    /\ LET squeezed == [claim EXCEPT !.challenges = 2]
           logup  == Run(<<"logup">>)
           commit == Run(<<"commit2">>)
           hints  == Called(air, logup, BaseSections @@ Carried(squeezed) @@ <<"trace">> :> claim.trace)
       IN  /\ ran' = ran \cup { hints, Called(air, commit, Outs(logup)) }
           /\ log' = log \o Seeded \o SqueezeStage(2)
                        \o << Put(Outs(commit)[<<"root2">>]) >> \o StageTwoAirvalues(air)
           /\ claim' = [squeezed EXCEPT !.sections = Outs(logup) @@ Outs(commit) @@ claim.sections]
    /\ stage' = "logup_witness"
    /\ UNCHANGED <<air, emit_wire, proves, wire>>

Quotient ==
    /\ stage = "logup_witness"
    /\ LET squeezed == [claim EXCEPT !.challenges = NStages + 1]
           agv  == IF air.sum THEN claim.sections[<<"airgroupvalue">>] ELSE Host(<<"zeros">>)
           args ==    <<"airgroupvalues">> :> agv
                   @@ <<"zi">> :> Out(Run(<<"constants">>), <<"zi">>)
                   @@ Carried(squeezed) @@ claim.sections @@ ExtSections @@ BaseSections
           windows == QuotientWindows(air)
           parts   == PartArgs("q", windows, <<"q">>)
           commit  == Run(<<"quotient_commit">>)
       IN  /\ ran' = ran \cup { Called(air, r, <<"rows">> :> Window(r[2]) @@ args) : r \in Range(windows) }
                        \cup { Called(air, commit, parts) }
           /\ log' = log \o SqueezeStage(NStages + 1) \o << Put(Outs(commit)[<<"rootq">>]) >>
           /\ claim' = [squeezed EXCEPT !.sections =
                           <<"airgroupvalues">> :> agv @@ Outs(commit) @@ claim.sections]
    /\ stage' = "quotient"
    /\ UNCHANGED <<air, emit_wire, proves, wire>>

-----------------------------------------------------------------------------
(* The opening role.                                                       *)

\* add_windows of the openings over the evMap, in row windows.
EvalsRuns(bufs) ==
    LET lev   == Run(<<"lev">>)
        parts == PartArgs("evals", EvalsWindows(air), <<"evals">>)
    IN  { Called(air, lev, <<"xi">> :> Squeezed(<<"std_xi">>)), Called(air, Run(<<"evals_sum">>), parts) }
          \cup { Called(air, EvalsRun(air, k), <<"start">> :> Window(EvalsRun(air, k)[2]) @@ Outs(lev) @@ bufs) :
                     k \in DOMAIN air.e }

DeepRuns(bufs, evals) ==
    LET parts == PartArgs("fri_pol", DeepWindows(air), <<"fri_pol">>)
        args  == <<"evals">> :> evals
              @@ <<"domain">> :> Out(Run(<<"constants">>), <<"domain">>)
              @@ <<"xi">> :> Squeezed(<<"std_xi">>)
              @@ <<"vf1">> :> Squeezed(<<"std_vf1">>) @@ <<"vf2">> :> Squeezed(<<"std_vf2">>) @@ bufs
    IN  { Called(air, DeepRun(air, k), <<"start">> :> Window(DeepRun(air, k)[2]) @@ args) : k \in DOMAIN air.d }
          \cup { Called(air, Run(<<"deep_concat">>), parts) }

\* Mutant: every round folds the batch itself.
FoldedNever(i) == Out(Run(<<"deep_concat">>), <<"fri_pol">>)

\* prove of fri/prover.py: the codeword of each round is committed, then
\* folded by the challenge squeezed after its root.
Folded(i) == IF i = 0 THEN Out(Run(<<"deep_concat">>), <<"fri_pol">>)
                      ELSE Out(Run(<<"fri_fold", i - 1>>), <<"codeword">>)
FriProveRuns ==
    UNION { { Called(air, Run(<<"fri_commit", i>>), <<"codeword">> :> Folded(i)),
              Called(air, Run(<<"fri_fold", i>>),
                      <<"codeword">> :> Folded(i) @@ <<"beta">> :> Squeezed(<<"beta", i>>)) } :
              i \in Rounds(air) }
      \cup { Called(air, Run(<<"fri_final">>), <<"codeword">> :> Folded(air.rounds)) }

\* _wire_openings: without emit_wire only the trace, quotient and FRI trees.
OpeningRunsOf(bufs) ==
    LET OpenRuns(name, args, at) ==
            { Called(air, Run(name), <<"positions">> :> Positions(at) @@ args) }
        fri(i) == Outs(Run(<<"fri_commit", i>>))
    IN  OpenRuns(<<"open_cm1">>, bufs, Extended) \cup OpenRuns(<<"open_qsec">>, bufs, Extended)
          \cup UNION { OpenRuns(<<"open_fri", i>>, fri(i), <<"round", i>>) : i \in Rounds(air) }
          \cup (IF ~emit_wire THEN {} ELSE
                   OpenRuns(<<"open_cm2">>, bufs, Extended)
                     \cup OpenRuns(<<"open_const">>,
                            <<"const_layers">> :> Out(Run(<<"const_setup">>), <<"const_setup_layers">>) @@ bufs,
                            Extended)
                     \cup UNION { OpenRuns(<<"open_custom", c>>,
                                     <<"custom_layers", c>> :> Out(Run(<<"custom_setup", c>>), <<"custom_setup_layers", c>>)
                                       @@ bufs, Extended) : c \in Ids(air) })

OpeningProve ==
    /\ stage = "quotient"
    /\ LET bufs  == claim.sections @@ ExtSections
           evals == Out(Run(<<"evals_sum">>), <<"evals">>)
           final == Out(Run(<<"fri_final">>), <<"final_pol">>)
       IN  /\ ran' = ran \cup EvalsRuns(bufs) \cup DeepRuns(bufs, evals) \cup FriProveRuns
                        \cup { Called(air, Run(<<"grind">>), <<"challenge">> :> Squeezed(<<"challenge">>)) }
                        \cup OpeningRunsOf(bufs)
           /\ log' = log \o SqueezeStage(NStages + 2) \o << Absorb(air, evals) >>
                        \o SqueezeStage(NStages + 3) \o FriRounds(air.rounds)
                        \o << Absorb(air, final) >> \o Squeeze(<< <<"challenge">> >>)
           /\ claim' = [claim EXCEPT !.challenges = NStages + 3,
                          !.sections = <<"evals">> :> evals @@ <<"final_pol">> :> final @@ claim.sections]
    /\ stage' = "opening"
    /\ UNCHANGED <<air, emit_wire, proves, wire>>

-----------------------------------------------------------------------------
(* The caller.                                                             *)

\* serialize_proof over the last claim and the openings.
SerializeProof ==
    /\ stage = "opening"
    /\ emit_wire
    /\ LET s == claim.sections
           opened(name) == << Opening(Run(name)) >>
       IN  wire' =
             << s[<<"airgroupvalues">>], s[<<"airvalues">>],
                s[<<"root1">>], s[<<"root2">>], s[<<"rootq">>], s[<<"evals">>] >>
               \o opened(<<"open_const">>)
               \o [j \in DOMAIN air.customs |-> Opening(Run(<<"open_custom", air.customs[j]>>))]
               \o opened(<<"open_cm1">>) \o opened(<<"open_cm2">>) \o opened(<<"open_qsec">>)
               \o [i \in 1..air.rounds |-> FriRoot(i - 1)]
               \o [i \in 1..air.rounds |-> Opening(Run(<<"open_fri", i - 1>>))]
               \o << s[<<"final_pol">>], Out(Run(<<"grind">>), <<"nonce">>) >>
    /\ stage' = "none"
    /\ UNCHANGED <<air, emit_wire, proves, claim, ran, log>>

\* The composed gate stops at the first stage that differs, or is done.
LetGo ==
    /\ stage # "none"
    /\ stage' = "none"
    /\ UNCHANGED <<air, emit_wire, proves, claim, ran, log, wire>>

NoClaim == [trace |-> Host(<<"trace">>), sections |-> <<>>, challenges |-> 0]

Init ==
    /\ air \in Airs
    /\ emit_wire \in BOOLEAN
    /\ proves = 0
    /\ stage = "none"
    /\ claim = NoClaim
    /\ ran = {} /\ log = <<>> /\ wire = <<>>

Next == TraceCommit \/ LogUpWitness \/ Quotient \/ OpeningProve \/ SerializeProof \/ LetGo

Spec == Init /\ [][Next]_vars

-----------------------------------------------------------------------------
(* Properties.                                                             *)

Stages == { "none", "trace_commit", "logup_witness", "quotient", "opening" }

\* The generator stands after one of its yields, and every program ran once
\* with all of its inputs.
TypeOK ==
    /\ air \in Airs
    /\ emit_wire \in BOOLEAN
    /\ proves \in 0..MaxProves
    /\ stage \in Stages
    /\ \A r \in ran : DOMAIN r.args = Programs(air)[r.run[1]].in

SqueezedInLog == { log[j].value : j \in { i \in DOMAIN log : log[i].op = "squeeze" } }

\* What a role hands on is what the transcript saw, wherever the caller stops:
\* the claim's challenges are all and only those squeezed so far, and every
\* commitment and every computed value of it the schedule absorbs is absorbed.
ClaimsAreTheTranscripts ==
    stage # "none" =>
        /\ \A c \in Range(ChallengesMap) :
              c.stage <= claim.challenges <=> Squeezed(<<c.name>>) \in SqueezedInLog
        /\ \A item \in Range(SelectSeq(Protocol(air), LAMBDA i : i.op # "squeeze")) :
              item.value \in Range(claim.sections) /\ ~(stage = "trace_commit")
                  => item \in Range(log)

\* With every tree opened, a prove that reaches its wire ran every program of
\* the schedule, exchanged the whole transcript and wrote the whole proof.
WireProofsAreWhole ==
    [][SerializeProof => /\ { r.run : r \in ran } = Runs(air)
                         /\ log = Protocol(air)
                         /\ wire' = Wire(air)]_vars

\* The roles keep to the schedule the compiled programs are driven by.
Schedule == INSTANCE GenProof
ImplementsGenProof == Schedule!Spec

\* The roles follow it at every step, and a prove that reaches its wire is the
\* whole of it.
ProvesFollowTheSchedule == WireProofsAreWhole /\ ImplementsGenProof
=============================================================================
