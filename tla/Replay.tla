------------------------------- MODULE Replay -------------------------------
(***************************************************************************)
(* The schedule of one instance's prove as tables: the value every program *)
(* gets for every input (prove of zisk_zorch/export/replay.py), what       *)
(* enters and leaves the transcript in which order (harness/schedule.py,   *)
(* and for the seeds harness/pil2_prover.py), and the order of the wire    *)
(* proof (harness/proof_serializer.py).                                    *)
(*                                                                         *)
(* A run is <<program, first row>>; a value is <<run, output>>, or comes   *)
(* from the host or the transcript, which count as runs here.              *)
(***************************************************************************)
EXTENDS AirPrograms

CONSTANTS
    Airs,           \* the AIRs, as AirPrograms describes them
    ChallengesMap,  \* the challenges in map order: [name, stage]
    MaxProves       \* the bound on the proves of one driver or prover

NStages == 2

ASSUME ChallengesAssumption ==
    /\ ChallengesMap \in Seq([name : STRING, stage : 2..(NStages + 3)])
    /\ [name |-> "std_xi", stage |-> NStages + 2] \in Range(ChallengesMap)
    /\ { [name |-> n, stage |-> NStages + 3] : n \in { "std_vf1", "std_vf2" } } \subseteq Range(ChallengesMap)

\* An AIR's custom commits have ids of their own, its windows rows, and no
\* part of the quotient, the openings or the DEEP batch is without a window.
IsAir(air) ==
    /\ air \in [customs : Seq(Nat), witness : BOOLEAN, sum : BOOLEAN, airvalues : Seq(Nat),
                q : Seq(Nat \ {0}), e : Seq(Nat \ {0}), d : Seq(Nat \ {0}), rounds : Nat,
                hashed : BOOLEAN, recursive : BOOLEAN, publics : BOOLEAN]
    /\ \A i, j \in DOMAIN air.customs : air.customs[i] = air.customs[j] => i = j
    /\ Len(air.q) > 0 /\ Len(air.e) > 0 /\ Len(air.d) > 0

ASSUME AirsAssumption == \A air \in Airs : IsAir(air)

ASSUME MaxProvesAssumption == MaxProves \in Nat

\* Names bound to values: one, and all of two environments, the first's first.
Bind(name, value) == [n \in {name} |-> value]
e ++ f == [n \in DOMAIN e \cup DOMAIN f |-> IF n \in DOMAIN e THEN e[n] ELSE f[n]]

Run(program) == <<program, 0>>
Out(run, name) == <<run, name>>
Host(name) == <<Run(<<"host">>), name>>
Squeezed(name) == <<Run(<<"challenge">>), name>>
ChallengesUpTo(stage) == <<Run(<<"challenges">>), <<stage>>>>
Window(start) == <<<<<<"window">>, start>>, <<"rows">>>>
Positions(run) == <<Run(<<"positions">>), run>>

\* The members of a set of indices in their order.
InOrder(ids) ==
    [j \in 1..Cardinality(ids) |-> CHOOSE i \in ids : Cardinality({ x \in ids : x <= i }) = j]

StageIds(stage) ==
    LET ids == InOrder({ i \in DOMAIN ChallengesMap : ChallengesMap[i].stage = stage })
    IN  [j \in DOMAIN ids |-> <<ChallengesMap[ids[j]].name>>]

-----------------------------------------------------------------------------
(* The inputs of every run.                                                *)

Trace(air) == IF air.witness THEN Out(Run(<<"witness_calc">>), <<"trace">>)
                             ELSE Host(<<"trace">>)
AirvaluesOut == Out(Run(<<"logup">>), <<"airvalues">>)
AirgroupvaluesOut(air) == IF air.sum THEN Out(Run(<<"logup">>), <<"airgroupvalue">>)
                                     ELSE Host(<<"zeros">>)

WitnessArgs(air) ==
    [n \in { <<"trace">> } \cup BaseNames(air) \cup Scalars |-> Host(n)]
LogUpArgs(air) ==
    [n \in { <<"trace">>, <<"challenges">> } \cup BaseNames(air) \cup Scalars |->
        CASE n[1] = "trace"      -> Trace(air)
          [] n[1] = "challenges" -> ChallengesUpTo(2)
          [] OTHER               -> Host(n)]

EvalsOut == Out(Run(<<"evals_sum">>), <<"evals">>)

\* The sections by name, of this prove and of the key.
SectionOut(n) ==
    CASE n[1] = "cm1_ext"    -> Out(Run(<<"commit1">>), n)
      [] n[1] = "cm2_ext"    -> Out(Run(<<"commit2">>), n)
      [] n[1] = "qsec"       -> Out(Run(<<"quotient_commit">>), n)
      [] n[1] = "const_ext"  -> Out(Run(<<"const_setup">>), n)
      [] n[1] = "custom_ext" -> Out(Run(<<"custom_setup", n[2]>>), n)

QuotientSections(air) ==
    { <<"cm1_ext">>, <<"cm2_ext">>, <<"const_ext">> } \cup Named("custom_ext", Ids(air))
OpeningSections(air) == QuotientSections(air) \cup { <<"qsec">> }

QuotientArgs(air, r) ==
    [n \in QuotientSections(air)
             \cup { <<"publics">>, <<"proofvalues">>, <<"airvalues">>, <<"airgroupvalues">>,
                    <<"challenges">>, <<"zi">> }
             \cup (IF Len(air.q) = 1 THEN {} ELSE { <<"rows">> }) |->
        CASE n[1] = "publics" \/ n[1] = "proofvalues" -> Host(n)
          [] n[1] = "airvalues"      -> AirvaluesOut
          [] n[1] = "airgroupvalues" -> AirgroupvaluesOut(air)
          [] n[1] = "challenges"     -> ChallengesUpTo(NStages + 1)
          [] n[1] = "zi"             -> Out(Run(<<"constants">>), n)
          [] n[1] = "rows"           -> Window(r[2])
          [] OTHER                   -> SectionOut(n)]

EvalsArgs(air, r) ==
    [n \in OpeningSections(air) \cup { <<"lev">>, <<"start">> } |->
        CASE n[1] = "lev"   -> Out(Run(<<"lev">>), n)
          [] n[1] = "start" -> Window(r[2])
          [] OTHER          -> SectionOut(n)]

DeepArgs(air, r) ==
    [n \in OpeningSections(air) \cup { <<"evals">>, <<"domain">>, <<"xi">>, <<"vf1">>, <<"vf2">>, <<"start">> } |->
        CASE n[1] = "evals"  -> EvalsOut
          [] n[1] = "domain" -> Out(Run(<<"constants">>), n)
          [] n[1] = "xi"     -> Squeezed(<<"std_xi">>)
          [] n[1] = "vf1"    -> Squeezed(<<"std_vf1">>)
          [] n[1] = "vf2"    -> Squeezed(<<"std_vf2">>)
          [] n[1] = "start"  -> Window(r[2])
          [] OTHER           -> SectionOut(n)]

Codeword(i) == IF i = 0 THEN Out(Run(<<"deep_concat">>), <<"fri_pol">>)
                        ELSE Out(Run(<<"fri_fold", i - 1>>), <<"codeword">>)

\* The run of a windowed program over the k-th window.
QuotientRun(air, k) == IF Len(air.q) = 1 THEN Run(<<"quotient">>)
                       ELSE <<<<"quotient", air.q[k]>>, StartOf(air.q, k)>>
EvalsRun(air, k) == <<<<"evals", air.e[k]>>, StartOf(air.e, k)>>
DeepRun(air, k) == <<<<"deep", air.d[k]>>, StartOf(air.d, k)>>

QuotientWindows(air) == [k \in DOMAIN air.q |-> QuotientRun(air, k)]
EvalsWindows(air) == [k \in DOMAIN air.e |-> EvalsRun(air, k)]
DeepWindows(air) == [k \in DOMAIN air.d |-> DeepRun(air, k)]

PartArgs(prefix, runs, name) == [n \in Parts(prefix, runs) |-> Out(runs[n[2]], name)]

TreeArgs(matrix, committed, layers, bound, at) ==
    [n \in { matrix, bound, <<"positions">> } |->
        IF n = <<"positions">> THEN Positions(at)
        ELSE Out(committed, IF n = bound THEN layers ELSE matrix)]

Extended == <<"extended">>

RunsOf(names) == { Run(p) : p \in names }

SetupArgs(r) ==
    CASE r[1][1] = "constants"    -> <<>>
      [] r[1][1] = "const_setup"  -> Bind(<<"const_base">>, Host(<<"const_base">>))
      [] r[1][1] = "custom_setup" -> Bind(<<"custom_base", r[1][2]>>, Host(<<"custom_base", r[1][2]>>))

StageRuns(air) == RunsOf(StageNames(air) \ QuotientNames(air)) \cup Range(QuotientWindows(air))
StageArgs(air, r) ==
    CASE r[1][1] = "witness_calc" -> WitnessArgs(air)
      [] r[1][1] = "commit1" -> Bind(<<"trace">>, Trace(air))
      [] r[1][1] = "logup"   -> LogUpArgs(air)
      [] r[1][1] = "commit2" -> Bind(<<"cm2">>, Out(Run(<<"logup">>), <<"cm2">>))
      [] r[1][1] = "quotient" -> QuotientArgs(air, r)
      [] r[1][1] = "quotient_commit" -> PartArgs("q", QuotientWindows(air), <<"q">>)

OpeningRuns(air) ==
    RunsOf({ <<"lev">>, <<"evals_sum">>, <<"deep_concat">> })
      \cup Range(EvalsWindows(air)) \cup Range(DeepWindows(air))
OpeningRunArgs(air, r) ==
    CASE r[1][1] = "lev"       -> Bind(<<"xi">>, Squeezed(<<"std_xi">>))
      [] r[1][1] = "evals"     -> EvalsArgs(air, r)
      [] r[1][1] = "evals_sum" -> PartArgs("evals", EvalsWindows(air), <<"evals">>)
      [] r[1][1] = "deep"      -> DeepArgs(air, r)
      [] r[1][1] = "deep_concat" -> PartArgs("fri_pol", DeepWindows(air), <<"fri_pol">>)

FriArgs(air, r) ==
    CASE r[1][1] = "fri_commit" -> Bind(<<"codeword">>, Codeword(r[1][2]))
      [] r[1][1] = "fri_fold"   -> [n \in { <<"codeword">>, <<"beta">> } |->
                                      IF n = <<"beta">> THEN Squeezed(<<"beta", r[1][2]>>) ELSE Codeword(r[1][2])]
      [] r[1][1] = "fri_final"  -> Bind(<<"codeword">>, Codeword(air.rounds))
      [] r[1][1] = "grind"      -> Bind(<<"challenge">>, Squeezed(<<"challenge">>))

OpenTreeArgs(r) ==
    CASE r[1][1] = "open_const"  -> TreeArgs(<<"const_ext">>, Run(<<"const_setup">>),
                                             <<"const_setup_layers">>, <<"const_layers">>, Extended)
      [] r[1][1] = "open_custom" -> TreeArgs(<<"custom_ext", r[1][2]>>, Run(<<"custom_setup", r[1][2]>>),
                                             <<"custom_setup_layers", r[1][2]>>,
                                             <<"custom_layers", r[1][2]>>, Extended)
      [] r[1][1] = "open_cm1"    -> TreeArgs(<<"cm1_ext">>, Run(<<"commit1">>),
                                             <<"cm1_layers">>, <<"cm1_layers">>, Extended)
      [] r[1][1] = "open_cm2"    -> TreeArgs(<<"cm2_ext">>, Run(<<"commit2">>),
                                             <<"cm2_layers">>, <<"cm2_layers">>, Extended)
      [] r[1][1] = "open_qsec"   -> TreeArgs(<<"qsec">>, Run(<<"quotient_commit">>),
                                             <<"qsec_layers">>, <<"qsec_layers">>, Extended)
      [] r[1][1] = "open_fri"    -> TreeArgs(<<"fri_leaves", r[1][2]>>, Run(<<"fri_commit", r[1][2]>>),
                                             <<"fri_layers", r[1][2]>>, <<"fri_layers", r[1][2]>>,
                                             <<"round", r[1][2]>>)

Runs(air) ==
    RunsOf(SetupNames(air) \cup FriNames(air) \cup TreeNames(air))
      \cup StageRuns(air) \cup OpeningRuns(air)

ArgsOf(air, r) ==
    CASE r[1] \in SetupNames(air) -> SetupArgs(r)
      [] r \in StageRuns(air)     -> StageArgs(air, r)
      [] r \in OpeningRuns(air)   -> OpeningRunArgs(air, r)
      [] r[1] \in FriNames(air)   -> FriArgs(air, r)
      [] r[1] \in TreeNames(air)  -> OpenTreeArgs(r)

\* The run of a program whose inputs are bound by name out of an environment.
Args(air, run, e) ==
    LET bound == Programs(air)[run[1]].in \cap DOMAIN e
    IN  IF bound = {} THEN <<>> ELSE [n \in bound |-> e[n]]

Called(air, run, e) == [run |-> run, args |-> Args(air, run, e)]

-----------------------------------------------------------------------------
(* The transcript and the wire.                                            *)

Put(value) == [op |-> "put", value |-> value]
Absorb(air, value) == [op |-> IF air.hashed THEN "put digest" ELSE "put", value |-> value]
Squeeze(names) == [j \in DOMAIN names |-> [op |-> "squeeze", value |-> Squeezed(names[j])]]

Seed(air) ==
    IF air.recursive
    THEN << Put(Out(Run(<<"const_setup">>), <<"const_root">>)) >>
           \o (IF air.publics THEN << Absorb(air, Host(<<"publics">>)) >> ELSE <<>>)
           \o << Put(Out(Run(<<"commit1">>), <<"root1">>)) >>
    ELSE << Put(Host(<<"global_challenge">>)) >>

StageTwo(air) == InOrder({ i \in DOMAIN air.airvalues : air.airvalues[i] = 2 })
StageTwoAirvalues(air) ==
    [j \in DOMAIN StageTwo(air) |-> Put(<<AirvaluesOut[1], <<"airvalue", StageTwo(air)[j]>>>>)]

FriRoot(i) == Out(Run(<<"fri_commit", i>>), <<"fri_root", i>>)
FriRound(i) == << Put(FriRoot(i)) >> \o Squeeze(<< <<"beta", i>> >>)
\* Round after round, each of two items.
FriRounds(rounds) ==
    [j \in 1..(2 * rounds) |-> FriRound((j - 1) \div 2)[1 + ((j - 1) % 2)]]

Protocol(air) ==
    Seed(air) \o Squeeze(StageIds(2))
      \o << Put(Out(Run(<<"commit2">>), <<"root2">>)) >> \o StageTwoAirvalues(air)
      \o Squeeze(StageIds(NStages + 1))
      \o << Put(Out(Run(<<"quotient_commit">>), <<"rootq">>)) >>
      \o Squeeze(StageIds(NStages + 2))
      \o << Absorb(air, EvalsOut) >> \o Squeeze(StageIds(NStages + 3))
      \o FriRounds(air.rounds)
      \o << Absorb(air, Out(Run(<<"fri_final">>), <<"final_pol">>)) >>
      \o Squeeze(<< <<"challenge">> >>)

Opening(run) == Out(run, <<"opening">>)
Wire(air) ==
    << AirgroupvaluesOut(air), AirvaluesOut,
       Out(Run(<<"commit1">>), <<"root1">>), Out(Run(<<"commit2">>), <<"root2">>),
       Out(Run(<<"quotient_commit">>), <<"rootq">>), EvalsOut,
       Opening(Run(<<"open_const">>)) >>
      \o [j \in DOMAIN air.customs |-> Opening(Run(<<"open_custom", air.customs[j]>>))]
      \o << Opening(Run(<<"open_cm1">>)), Opening(Run(<<"open_cm2">>)), Opening(Run(<<"open_qsec">>)) >>
      \o [i \in 1..air.rounds |-> FriRoot(i - 1)]
      \o [i \in 1..air.rounds |-> Opening(Run(<<"open_fri", i - 1>>))]
      \o << Out(Run(<<"fri_final">>), <<"final_pol">>), Out(Run(<<"grind">>), <<"nonce">>) >>
=============================================================================
